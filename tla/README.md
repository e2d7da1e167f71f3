# RoboYtes firmware: specifications

The program under `src/` is the firmware of a small two-wheeled robot (an ESP32
board): it is driven over Bluetooth by JSON objects, one per line, plays music and
effects on two MP3 players, measures the distance in front of it, reads a
gyroscope and lights a strip of LEDs. This directory describes its state machines
in TLA+, checks them with TLC on small instances and proves the main results with
TLAPS for every value of the constants. The repository also carries the HTML
documentation of the MP3 player library, whose scripts (a search panel, a page of
results, a folding table) are the only JavaScript in it; they are described as well,
after the firmware.

Names follow the source, which is in Polish: `naped` is the drive, `pomiar` a
measurement, `teraz` the present (`millis()`), `przebieg` one pass of `loop()`,
`zatrzymaj` stops, `polecenie` is a command, `kolejka` a queue, `nuda` boredom,
`odbiornik` the receiver, `pole` the search field, `drzewo` the folding tree; `Dowody`
modules hold proofs.

## 1. The system

`setup()` in `RoboYtesHardware01.ino` creates one object per device; `loop()` then
runs for ever, in one thread, in this order:

    radar->mierzDystans()     measure, if its time has come
    radar->ruch180Krok()      one step of the demonstration sweep
    zyroskop->pomiar...()     read the gyroscope, if its time has come
    audio->audioHandler()     poll the left player, send queued commands, speak
    reception                 collect characters; at '\n' parse and dispatch
    naped->zatrzymaj()        dead-man stop of the wheels

| Component | State it keeps | Operations | Talks to |
|---|---|---|---|
| `YtesNaped` (drive) | direction of two servo wheels, `poruszamSie`, `msStop`, `msOstatniRuch`, autostop | seven movements, `ruchUs`, `ruchParametry`, `obslozPolecenieDane`, `zatrzymaj` | reads `radar->dystans()` before moving forwards |
| `YtesRadar` (range finder, servo) | last reading, next time of a measurement; servo angle; the sweep (angle, direction, remembered angle, running) | `mierzDystans`, `ustawRadar`, `ruch180Inicjuj`, `ruch180Krok`, `obslozPolecenieDane` | read by drive and audio |
| `YtesAudio` | modes, volumes, track, flags "music lowered" / "paused", last two answers of the left player, times of the next effect and of boredom | `obslozPolecenieDane`, `grajMuzyke`, `grajEfekt`, `audioHandler` | two queues; reads radar, gyroscope and drive |
| `YtesAudioPolecenie` (one per player) | linked list on the heap, its length, time of the next command | `dodaj`, `usun`, `pobierz`, `obsluzPolecenia` | a DFPlayer module |
| `YtesZyroskop` | a window of measurements, the classified state | measure, classify | read by audio |
| `YtesWSled` | colours of the LEDs | copy a command to the strip | - |
| `Servo` | LEDC channel table, pulse | attach, detach, write | wheels, radar |
| receiver in `loop()` | line buffer and index, "paired" | characters, dispatch of `lacze`, `naped`, `audio`, `radar`, `led` objects | every component |
| `BdlBluetoothSerial` | receive queue, transmit queue and buffer, event group, connection | SPP callbacks, transmit task, `read`, `write` | the Bluetooth stack; the receiver |
| `SearchBox` (`search.js`) | text, two timers, filter index, active flag; the document: focus, windows, frame | handlers of keys, focus, pointer, clicks, timers | the frame with the results |
| `SearchResults` (`search.js`) | rows shown, children shown, last key, repeat flag | search, arrow keys | the list `all_*.js`; the panel |
| folding table (`dynsections.js`) | rows shown, arrows, stripes | `toggleFolder`, `toggleLevel` | - |

What is hard here. Everything above the Bluetooth driver runs in one thread, so the
interleavings are those of a pass of `loop()` with the outside world: the clock
moves between any two steps and a pass may be long (the range finder spins on a
pin, the players are polled over a slow serial line); the obstacle moves; commands
of a user arrive in any order; the players act later than the program believes, an
answer or a file may be missing. All timing is done by comparing sums of
`millis()`, an unsigned 32-bit value. Below that, `BdlBluetoothSerial` really is
concurrent: callbacks of the stack, a transmit task and the loop share globals that
nothing protects. The scripts run one handler at a time, but timers, key releases,
focus changes and page loads come in any order between handlers that each believe
they know what happened before.

What makes each component correct:

* drive: wheels never turn without the stopper; a movement lasts one impulse,
  not less and not more than one pass longer; autostop ends forward movement;
* range finder: cyclic measuring, a reading never older than an interval and a pass;
* sweep: shows every angle, returns, ends, and counts as activity throughout;
* audio: what is lowered, paused or changed on a player converges to what the
  program believes, and lowered music comes back;
* effects of its own accord: one at a time, a minimal pause, boredom only when idle;
* command queue: a FIFO queue, no cell lost or used after `free`, paced, drained;
* receiver and Bluetooth port: a line handed on is what arrived, a command is carried
  out once, bytes go out in their order and none twice, the port becomes free again,
  and neither the loop nor the transmit task waits for ever;
* search panel: it looks active exactly when it is, the menu stays while the pointer
  is on it, what is typed is searched for, under the filter that is marked;
* results: the rows found are those that begin with the text, and the arrow keys walk
  over exactly what is shown;
* folding table: a row is shown exactly when its folder is shown and open.

`PROJECT.json` lists under `hazards` where each of these can go wrong, line by line.

## 2. Modules

| Module | Models | Composed from / implements |
|---|---|---|
| `Naped` | `YtesNaped` in the loop | |
| `Zegar` | `millis()` and the length of a pass, the constants of both radar modules | |
| `RadarPomiar` | `YtesRadar::mierzDystans()` and the echo pin | |
| `RadarRuch` | servo and sweep of `YtesRadar` | |
| `Radar` | `YtesRadar` in the loop | conjoins the actions of `RadarPomiar` and `RadarRuch` |
| `RobotRuch` | one loop with drive, range finder, moving obstacle | conjoins the actions of `Naped` and `RadarPomiar` |
| `Audio` | `YtesAudio`: commands, queues, poll; both players | players are external |
| `AutoEfekty` | the choice of effects in `audioHandler()` | |
| `ListaPolecen` | `YtesAudioPolecenie`, cell by cell | implements `KolejkaFIFO` |
| `KolejkaFIFO` | the abstract queue `YtesAudio` relies on | |
| `SppSerial` | `BdlBluetoothSerial`: callbacks, transmit task, `read`, `write` | the stack is external |
| `Odbiornik` | the reception in `loop()` over the port; the application | extends `SppSerial` |
| `PoleSzukania` | class `SearchBox` with the events bound to it | browser external |
| `WynikiSzukania` | class `SearchResults` on a page of results | browser external |
| `DrzewoPlikow` | the folding table | |
| `Strona` | a page with both | interleaves `WynikiSzukania` and `DrzewoPlikow` |
| `NapedDowody`, `AudioDowody`, `AutoDowody`, `ListaDowody`, `LaczeDowody` | theorems and proofs | extend the module they prove about (`AutoDowody`: `AutoEfekty`; `ListaDowody`: `ListaPolecen`; `LaczeDowody`: `Odbiornik`) |
| `RadarDowody` | theorems and proofs of both halves of the radar | extends `Radar` |
| `RobotDowody` | theorems and proofs of the composition | extends `RobotRuch` |
| `DokumentacjaDowody` | theorems and proofs of the scripts | extends `PoleSzukania` and `Strona` |
| `MC...` | values of the constants for TLC | |

Some definitions are headed "Fault:". They are plausible slips in the definition
that follows them (a forgotten reset, a swapped order). Nothing uses them;
`PROJECT.json` names, for each property, one that the property rules out when it
takes the place of the real one, so that no property holds vacuously.

### How state and actions correspond to the code

**Naped.** `naped` is the object: `lewe`/`prawe` stand for the pulse a wheel was
last given, the other fields have their names. The operations are functions of
that record, in the order of the code: `obslozPolecenieDane` tries the six keys one
after another, executes every one present, and reads `AUTOSTOP` last; a blocked
forward movement returns before it touches the stopper. `faza` is the place in
`loop()`: `Pomiar` renews the reading (or not), `PolecenieDane`,
`PolecenieParametry`, `PolecenieUs` or `BrakPolecenia` is the reception, `Zatrzymaj`
the end of the pass. `Czas` ticks between any two of them. The entry points
`ruchParametry` and `ruchUs` are public but not called by the loop, hence the
constant `Wejscia`. `blokadaOd`, `przebieg` and the field `bezposrednio` are history;
the last one tells a wheel that `ruchUs()` turned, and that no stopper will stop,
from a movement (`Jedzie`), which is what the properties are about.

**RadarPomiar.** `mierzDystans()` is `Pomin` (its time has not come) or `Wyzwol`,
`EchoNarasta`, `EchoOpada`: trigger, first busy wait, second busy wait. `dystansMm`
is the integer arithmetic of the code. The rest of the pass is `Reszta`.

**RadarRuch.** `ruch180` is the structure of the sweep. `BezKroku`, `Krok`,
`OstatniKrok` are the branches of `ruch180Krok()`; `Polecenie` is a `radar` object:
`RUCH180` first, then `KAT`, either may be missing.

**Radar.** A pass of the two together: `PomiarLubNie` and `Echo` are the measurement,
`ruch180Krok` the step of the sweep after it, `Odbior` the reception and the end of
the pass. A slow echo delays the sweep, and a slow pass the measurement.

**RobotRuch.** Each step of the loop is the conjunction of a step of `Naped` and one
of `RadarPomiar` (through `INSTANCE`, with `faza` mapped to what each of them sees),
and the stored reading is one variable. The obstacle moves between any two steps and
the echo is that of where it stands when the measurement ends.

**Audio.** `audio` is the object with its two queues; `lewy`, `prawy` are the players
as the commands sent to them leave them. One action `Handler` is a call of
`audioHandler()`: poll, at most one command from each queue, perhaps an effect. That
a poll or a queue finds its time come is left open, except that a poll lies between
two commands to the left player (100 ms against 500 ms). `KoniecEfektu` is external:
an effect ends after a poll has seen it play. A volume is the number the program keeps
until it is sent; `volume` then takes it as a byte and ignores it above 30, as
`obsluzPierwsze()` and the library do.

**AutoEfekty.** The second half of `audioHandler()` with its clock: `RadarMowi`,
`Zyroskop` and `Nuda` are its three branches in order, the first of which returns.
The reading and the gyroscope's state are inputs of the call. `smiec` is the value of
the uninitialised `indexEfektu` where no case assigns it: a nondeterministic choice
from `Smieci`, which `grajEfekt()` plays if it is greater than 0 (`"SMIEC"` in `mowi`).
`kiedy` is history: when an effect was last chosen that the program means.

**ListaPolecen.** `pamiec` is the heap: a function from allocated addresses to cells.
`dodaj` walks to the last cell, `usun` unlinks and frees, `malloc` may refuse.
`obsluzPolecenia` sends and removes the first command and renews its time even when
nothing waits.

**SppSerial.** The variables are the globals of `BdlBluetoothSerial.cpp` under their
names or in Polish (`klient` is `_spp_client`, `drugi` is `secondConnectionAttempt`),
and six histories. `SrvOpen`, `Close`, `Cong`, `WriteEvt` and `DataInd` are the cases of `esp_spp_cb()`; `tx` is the place of `_spp_tx_task()`: `Odbierz` takes a packet
and tests the room, `Rozdziel` divides one that does not fit, `Kopiuj` copies, `Dolicz`
reads the length for the sum, `Zapisz` stores it and `Sprawdz` asks whether to send;
`_spp_send_buffer()` waits for room and for the acknowledgement, and each wait ends
well or by its time limit (`Nadaj`, `NieNadaj`, `Zatkane`, `Potwierdzone`,
`BezPotwierdzenia`); `Dalej` goes on with the rest of the packet. Every read
and store of `_spp_tx_buffer_len` is a step of its own, because the callback may clear it
between them: after a reset between `Odbierz` and `Rozdziel` the room is greater than the
packet, `memcpy()` reads behind it and the rest is a `size_t` that wraps (`PozaKoniec`,
modulo `RozmiarT`). A byte to send is its number, so order and repetition can be seen;
a byte that is no packet's is 0.

**Odbiornik.** `Czytaj` is one turn of the reading loop, `Wykonaj` the parse and
dispatch of a line, `Odpowiadaj` one of the two writes of `println()`, and `Koniec` the
rest of the pass. A command travels as a few characters that no other command
has, in portions of any size, over links that may be cut between them.

**PoleSzukania.** `panel` is the object with the part of the document its handlers
touch. A handler is an operator from a panel to a panel, named as in the source, and
an event applies all the handlers it causes: a change of focus calls `Activate`
through `onblur` and `onfocus`, also when a handler makes it. A timer is an identifier
that is in `szukania` or `chowania` as long as it runs; `keyTimeout` and `hideTimeout`
remember one of each, and the code sometimes forgets one that still runs. A click may
come while a key is held, and the release then reaches whatever has the focus;
`zgubione` is history: the release of a letter went elsewhere.

**WynikiSzukania.** `widoczne`, `rozwiniete` and `fokus` are what the browser shows;
`NavDol`, `NavGora`, `NavChildDol` and `NavChildGora` find the next element by the
index arithmetic of `NavNext`, `NavPrev` and `NavChild`; `ProcessKeys` filters the
doubled keydown and keypress events. `Kod` is the encoding of `convertToId()`,
character by character, because the search compares encodings.

**DrzewoPlikow.** `pokazane` are the rows displayed, `otwarte` the arrows that point
down, `parzyste` the stripes. `toggleFolder` looks at the first child only.

## 3. Runs

Passing runs:

| Run | Checks | Shows |
|---|---|---|
| `naped` | `RuchOgraniczony`, `PrzodGasnie`, `PelnyImpuls`, `ZawszeStaje` | For all mixes of commands, direct pulses, readings and lengths of a pass: movements end in time and not early, forward movement dies out before an obstacle however many commands keep coming, and after the last command a moving robot stops. |
| `radar` | `OdczytSwiezy`, `NudaOdwlekana`, `ZawszeWraca`, `PelnyRuch`, `RuchSieKonczy` | Measurement and sweep delaying each other: the reading used in a pass is at most an interval and a pass old, however long an echo takes; with a working sensor the loop always gets past the measurement; a sweep restarted and disturbed at any moment still shows every angle and returns, keeps boredom away, and ends once it is not restarted. |
| `robot_ruch` | `HamujePrzedPrzeszkoda` | Autostop end to end: interval + impulse + two passes after an obstacle comes near, nothing moves forwards. |
| `audio` | `MuzykaWraca`, `MuzykaGra`, `UtworZgodny`, `PowrotPrzedNami`, `MuzykaWracaKiedys` | Under commands, effects, failed polls, missing files and volumes that the player changes or refuses, in any order: what the right player is left with once its queue is done is what the program believes (of a refused volume, only that it was sent); and until an answer or a file fails to come, while music is lowered or paused the event that brings it back lies ahead, and it does come back. |
| `auto_efekty` | `PrzerwaMiedzyEfektami`, `NudaPoBezczynnosci`, `NudaMowi` | Three competing reasons to speak keep the pause between them, whatever the uninitialised index adds; boredom needs real idleness; a paired robot left alone speaks again. |
| `lista_polecen` | `BezWycieku`, `JestKolejka`, `PrzerwaZachowana`, `Oprozniana` | The linked list neither leaks nor dangles, implements the abstract queue, keeps its pause and is emptied. |
| `lacze` | `TypeOK`, `KopieWGranicach`, `PortWraca`, `JedenZapis`, `WierszWierny`, `Strumien`, `KazdeRaz`, `RxOprozniana`, `TxOprozniana` | Receiver, port, task and two peers interleaved, with congestion, late and missing acknowledgements, refused clients and lost links: no copy writes behind the buffer, lines are what arrived, commands are carried out once, bytes go out in order, the port becomes free, the loop and the task go on. |
| `szukanie` | `TypeOK`, `Uspiony`, `MenuPodMysza`, `WynikiFiltru`, `TekstSzukany` | Keys, clicks (also while a key is held), pointer, focus and timers in any order: the panel is what it looks like, the menu stays under the pointer, what is shown belongs to the filter marked, and what is typed is searched for. |
| `strona` | `Dopasowane`, `Strzalki`, `PierwszyNieDziala`, `ZgodneStrzalki` | The rows found begin with the text; the arrow keys walk over all that is shown and back; one press is one step; rows and arrows of the table agree. |

Three runs show that the code differs from what a comment says of it (`findings` in
`PROJECT.json` quotes them):

| Run | Violated | Why |
|---|---|---|
| `naped_przewiniecie` | `BezPolecenStaje` | `msStop` wraps with `millis()`, and the wheels may then turn for ever. |
| `audio_glosno` | `PoprzedniaGlosnosc` | A volume of 31 is kept (`YtesAudio.h:775`) but refused when it is sent; an effect lowers the music and the 31 that is to restore it is refused too, so the music stays lowered. |
| `auto_efekty_smieci` | `MinimalnaPrzerwa` | `indexEfektu` is read uninitialised (`YtesAudio.h:613`): what it holds is played without putting the next effect off, which may follow at once. |

Other disagreements that came up while modelling, and that the modules contain as
the code has them: the waits for the echo have no limit (`YtesRadar.h:81`), although 0
is to stand for a measurement that cannot be made (`YtesRadar.h:132`); one flag
"lowered" serves all effects, so the end of one restores the music under the next
(`YtesAudio.h:569` against the comment at line 49); `ruchParametry(-1, 0)` and `(0, -1)`
turn the wrong wheel (`YtesNaped.h:312`); `ruchUs()` renews no stopper, against
`YtesNaped.h:70`; `ustawRadar()` corrects a variable it does not use
(`YtesRadar.h:110`); a sweep started from 180 ends at once (`YtesRadar.h:215`); a
reading of 0, which is what an obstacle nearer than 20 mm gives, does not block forward
movement (`YtesNaped.h:128`) but counts as near for the sounds (`YtesAudio.h:597`);
pairing does not set `msNuda`, against `YtesAudio.h:198`; an effect whose file is
missing leaves the music lowered; the next times of the measurement
(`YtesRadar.h:136`) and of the queue (`YtesAudioPolecenie.h:251`) wrap as that of the
stopper does; the rest of a line of a client that was cut off is put before the first
command of the next (`RoboYtesHardware01.ino:239`); a reset of the transmit buffer
while the task fills it leaves old bytes for the new client
(`BdlBluetoothSerial.cpp:272`), and between two reads of its length makes the task read
behind a packet (`BdlBluetoothSerial.cpp:212`). In the scripts: Down in the filter menu goes one
behind the last filter, where no search works (`search.js:293`); a typed text that is
the label counts as an empty field (`search.js:407`); Shift with Down or
Enter takes a search that was due away, and so does a click while a letter is held
(`search.js:181`); a chosen filter leaves a timer that may open
closed results again (`search.js:330`); two rows of `all_2.js` have the same id, so
the keys in the second would open the children of the first, if it had any.

### Bounds, and why they are enough

* *The clock.* One unit is 100 ms (50 ms in `RadarRuch`, about 100 ms in the run `radar`, a few seconds in
  `AutoEfekty`); an impulse of 300 ms is 3 units, a measuring interval of 200 ms is
  2. The program only compares times, so what matters is their order and the
  differences around the thresholds; every threshold is passed below, at and above.
  `Koniec` stops the clock after several impulses: the protocols keep no
  memory of older moments. Where a run is not about the wrap, `Zakres > Koniec`
  keeps it away; `naped_przewiniecie` has `Koniec = Zakres`, i.e. no end, and wraps
  for ever. The theorems have neither bound.
* *A pass.* `MaxPrzebieg` is the length of a pass in ticks, and it appears in the
  bounds the properties state: a program that stands still for longer can be late by
  just that. Values 1 to 3 make a pass shorter and longer than the intervals.
* *Commands.* `KoniecPolecen` below `Koniec` gives liveness runs a time after the
  last command; elsewhere commands come to the end. `Pakiety` holds each key alone
  and the combinations whose order matters; `MCPolecenia` of `Audio` likewise.
* *Boredom and pause.* `auto_efekty` takes `NudaCzekaj = 2` against pauses of 1 or 2, so
  that the last event can fall on either side of the moment either of them is over;
  with a longer time of boredom and the same last event nothing would put boredom off.
* *Distances* are one per zone the code distinguishes (failed, blocking, free);
  the run `radar` has an echo that fails and one that does not.
* *Angles.* `KatMax = 4` keeps both ends, the middle and one angle on each side.
  A pass of the run is shorter or longer than the interval of the measurement and than
  the step of the sweep; `Koniec` leaves a sweep started last the time for all its steps
  at the slowest pace.
* *Audio.* `MaxZadan` commands and effects: three are enough for an effect over an
  effect with a change of volume or a stop between them. The volumes 280 and 31 are one
  that the cast to a byte changes and the first that the library refuses.
* *The uninitialised index* is 0 or 1: the code asks only whether it is greater than 0.
* *Memory.* Three cells: first, middle and last are distinct, and full memory is
  reached.
* *Port.* Two links, so that one can be refused while the other is the client, and two
  opened connections, so that one follows a lost one; buffers of two bytes, a
  transmit queue of one packet and a receive queue of two bytes are all filled,
  `RozmiarT = 4` makes the smallest `size_t` that is longer than the buffer, and
  the answer is two packets, the first of them longer than the transmit buffer. Two of the
  three commands are sent, one of which is too long for the line buffer.
* *Search panel.* `Zegary` lets two timers of a kind run, one known and one forgotten;
  `MaxZdarzen` events of the user; texts with a space in front and inside; two filters,
  so that the index behind the last is a third; a blank text, which is searched for as
  the empty one, and a text that is the label but for its spaces. The label itself is
  not typed: the field would be taken for an empty one (`search.js:407`), and
  `WynikiFiltru` fails. One key is held at a time; clicks come meanwhile.
* *Page.* Six rows with the duplicate of `all_2.js` out of order, rows without, with
  one and with two children; texts with capitals, spaces and a control character. The
  table has three levels and folders with and without folders in them. The pages shipped
  here have neither children of a row nor more than one folder with one leaf: those parts
  are about what `createResults()` and `toggleFolder()` would make of other pages of the
  generator.

### Fairness, and why the code justifies it

`loop()` is called for ever by the Arduino core and nothing in it waits for another
task, so the steps of a pass are weakly fair, and so is the clock. In `Radar`
the sensor's two edges are separate: `SpecBezCzujnika` assumes nothing of them and
`SpecZCzujnikiem` assumes a working sensor. `Audio` takes weak fairness of the poll
and of each queue separately (each has its own timer, and the loop keeps visiting
them) and of the end of an effect (a file is finite). No commands are assumed.
`Odbiornik` is weakly fair to the loop and to the task `spp_tx`, which FreeRTOS
schedules; it assumes nothing of the stack, the peer or the application, so that a
wait may end by its time limit only. `PoleSzukania` assumes that timers fire, a key
held down is released and a page is loaded, and nothing of the user; there, where the
user may have finished, a state without a next step is no error
(`CHECK_DEADLOCK FALSE`).

## 4. What is proved

TLAPS proves, for every width of the clock, length of impulse, interval and pass, size
of buffer and queue, and every set of commands, that (names of theorems in brackets):

* **Drive** (`NapedDowody`). `TypeOK` over the wrap too [`Typowanie`];
  `KolaPodNadzorem` [`Nadzor`], `RuchOgraniczony` [`MartwaReka`], `PrzodGasnie`
  [`Autostop`], `PelnyImpuls` [`CalyImpuls`], with every entry point in use. Those
  about time assume `BezPrzewiniecia`, i.e. that the clock stops early enough
  for no sum to wrap (`naped_przewiniecie` shows it is needed). The
  invariant `IndCzas` ties `msStop` to `msOstatniRuch`: a wheel that turns is under
  a stopper set exactly one impulse after the last movement, the stopper has not
  been overrun by more than the present pass, and forward movement dates from
  before the obstacle was seen. None of the properties is inductive alone: the bound
  of `RuchOgraniczony` is at risk at every tick, and only what `zatrzymaj()` left at
  the last end of a pass bounds it.
* **Range finder** (`RadarDowody`). `OdczytSwiezy` [`Swiezosc`] without wrap, from
  `IndPomiar`: the next measurement is due one interval after the last trigger, and
  a pass that did not measure began no later than that. `TypeOK` over the wrap
  [`TypowaniePomiaru`].
* **Drive and range finder in one loop** (`RobotDowody`). `HamujePrzedPrzeszkoda`
  [`AutostopKoncowy`] without wrap, if a near obstacle is measured as one
  (`EchoAssumption`, which TLC evaluates for the values of the run). Neither component
  alone gives it: the invariant `IndRobot` says that a near obstacle the reading does
  not show has come up since the last measurement, that a pass past its measurement
  began no later than the next one is due, hence that forward movement was last
  renewed at most an interval and a pass after the obstacle came up; the stopper adds
  an impulse and a pass.
* **Both halves of the radar in the loop** (`RadarDowody`). A behaviour of `Radar` is one
  of each half, so what is proved of them holds there too (`WPetli`).
* **Sweep** (`RadarDowody`). `TypyRuchu` [`TypowanieRuchu`]; `Przebyte` [`PrzebyteZawsze`],
  `PelnyRuch` [`PelnyRuchZawsze`] for starts in 0 .. 179 (from 180 a sweep ends at once);
  `NudaOdwlekana` [`NudaOdwlekanaZawsze`] with no assumption on the angles but
  those `Przebyte` has. `Przebyte` is the inductive invariant behind `PelnyRuch`; the
  part about boredom has one of its own, `IndNuda`.
* **Audio** (`AudioDowody`). `TypeOK` [`Typowanie`], `MuzykaWraca`
  [`MuzykaWracaZawsze`], `MuzykaGra` [`MuzykaGraZawsze`], `UtworZgodny`
  [`UtworZgodnyZawsze`], for any numbers in the commands and with every disturbance on.
  The last three say that *the last command of a kind in a queue, or the player if there
  is none, agrees with a field*. The lemmas show what appending a command, sending
  the first one and leaving the queue alone do to such a statement; the theorems go
  through the operations with them. Of the volume `MuzykaWraca` says that the number
  queued last is the one asked for, and that the player has it, as a byte, if the library
  accepts it. `PowrotPrzedNami` [`PowrotZawsze`], until an answer or a file fails to
  come: every operation of a user only adds to the queues or restores the music itself, and a poll that has seen an effect play has its end still to see.
* **Effects of its own accord** (`AutoDowody`). `TypeOK` [`Typowanie`];
  `PrzerwaMiedzyEfektami` [`PrzerwaZawsze`] and `NudaPoBezczynnosci` [`NudaZawsze`],
  whatever `indexEfektu` holds: the effects the program means keep the pause from one
  another, and beside one that the garbage chose only boredom speaks in the same pass.
  `Skutek` lists what a call can come to, branch by
  branch; the invariant `NastepnyPoPrzerwie` says that the next effect is never due
  before the pause after the last one is over.
* **Command queue** (`ListaDowody`). `BezWycieku` [`NicNieCieknie`] and `JestKolejka`
  [`ListaJestKolejka`], the refinement of `KolejkaFIFO`, for a heap of any finite size.
  The module finds the cells by recursion along `next`, which an invariant cannot
  unfold; `IndLista` says instead that *there is* a sequence of distinct addresses
  (`Lancuch`) that starts at `head`, is all that is allocated and is linked in its
  order. Adding, refusing, removing at any place and sending each change that witness
  in one place, and what they do to it is what `KolejkaFIFO` does to its sequence. That
  the recursion walks along the witness follows from least numbers: there is no first
  step at which it leaves it. `PrzerwaZachowana` [`PrzerwaZawsze`] without wrap, from
  `IndPrzerwa`: the next time is not before the pause after the last command ends.
* **Receiver and port** (`LaczeDowody`). `TypeOK` [`Typowanie`], i.e. `ndx` stays in
  the line buffer and the length in the transmit buffer; `KopieWGranicach`
  [`KopieZawsze`]: no copy writes behind the transmit buffer, whenever the callback
  clears its length, and none reads behind its packet unless the callback came between
  test and store; from `BajtyOK`, by which every byte on its way is one that `write()`
  accepted; `PortWraca` [`WolnyPort`];
  `JedenZapis` [`BezSpietrzenia`]; `WierszWierny` [`WierszJestWierny`]. The invariant has
  one part per variable group (session, write, task, queues, loop, line), each kept by
  every step with the help of at most two others. Two more say where the data is:
  * `KazdeRaz` [`KazdePolecenieRaz`], from `KolejnoOK`: before the first fault only one
    application is sending, and what was read of a line, what waits in the receive
    queue and what is still to arrive are together (`Bieg`) the texts of the commands
    that wait to be carried out, one behind another. A step of the stack or the loop
    moves characters within `Bieg`, and a command is carried out when its first line
    end is reached, which is the end of the first text. It needs that no text has the
    line end in it (`OdbiornikAssumption`).
  * `Strumien` [`StrumienZawsze`], from `StrumienOK`: the packets queued, the packet in
    hand and the buffer hold one rising sequence of byte numbers, without holes until
    something is lost, and what the buffer holds counts from the copy on, before its
    length is stored (`Zajete`).
* **Search panel** (`DokumentacjaDowody`). `TypeOK` [`Typowanie`], `Uspiony`
  [`PanelUspiony`], `MenuPodMysza` [`MenuZostaje`], from one invariant [`Niezmiennik`].
  It adds that no timer of the menu runs but the one remembered, or showing the menu
  would not stop it, and that there is room for a timer when a key is released.
  `WynikiFiltru` [`WynikiZawsze`] if the label is not typed, from `FiltrOK`, which holds
  until a letter's release is lost (`zgubione`): the results
  belong to the filter marked, and the choice of another filter either searches or
  finds results of a blank text; only between the press of a key and its release may
  the text be one that a filter would not search for.
* **Folding table** (`DokumentacjaDowody`). The types of its variables
  [`TypowanieTabeli`]; `ZgodneStrzalki` [`RzedyIStrzalki`] for every table.
* **Results** (`DokumentacjaDowody`). `Dopasowane` [`DopasowaneZawsze`] for every list and
  every text: no code of a character is the beginning of another one's (`Kody`), so
  the sequences of codes compare as the names do (`KodPrefiks`). What `FlattenSeq`
  computes is shown by least numbers, as for the list above. `PierwszyNieDziala`
  [`PierwszyZawsze`], from `PrasaOK`: a key that was pressed in the results has cleared
  `repeatOn`. `Strzalki` [`StrzalkiZawsze`] under `StronaAssumption`: the rows a text
  finds lie together, and of the rows with one id only the first has children. The
  generator of the documentation makes such lists (all `all_*.js` here have both
  properties, and TLC evaluates them for the list of the run); the code relies on
  them, since `NavGora` looks for the children of a row by the index before its own.
  `StronaZlozona` carries all this to the page with both.

Model-checked only: liveness (`ZawszeStaje`, `ZawszeWraca`, `RuchSieKonczy`,
`MuzykaWracaKiedys`, `NudaMowi`, `Oprozniana`, `RxOprozniana`, `TxOprozniana`,
`TekstSzukany`), which with `ENABLED` is out of the prover's reach. Every invariant and
every action property of a passing run is a theorem, under the assumptions named
above.

The type invariants of the firmware modules but `Odbiornik` are proved and not checked
again in every run.

## 5. Abstractions worth knowing

* Wheels are a direction, not a pulse in microseconds; calibration is left out.
* `odpowiedz()` methods, logging and JSON text are not modelled: a command is the set
  or function of its keys.
* `Audio` and `ListaPolecen` are joined by the abstract queue only: `Audio` uses a
  sequence, and `ListaPolecen` implements `KolejkaFIFO`, which is one. A refusal of
  `malloc()` is in `ListaPolecen` but not in `Audio`: there the queues do not fill up.
* `AutoEfekty` assumes that every group of effects has a member, as the tables in
  `YtesAudio.cpp` do, and has no wrap: its sums are covered by the same hazard
  as those of the drive and the queue.
* `Odbiornik` hands a line on as a whole command; what `naped`, `audio` and `radar` do
  with their object is in their modules, and how a command is put together from keys is
  not followed over the link. The delay the waits of `println()` put into a pass is
  one of the lengths of a pass in `Naped` (`MaxPrzebieg`), not a variable shared with
  it.
* When the session callback clears the transmit buffer at the moment the task adds to
  it, `Strumien` says nothing about the bytes then in it (`zderzenie`). Bytes of a packet
  that was given up are not sent later; those of another packet may follow.
* What a read behind a packet leads to beyond the bytes it sends (it may stop the board)
  is not modelled: those bytes are 0.
* In `PoleSzukania` a text stands for a class of texts. The close button, positions and
  colours are left out, and so is the way a browser lets several keys overlap. Enter on
  a row of results that has one entry leaves the page.
* The players are external: a volume takes effect when its command is sent, a folder
  command starts playing and ends a pause, a missing file does not start.

## 6. What is not modelled

* `YtesZyroskop`: a sliding window and a classification in float arithmetic; a copy in
  scaled integers would be another program. Its state is a free input of `AutoEfekty`.
* `YtesWSled`, `YtesLed`: colours copied from a command to a strip, and a class for
  another board that is never created.
* `Servo`: three servos are attached once in `setup()` and never detached, so its
  channel table never changes after that; what is left converts an angle to a pulse.
* `BdlBluetoothSerial` beyond slave mode: master mode, discovery, pairing, and the start
  and stop of the stack, none of which the loop uses.
* `toggleVisibility` and `toggleInherit` of `dynsections.js`: no page of this
  documentation has such a section. `menudata.js`, `searchdata.js` and the lists
  `all_*.js` are data; jQuery is third-party code.
* `setup.h`/`setup.cpp` (constants and log macros), `test.cpp` and the calibration
  sketches (run by hand), and the vendored libraries (DFPlayerMini_Fast,
  DFRobotDFPlayerMini, EspSoftwareSerial, FireTimer).

## 7. Plan

Written, in this order, the most important behaviour first: drive; range finder; sweep;
their composition; audio; effects; queue; port and receiver; search panel; results and
table; proofs of the invariants and action properties of all of them.

What could follow:

1. A composition of the receiver with `Naped` and `RadarRuch`: the delay of an answer as
   part of the pass of the drive.
2. `Strumien` as a refinement of one byte stream per connection.
3. Refusals of `malloc()` in `Audio`.
