------------------------------- MODULE Audio -------------------------------
(***************************************************************************)
(* The two MP3 players of the robot and class YtesAudio                    *)
(* (src/src/wspolne/YtesAudio.h), which plays music on the right one,      *)
(* effects on the left one, and lowers or pauses the music while an effect *)
(* plays.  Nothing is sent to a player at once: commands go to one queue   *)
(* per player and audioHandler() sends at most one from each in a pass, so *)
(* what the program believes and what the players do drift apart and meet. *)
(*                                                                         *)
(* The pacing of the queues and of the polling is left open (any pass may  *)
(* find its time come or not), except that a poll always lies between two  *)
(* commands to the left player (100 ms against 500 ms).  When a spoken     *)
(* effect is due is the subject of another module: here audioHandler() may *)
(* choose one in any pass of a paired robot.                               *)
(***************************************************************************)
EXTENDS Integers, Sequences

CONSTANTS
    IloscUtworow,   \* iloscUtworow: tracks of a music catalogue
    IloscEfektow,   \* iloscEfektow: effects
    Polecenia,      \* "audio" objects: functions from some of the keys to Int
    AutoEfekty,     \* effects that audioHandler() may choose
    MaxZadan,       \* bound: commands and chosen effects in a behaviour
    Zaklocenia      \* what may go wrong: "brakOdpowiedzi", "brakPliku"

Klucze == {"TOR", "TRYB", "LG", "PG", "PW", "PO", "LO"}

ASSUME AudioAssumption ==
    /\ IloscUtworow \in 1 .. 255 /\ IloscEfektow \in 0 .. 255
    /\ \A d \in Polecenia : DOMAIN d \subseteq Klucze /\ \A k \in DOMAIN d : d[k] \in Int
    /\ AutoEfekty \subseteq Int
    /\ MaxZadan \in Nat
    /\ Zaklocenia \subseteq {"brakOdpowiedzi", "brakPliku"}

VARIABLES
    audio,      \* the fields of YtesAudio; "lewa" and "prawa" are the queues
    lewy,       \* the left player: its volume, and whether it plays
    prawy,      \* the right player: its volume, its track, and whether it pauses
    odpytany,   \* the left player was polled after the last command sent to it
    zadania,    \* history: how many commands and chosen effects there were
    zaklocone   \* history: an answer came late, or a file was missing

vars == <<audio, lewy, prawy, odpytany, zadania, zaklocone>>

\* enum TRYB_AUDIO.  A number outside it is stored as it comes.
NORMALNY == 0
WYCISZANIE == 1
PALZOWANIE == 2

\* The commands of YtesAudioPolecenie that YtesAudio uses.
VOLUME == 10
PLAYFOLDER == 20
REPEATFOLDER == 30
PAUSE == 50
RESUME == 60
STOP == 70

-----------------------------------------------------------------------------
(* YtesAudio, as functions of the object's fields. *)

dodajLewy(a, polecenie)  == [a EXCEPT !.lewa = Append(@, polecenie)]
dodajPrawy(a, polecenie) == [a EXCEPT !.prawa = Append(@, polecenie)]

Ogranicz(x, min, max) == IF x < min THEN min ELSE IF x > max THEN max ELSE x
ZeroPozaZakresem(x, max) == IF x < 0 \/ x > max THEN 0 ELSE x

\* ustawTor: an unknown number gives CENZURA.
ustawTor(a, tor) == [a EXCEPT !.tor = IF tor = 1 THEN 1 ELSE 0]
katMuzyka(a) == IF a.tor = 0 THEN 1 ELSE 3
katEfekty(a) == IF a.tor = 0 THEN 2 ELSE 4

ustawPoziomWyciszenia(a, poziom) ==
    [a EXCEPT !.poziomWyciszenia = Ogranicz(poziom, 1, 15)]

grajMuzyke(a, nr) ==
    LET w == ZeroPozaZakresem(nr, IloscUtworow)
    IN  dodajPrawy([a EXCEPT !.PO = w],
                   IF w = 0 THEN <<REPEATFOLDER, katMuzyka(a), 0>>
                            ELSE <<PLAYFOLDER, katMuzyka(a), w>>)

grajMuzykePowitalna(a) == dodajPrawy(a, <<REPEATFOLDER, 5, 0>>)

\* grajEfekt: in an unknown mode nothing happens at all.
grajEfekt(a, nr) ==
    LET w == ZeroPozaZakresem(nr, IloscEfektow)
        efekt == <<PLAYFOLDER, katEfekty(a), w>>
        ciszej == IF a.glosnoscPrawy < a.poziomWyciszenia
                  THEN 0 ELSE a.glosnoscPrawy - a.poziomWyciszenia
    IN  CASE w = 0 -> dodajLewy(a, <<STOP, 0, 0>>)
          [] w # 0 /\ a.tryb = NORMALNY -> dodajLewy(a, efekt)
          [] w # 0 /\ a.tryb = WYCISZANIE ->
                dodajLewy(dodajPrawy([a EXCEPT !.muzykaWyciszona = TRUE],
                                     <<VOLUME, ciszej, 0>>), efekt)
          [] w # 0 /\ a.tryb = PALZOWANIE ->
                dodajLewy(dodajPrawy([a EXCEPT !.muzykaPauza = TRUE],
                                     <<PAUSE, 0, 0>>), efekt)
          [] OTHER -> a

\* audioHandler: the state of the left player is polled; when it has just
\* stopped, the volume comes back and the pause ends.
koniecWyciszenia(a) ==
    IF a.muzykaWyciszona
    THEN dodajPrawy([a EXCEPT !.muzykaWyciszona = FALSE],
                    <<VOLUME, a.muzykaPrzedWyciszeniem, 0>>)
    ELSE a

\* Fault: the pause is forgotten, the player is not told.
KoniecPauzyBezWznowienia(a) == [a EXCEPT !.muzykaPauza = FALSE]

koniecPauzy(a) ==
    IF a.muzykaPauza
    THEN dodajPrawy([a EXCEPT !.muzykaPauza = FALSE], <<RESUME, 0, 0>>)
    ELSE a

\* Faults: the state of the poll before the last is looked at; a restored volume
\* leaves the pause on.
KontrolaSpozniona(a, gra) ==
    LET b == [a EXCEPT !.lewyPopStan = a.lewyAktStan, !.lewyAktStan = gra]
    IN  IF a.lewyPopStan /\ ~gra THEN koniecPauzy(koniecWyciszenia(b)) ELSE b

KontrolaAlbo(a, gra) ==
    LET b == [a EXCEPT !.lewyPopStan = a.lewyAktStan, !.lewyAktStan = gra]
    IN  IF a.lewyAktStan /\ ~gra
        THEN IF a.muzykaWyciszona THEN koniecWyciszenia(b) ELSE koniecPauzy(b)
        ELSE b

kontrolaStanu(a, gra) ==
    LET b == [a EXCEPT !.lewyPopStan = a.lewyAktStan, !.lewyAktStan = gra]
    IN  IF a.lewyAktStan /\ ~gra THEN koniecPauzy(koniecWyciszenia(b)) ELSE b

\* obslozPolecenieDane: the keys in the order of the code.
Ma(d, klucz) == klucz \in DOMAIN d

nowaGlosnoscLewa(a, lg) ==
    IF a.glosnoscLewy # lg
    THEN dodajLewy([a EXCEPT !.glosnoscLewy = lg], <<VOLUME, lg, 0>>) ELSE a

\* Fault: the volume to return to is not renewed.
GlosnoscBezPowrotu(a, pg, torZmieniony) ==
    IF a.glosnoscPrawy # pg \/ torZmieniony
    THEN dodajPrawy([a EXCEPT !.glosnoscPrawy = pg], <<VOLUME, pg, 0>>)
    ELSE a

nowaGlosnoscPrawa(a, pg, torZmieniony) ==
    IF a.glosnoscPrawy # pg \/ torZmieniony
    THEN dodajPrawy([a EXCEPT !.glosnoscPrawy = pg, !.muzykaPrzedWyciszeniem = pg],
                    <<VOLUME, pg, 0>>)
    ELSE a

nowaMuzyka(a, po, torZmieniony) ==
    IF po # a.PO \/ torZmieniony THEN grajMuzyke(a, po) ELSE a

obslozPolecenieDane(a, d) ==
    LET torZmieniony == Ma(d, "TOR") /\ d["TOR"] # a.tor
        a1 == IF torZmieniony   THEN ustawTor(a, d["TOR"]) ELSE a
        a2 == IF Ma(d, "TRYB")  THEN [a1 EXCEPT !.tryb = d["TRYB"]] ELSE a1
        a3 == IF Ma(d, "LG")    THEN nowaGlosnoscLewa(a2, d["LG"]) ELSE a2
        a4 == IF Ma(d, "PG")    THEN nowaGlosnoscPrawa(a3, d["PG"], torZmieniony) ELSE a3
        a5 == IF Ma(d, "PW")    THEN ustawPoziomWyciszenia(a4, d["PW"]) ELSE a4
        a6 == IF Ma(d, "PO")    THEN nowaMuzyka(a5, d["PO"], torZmieniony) ELSE a5
    IN  IF Ma(d, "LO") THEN grajEfekt(a6, d["LO"]) ELSE a6

\* Fault: the music of the user is not started.
PolaczonyBezMuzyki(a) == [a EXCEPT !.robotSparowany = TRUE]

\* stanPolaczony and stanNiePolaczony of the main program.
stanPolaczony(a) == grajMuzyke([a EXCEPT !.robotSparowany = TRUE], a.PO)
stanNiePolaczony(a) ==
    [grajMuzykePowitalna(grajEfekt(a, 0)) EXCEPT !.robotSparowany = FALSE]

-----------------------------------------------------------------------------
(* The players (external: DFPlayer modules with an SD card). *)

\* A track is the catalogue and the number; 0 stands for the whole catalogue.
Utwor(p) == IF p[1] = REPEATFOLDER THEN <<p[2], 0>> ELSE <<p[2], p[3]>>

CzyGra(p) == p[1] \in {PLAYFOLDER, REPEATFOLDER}

\* A volume is sent as a byte, and the library sends none above 30.
Przyjeta(v) == v % 256 <= 30
volume(g, v) == IF Przyjeta(v) THEN [g EXCEPT !.glosnosc = v % 256] ELSE g

WykonajPrawy(g, p) ==
    CASE p[1] = VOLUME -> volume(g, p[2])
      [] CzyGra(p)     -> [g EXCEPT !.utwor = Utwor(p), !.pauza = FALSE]
      [] p[1] = PAUSE  -> [g EXCEPT !.pauza = TRUE]
      [] p[1] = RESUME -> [g EXCEPT !.pauza = FALSE]
      [] OTHER         -> g

\* The left player gets no pause; a file that is missing does not start.
WykonajLewy(g, p, plik) ==
    CASE p[1] = VOLUME -> volume(g, p[2])
      [] CzyGra(p)     -> [g EXCEPT !.gra = plik]
      [] p[1] = STOP   -> [g EXCEPT !.gra = FALSE]
      [] OTHER         -> g

-----------------------------------------------------------------------------

\* After setup(): both players stopped at volume 15, and the two commands of its
\* last lines, grajEfekt(0) and grajMuzykePowitalna(), waiting.
Init ==
    /\ audio = [tor |-> 0, tryb |-> WYCISZANIE, glosnoscLewy |-> 15,
                glosnoscPrawy |-> 15, poziomWyciszenia |-> 5,
                muzykaPrzedWyciszeniem |-> 15, muzykaPauza |-> FALSE,
                muzykaWyciszona |-> FALSE, lewyPopStan |-> FALSE,
                lewyAktStan |-> FALSE, PO |-> 1, robotSparowany |-> FALSE,
                lewa |-> <<<<STOP, 0, 0>>>>, prawa |-> <<<<REPEATFOLDER, 5, 0>>>>]
    /\ lewy = [glosnosc |-> 15, gra |-> FALSE]
    /\ prawy = [glosnosc |-> 15, utwor |-> <<0, 0>>, pauza |-> FALSE]
    /\ odpytany = TRUE
    /\ zadania = 0
    /\ zaklocone = FALSE

\* audioHandler: the poll if its time has come, one command from each queue if
\* theirs has, and then perhaps an effect (0: none).
audioHandler(poll, odpowiedz, zLewej, zPrawej, plik, efekt) ==
    LET a1 == IF poll THEN kontrolaStanu(audio, odpowiedz) ELSE audio
        wyslijLewy  == zLewej /\ a1.lewa # <<>>
        wyslijPrawy == zPrawej /\ a1.prawa # <<>>
        a2 == [a1 EXCEPT !.lewa = IF wyslijLewy THEN Tail(@) ELSE @,
                         !.prawa = IF wyslijPrawy THEN Tail(@) ELSE @]
    IN  /\ zLewej => odpytany \/ poll
        /\ odpytany' = ((odpytany \/ poll) /\ ~wyslijLewy)
        /\ lewy' = IF wyslijLewy THEN WykonajLewy(lewy, Head(a1.lewa), plik) ELSE lewy
        /\ prawy' = IF wyslijPrawy THEN WykonajPrawy(prawy, Head(a1.prawa)) ELSE prawy
        /\ audio' = IF efekt # 0 THEN grajEfekt(a2, efekt) ELSE a2
        /\ zadania' = IF efekt # 0 THEN zadania + 1 ELSE zadania
        /\ zaklocone' = (\/ zaklocone
                         \/ poll /\ odpowiedz # lewy.gra
                         \/ wyslijLewy /\ CzyGra(Head(a1.lewa)) /\ ~plik)

\* isPlaying() is false when the answer does not come in time.
Odpowiedzi == {lewy.gra} \cup (IF "brakOdpowiedzi" \in Zaklocenia THEN {FALSE} ELSE {})
Pliki == {TRUE} \cup (IF "brakPliku" \in Zaklocenia THEN {FALSE} ELSE {})
DoWyboru == IF audio.robotSparowany /\ zadania < MaxZadan THEN AutoEfekty ELSE {}

Przebieg(poll, zLewej, zPrawej) ==
    \E odpowiedz \in Odpowiedzi, plik \in Pliki, efekt \in {0} \cup DoWyboru :
       audioHandler(poll, odpowiedz, zLewej, zPrawej, plik, efekt)

Handler == \E poll, zLewej, zPrawej \in BOOLEAN : Przebieg(poll, zLewej, zPrawej)

PolecenieAudio ==
    /\ zadania < MaxZadan
    /\ \E d \in Polecenia : audio' = obslozPolecenieDane(audio, d)
    /\ zadania' = zadania + 1
    /\ UNCHANGED <<lewy, prawy, odpytany, zaklocone>>

PolecenieDanePrzeslij ==
    /\ zadania < MaxZadan
    /\ audio' = stanPolaczony(audio)
    /\ zadania' = zadania + 1
    /\ UNCHANGED <<lewy, prawy, odpytany, zaklocone>>

PoleceniePapa ==
    /\ zadania < MaxZadan
    /\ audio' = stanNiePolaczony(audio)
    /\ zadania' = zadania + 1
    /\ UNCHANGED <<lewy, prawy, odpytany, zaklocone>>

\* An effect ends.  It lasts long enough for a poll to have seen it (seconds
\* against the 100 ms of the poll).
KoniecEfektu ==
    /\ lewy.gra
    /\ audio.lewyAktStan
    /\ lewy' = [lewy EXCEPT !.gra = FALSE]
    /\ UNCHANGED <<audio, prawy, odpytany, zadania, zaklocone>>

Next == Handler \/ PolecenieAudio \/ PolecenieDanePrzeslij \/ PoleceniePapa
            \/ KoniecEfektu

Spec == Init /\ [][Next]_vars

\* The loop calls audioHandler() for ever, so the time of the poll and of each
\* queue keeps coming, each on its own; an effect is finite.
SpecZywa ==
    /\ Spec
    /\ WF_vars(\E l, p \in BOOLEAN : Przebieg(TRUE, l, p))
    /\ WF_vars(\E s, p \in BOOLEAN : Przebieg(s, TRUE, p))
    /\ WF_vars(\E s, l \in BOOLEAN : Przebieg(s, l, TRUE))
    /\ WF_vars(KoniecEfektu)

-----------------------------------------------------------------------------
(* Properties. *)

Polecenie == Int \X Int \X Int

ObiektAudio ==
    [tor : {0, 1}, tryb : Int, glosnoscLewy : Int, glosnoscPrawy : Int,
     poziomWyciszenia : 1 .. 15, muzykaPrzedWyciszeniem : Int,
     muzykaPauza : BOOLEAN, muzykaWyciszona : BOOLEAN, lewyPopStan : BOOLEAN,
     lewyAktStan : BOOLEAN, PO : 0 .. IloscUtworow, robotSparowany : BOOLEAN,
     lewa : Seq(Polecenie), prawa : Seq(Polecenie)]

\* The fields keep their types; the number of a track stays in its catalogue.
TypeOK ==
    /\ audio \in ObiektAudio
    /\ lewy \in [glosnosc : 0 .. 30, gra : BOOLEAN]
    /\ prawy \in [glosnosc : 0 .. 30, utwor : Int \X Int, pauza : BOOLEAN]
    /\ odpytany \in BOOLEAN /\ zaklocone \in BOOLEAN
    /\ zadania \in 0 .. MaxZadan

\* Command i of a queue is the last one in it whose code is among kody: what it
\* sets is what the player will be left with.
OstatnieZ(kolejka, kody, i) ==
    /\ i \in DOMAIN kolejka
    /\ kolejka[i][1] \in kody
    /\ \A j \in DOMAIN kolejka : j > i => kolejka[j][1] \notin kody

Bez(kolejka, kody) == \A i \in DOMAIN kolejka : kolejka[i][1] \notin kody

KodyUtworu == {PLAYFOLDER, REPEATFOLDER}
KodyPauzy == KodyUtworu \cup {PAUSE, RESUME}

\* When nothing is lowered, the volume the user asked for last is the last word
\* in the right queue, of all the lowered and restored volumes under way, and
\* once the queue is done the player has it - unless the library refuses it, in
\* which case the player is left with whatever it had (PoprzedniaGlosnosc).
MuzykaWraca ==
    ~audio.muzykaWyciszona =>
        /\ \A i \in DOMAIN audio.prawa : OstatnieZ(audio.prawa, {VOLUME}, i)
              => audio.prawa[i][2] = audio.glosnoscPrawy
        /\ Bez(audio.prawa, {VOLUME}) /\ Przyjeta(audio.glosnoscPrawy)
              => prawy.glosnosc = audio.glosnoscPrawy % 256

\* "sprawdza czy efekt specjalny zakonczyl sie. Jesli tak przywraca poprzednia
\* glosnosc": when nothing is lowered and no volume waits, the right player has
\* the volume of setup() or one that some user command carries, never the
\* lowered one of an effect that is over.
Zadane == {d["PG"] % 256 : d \in {x \in Polecenia : Ma(x, "PG")}}

PoprzedniaGlosnosc ==
    ~audio.muzykaWyciszona /\ Bez(audio.prawa, {VOLUME}) =>
        prawy.glosnosc \in {15} \cup Zadane

\* When no pause is on, the right player goes on or will, once its queue is done.
MuzykaGra ==
    ~audio.muzykaPauza =>
        /\ \A i \in DOMAIN audio.prawa : OstatnieZ(audio.prawa, KodyPauzy, i)
              => audio.prawa[i][1] # PAUSE
        /\ Bez(audio.prawa, KodyPauzy) => ~prawy.pauza

\* A paired robot plays, or will once its queue is done, the track whose number
\* it reports as "PO", and never stays with the welcome music of catalogue 5.
UtworPO(u) == u[2] = audio.PO /\ u[1] # 5

UtworZgodny ==
    audio.robotSparowany =>
        /\ \A i \in DOMAIN audio.prawa : OstatnieZ(audio.prawa, KodyUtworu, i)
              => UtworPO(Utwor(audio.prawa[i]))
        /\ Bez(audio.prawa, KodyUtworu) => UtworPO(prawy.utwor)

\* Until an answer of the left player or a file fails to come: as long as the music
\* is lowered or paused, what will bring it back is still ahead: an effect waits, or
\* plays, or the last poll has seen one play.
PowrotPrzedNami ==
    (~zaklocone /\ (audio.muzykaWyciszona \/ audio.muzykaPauza)) =>
        ~Bez(audio.lewa, KodyUtworu) \/ lewy.gra \/ audio.lewyAktStan

\* "sprawdza czy efekt specjalny zakonczyl sie. Jesli tak przywraca poprzednia
\* glosnosc lub odpalzowuje": lowered or paused music comes back, unless an answer or
\* a file fails to come.
MuzykaWracaKiedys ==
    (audio.muzykaWyciszona \/ audio.muzykaPauza) ~>
        ~(audio.muzykaWyciszona \/ audio.muzykaPauza) \/ zaklocone
=============================================================================
