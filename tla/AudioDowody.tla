---------------------------- MODULE AudioDowody ----------------------------
(***************************************************************************)
(* Theorems about Audio.  The fields of YtesAudio change in one place at a *)
(* time and always together with a command appended to a queue, so the     *)
(* argument goes in three layers: what Append and Tail do to the last      *)
(* command of its kind in a queue; what each method of YtesAudio keeps;    *)
(* what each action of the specification keeps.                            *)
(***************************************************************************)
EXTENDS Audio, TLAPS

-----------------------------------------------------------------------------
(* Queues.  What a queue will leave in its player: the last command of a   *)
(* kind (kody) is one of dobre and, when there is none, what the player    *)
(* has already (wartosc) is one of wartosci.                               *)

Zgodna(kolejka, kody, dobre, wartosc, wartosci) ==
    /\ \A i \in DOMAIN kolejka : OstatnieZ(kolejka, kody, i) => kolejka[i] \in dobre
    /\ Bez(kolejka, kody) => wartosc \in wartosci

\* A good command put last decides for its kind.
LEMMA DopisanieRodzaju ==
    ASSUME NEW q \in Seq(Polecenie), NEW p \in Polecenie, NEW kody, NEW dobre,
           NEW wartosc, NEW wartosci, p[1] \in kody, p \in dobre
    PROVE  Zgodna(Append(q, p), kody, dobre, wartosc, wartosci)
<1>1. /\ DOMAIN Append(q, p) = 1 .. Len(q) + 1
      /\ Append(q, p)[Len(q) + 1] = p
      /\ Len(q) \in Nat
  OBVIOUS
<1>2. ~Bez(Append(q, p), kody)
  BY <1>1 DEF Bez
<1>3. ASSUME NEW i \in DOMAIN Append(q, p), OstatnieZ(Append(q, p), kody, i)
      PROVE  Append(q, p)[i] \in dobre
  BY <1>1, <1>3 DEF OstatnieZ
<1> QED
  BY <1>2, <1>3 DEF Zgodna

\* A command of another kind changes nothing for this one.
LEMMA DopisanieInnego ==
    ASSUME NEW q \in Seq(Polecenie), NEW p \in Polecenie, NEW kody, NEW dobre,
           NEW wartosc, NEW wartosci, p[1] \notin kody,
           Zgodna(q, kody, dobre, wartosc, wartosci)
    PROVE  Zgodna(Append(q, p), kody, dobre, wartosc, wartosci)
<1>1. /\ DOMAIN Append(q, p) = 1 .. Len(q) + 1
      /\ DOMAIN q = 1 .. Len(q)
      /\ Append(q, p)[Len(q) + 1] = p
      /\ \A i \in 1 .. Len(q) : Append(q, p)[i] = q[i]
      /\ Len(q) \in Nat
  OBVIOUS
<1>2. Bez(Append(q, p), kody) => Bez(q, kody)
  BY <1>1 DEF Bez
<1>3. ASSUME NEW i \in DOMAIN Append(q, p), OstatnieZ(Append(q, p), kody, i)
      PROVE  Append(q, p)[i] \in dobre
  <2>1. i \in DOMAIN q
    BY <1>1, <1>3 DEF OstatnieZ
  <2>2. OstatnieZ(q, kody, i)
    BY <1>1, <1>3, <2>1 DEF OstatnieZ
  <2> QED
    BY <1>1, <2>1, <2>2 DEF Zgodna
<1> QED
  BY <1>2, <1>3 DEF Zgodna

\* The first command leaves the queue and is carried out.
LEMMA Wyslanie ==
    ASSUME NEW q \in Seq(Polecenie), q # <<>>, NEW kody, NEW dobre,
           NEW wartosc, NEW nowa, NEW wartosci,
           Zgodna(q, kody, dobre, wartosc, wartosci),
           Head(q)[1] \in kody /\ Head(q) \in dobre => nowa \in wartosci,
           Head(q)[1] \notin kody => nowa = wartosc
    PROVE  Zgodna(Tail(q), kody, dobre, nowa, wartosci)
<1>1. /\ Len(q) \in Nat /\ Len(q) > 0
      /\ DOMAIN q = 1 .. Len(q)
      /\ DOMAIN Tail(q) = 1 .. Len(q) - 1
      /\ Head(q) = q[1]
      /\ \A i \in 1 .. Len(q) - 1 : Tail(q)[i] = q[i + 1]
  OBVIOUS
<1>2. ASSUME NEW i \in DOMAIN Tail(q), OstatnieZ(Tail(q), kody, i)
      PROVE  Tail(q)[i] \in dobre
  <2>1. i + 1 \in DOMAIN q /\ q[i + 1] = Tail(q)[i]
    BY <1>1, <1>2
  <2>2. ASSUME NEW j \in DOMAIN q, j > i + 1  PROVE q[j][1] \notin kody
    <3>1. j - 1 \in DOMAIN Tail(q) /\ j - 1 > i /\ Tail(q)[j - 1] = q[j]
      BY <1>1, <1>2, <2>2
    <3> QED
      BY <1>2, <3>1 DEF OstatnieZ
  <2>3. OstatnieZ(q, kody, i + 1)
    BY <1>2, <2>1, <2>2 DEF OstatnieZ
  <2> QED
    BY <2>1, <2>3 DEF Zgodna
<1>3. ASSUME Bez(Tail(q), kody)  PROVE nowa \in wartosci
  <2>1. ASSUME NEW j \in DOMAIN q, j > 1  PROVE q[j][1] \notin kody
    <3>1. j - 1 \in DOMAIN Tail(q) /\ Tail(q)[j - 1] = q[j]
      BY <1>1, <2>1
    <3> QED
      BY <1>3, <3>1 DEF Bez
  <2>2. CASE Head(q)[1] \in kody
    <3>1. OstatnieZ(q, kody, 1)
      BY <1>1, <2>1, <2>2 DEF OstatnieZ
    <3> QED
      BY <1>1, <2>2, <3>1 DEF Zgodna
  <2>3. CASE Head(q)[1] \notin kody
    <3>1. Bez(q, kody)
      BY <1>1, <2>1, <2>3 DEF Bez
    <3> QED
      BY <2>3, <3>1 DEF Zgodna
  <2> QED
    BY <2>2, <2>3
<1> QED
  BY <1>2, <1>3 DEF Zgodna

-----------------------------------------------------------------------------
(* The methods of YtesAudio.  a stands for the object, g for the right     *)
(* player at the same moment.                                              *)

\* The volumes the player may have once v is the last it was sent.
GlosnoscPo(v) == {x \in 0 .. 30 : Przyjeta(v) => x = v % 256}

\* What has to hold between two calls for MuzykaWraca, MuzykaGra, UtworZgodny.
Glosnosc(a, g) ==
    /\ a.muzykaPrzedWyciszeniem = a.glosnoscPrawy
    /\ ~a.muzykaWyciszona =>
          Zgodna(a.prawa, {VOLUME}, {p \in Polecenie : p[2] = a.glosnoscPrawy},
                 g.glosnosc, GlosnoscPo(a.glosnoscPrawy))

Pauza(a, g) ==
    ~a.muzykaPauza =>
        Zgodna(a.prawa, KodyPauzy, {p \in Polecenie : p[1] # PAUSE}, g.pauza, {FALSE})

Muzyka(a, g) ==
    a.robotSparowany =>
        Zgodna(a.prawa, KodyUtworu,
               {p \in Polecenie : Utwor(p)[2] = a.PO /\ Utwor(p)[1] # 5},
               g.utwor, {u \in Int \X Int : u[2] = a.PO /\ u[1] # 5})

Dobry(a, g) == a \in ObiektAudio /\ Glosnosc(a, g) /\ Pauza(a, g) /\ Muzyka(a, g)

\* The queues are sequences of commands.
LEMMA Kolejki ==
    ASSUME NEW a \in ObiektAudio
    PROVE  a.lewa \in Seq(Polecenie) /\ a.prawa \in Seq(Polecenie)
  BY DEF ObiektAudio

\* A command and its fields.
LEMMA Krotka ==
    ASSUME NEW c \in Int, NEW x \in Int, NEW y \in Int
    PROVE  /\ <<c, x, y>> \in Polecenie
           /\ <<c, x, y>>[1] = c /\ <<c, x, y>>[2] = x /\ <<c, x, y>>[3] = y
  BY DEF Polecenie

\* The codes of the commands and the kinds they belong to.
LEMMA Kody ==
    /\ VOLUME \in Int /\ PAUSE \in Int /\ RESUME \in Int /\ STOP \in Int
    /\ PLAYFOLDER \in Int /\ REPEATFOLDER \in Int
    /\ VOLUME \notin KodyPauzy /\ VOLUME \notin KodyUtworu
    /\ KodyUtworu \subseteq KodyPauzy
    /\ PAUSE \notin KodyUtworu /\ RESUME \notin KodyUtworu /\ STOP \notin KodyUtworu
    /\ PAUSE \in KodyPauzy /\ RESUME \in KodyPauzy
    /\ PLAYFOLDER \in KodyUtworu /\ REPEATFOLDER \in KodyUtworu
    /\ PAUSE # RESUME /\ PAUSE # VOLUME /\ RESUME # VOLUME
    /\ PLAYFOLDER # PAUSE /\ REPEATFOLDER # PAUSE /\ REPEATFOLDER # PLAYFOLDER
  BY DEF KodyPauzy, KodyUtworu, VOLUME, PLAYFOLDER, REPEATFOLDER, PAUSE, RESUME, STOP

\* Fields on which none of the three depends.
LEMMA InnePola ==
    ASSUME NEW a, NEW g, Dobry(a, g), NEW b \in ObiektAudio,
           b.muzykaPrzedWyciszeniem = a.muzykaPrzedWyciszeniem,
           b.glosnoscPrawy = a.glosnoscPrawy,
           b.muzykaWyciszona = a.muzykaWyciszona, b.muzykaPauza = a.muzykaPauza,
           b.robotSparowany = a.robotSparowany, b.PO = a.PO, b.prawa = a.prawa
    PROVE  Dobry(b, g)
  BY DEF Dobry, Glosnosc, Pauza, Muzyka

\* A volume for the right player: the user's, or a lowered one together with the
\* flag that says so.
LEMMA NowyVolume ==
    ASSUME NEW a, NEW g, Dobry(a, g), NEW b \in ObiektAudio, NEW v \in Int,
           b.prawa = Append(a.prawa, <<VOLUME, v, 0>>),
           b.muzykaPrzedWyciszeniem = b.glosnoscPrawy,
           ~b.muzykaWyciszona => v = b.glosnoscPrawy,
           b.muzykaPauza = a.muzykaPauza,
           b.robotSparowany = a.robotSparowany, b.PO = a.PO
    PROVE  Dobry(b, g)
<1> DEFINE p == <<VOLUME, v, 0>>
<1>1. /\ p \in Polecenie /\ p[1] = VOLUME /\ p[2] = v
      /\ p[1] \notin KodyPauzy /\ p[1] \notin KodyUtworu
      /\ a.prawa \in Seq(Polecenie)
  BY Kolejki, Krotka, Kody DEF Dobry
<1> HIDE DEF p
<1>2. Glosnosc(b, g)
  <2>1. SUFFICES ASSUME ~b.muzykaWyciszona
                 PROVE  Zgodna(b.prawa, {VOLUME}, {x \in Polecenie : x[2] = b.glosnoscPrawy},
                               g.glosnosc, GlosnoscPo(b.glosnoscPrawy))
    BY DEF Glosnosc
  <2>2. p[1] \in {VOLUME} /\ p \in {x \in Polecenie : x[2] = b.glosnoscPrawy}
    BY <1>1, <2>1
  <2> QED
    BY <1>1, <2>2, DopisanieRodzaju DEF p
<1>3. Pauza(b, g)
  BY <1>1, DopisanieInnego DEF Dobry, Pauza, p
<1>4. Muzyka(b, g)
  BY <1>1, DopisanieInnego DEF Dobry, Muzyka, p
<1> QED
  BY <1>2, <1>3, <1>4 DEF Dobry

\* PAUSE together with its flag, or RESUME.
LEMMA NowaPauza ==
    ASSUME NEW a, NEW g, Dobry(a, g), NEW b \in ObiektAudio, NEW kod \in {PAUSE, RESUME},
           b.prawa = Append(a.prawa, <<kod, 0, 0>>),
           ~b.muzykaPauza => kod = RESUME,
           b.muzykaPrzedWyciszeniem = a.muzykaPrzedWyciszeniem,
           b.glosnoscPrawy = a.glosnoscPrawy,
           b.muzykaWyciszona = a.muzykaWyciszona,
           b.robotSparowany = a.robotSparowany, b.PO = a.PO
    PROVE  Dobry(b, g)
<1> DEFINE p == <<kod, 0, 0>>
<1>1. /\ p \in Polecenie /\ p[1] = kod
      /\ p[1] \in KodyPauzy /\ p[1] \notin KodyUtworu /\ p[1] \notin {VOLUME}
      /\ kod = RESUME => p[1] # PAUSE
      /\ a.prawa \in Seq(Polecenie)
  BY Kolejki, Krotka, Kody DEF Dobry
<1> HIDE DEF p
<1>2. Pauza(b, g)
  <2>1. SUFFICES ASSUME ~b.muzykaPauza
                 PROVE  Zgodna(b.prawa, KodyPauzy, {x \in Polecenie : x[1] # PAUSE},
                               g.pauza, {FALSE})
    BY DEF Pauza
  <2>2. p \in {x \in Polecenie : x[1] # PAUSE}
    BY <1>1, <2>1
  <2> QED
    BY <1>1, <2>2, DopisanieRodzaju DEF p
<1>3. Glosnosc(b, g)
  BY <1>1, DopisanieInnego DEF Dobry, Glosnosc, p
<1>4. Muzyka(b, g)
  BY <1>1, DopisanieInnego DEF Dobry, Muzyka, p
<1> QED
  BY <1>2, <1>3, <1>4 DEF Dobry

\* A track for the right player: whatever was to be played before.
LEMMA NowyUtwor ==
    ASSUME NEW a \in ObiektAudio, NEW g, Glosnosc(a, g), Pauza(a, g),
           NEW b \in ObiektAudio, NEW kod \in KodyUtworu, NEW k \in Int, NEW n \in Int,
           b.prawa = Append(a.prawa, <<kod, k, n>>),
           b.robotSparowany => /\ Utwor(<<kod, k, n>>)[2] = b.PO
                               /\ Utwor(<<kod, k, n>>)[1] # 5,
           b.muzykaPrzedWyciszeniem = a.muzykaPrzedWyciszeniem,
           b.glosnoscPrawy = a.glosnoscPrawy,
           b.muzykaWyciszona = a.muzykaWyciszona, b.muzykaPauza = a.muzykaPauza
    PROVE  Dobry(b, g)
<1> DEFINE p == <<kod, k, n>>
<1>1. /\ p \in Polecenie /\ p[1] = kod
      /\ p[1] \in KodyPauzy /\ p[1] # PAUSE /\ p[1] \notin {VOLUME}
      /\ a.prawa \in Seq(Polecenie)
  <2>1. kod \in Int
    BY DEF KodyUtworu, PLAYFOLDER, REPEATFOLDER
  <2>2. kod \in KodyPauzy /\ kod # PAUSE /\ kod # VOLUME
    BY Kody DEF KodyUtworu
  <2> QED
    BY <2>1, <2>2, Kolejki, Krotka
<1>2. b.robotSparowany => Utwor(p)[2] = b.PO /\ Utwor(p)[1] # 5
  OBVIOUS
<1> HIDE DEF p
<1>3. Glosnosc(b, g)
  BY <1>1, DopisanieInnego DEF Glosnosc, p
<1>4. Pauza(b, g)
  <2>1. p \in {x \in Polecenie : x[1] # PAUSE}
    BY <1>1
  <2> QED
    BY <1>1, <2>1, DopisanieRodzaju DEF Pauza, p
<1>5. Muzyka(b, g)
  <2>1. b.robotSparowany =>
           p \in {x \in Polecenie : Utwor(x)[2] = b.PO /\ Utwor(x)[1] # 5}
    BY <1>1, <1>2
  <2> QED
    BY <1>1, <2>1, DopisanieRodzaju DEF Muzyka, p
<1> QED
  BY <1>3, <1>4, <1>5 DEF Dobry

\* grajMuzyke does not need to know what was played before.
LEMMA GrajMuzyke ==
    ASSUME NEW a \in ObiektAudio, NEW g, Glosnosc(a, g), Pauza(a, g), NEW nr \in Int
    PROVE  Dobry(grajMuzyke(a, nr), g)
<1> DEFINE w == ZeroPozaZakresem(nr, IloscUtworow)
           b == grajMuzyke(a, nr)
           kod == IF w = 0 THEN REPEATFOLDER ELSE PLAYFOLDER
           k == katMuzyka(a)
<1>1. w \in 0 .. IloscUtworow /\ w \in Int
  BY AudioAssumption DEF ZeroPozaZakresem
<1>2. k \in Int /\ k # 5
  BY DEF katMuzyka
<1>3. kod \in KodyUtworu /\ kod \in Int
  BY Kody
<1>4. <<kod, k, w>> \in Polecenie /\ Utwor(<<kod, k, w>>) = <<k, w>>
  BY <1>1, <1>2, <1>3, Krotka, Kody DEF Utwor
<1>5. b = [a EXCEPT !.PO = w, !.prawa = Append(a.prawa, <<kod, k, w>>)]
  BY DEF grajMuzyke, dodajPrawy, ObiektAudio
<1> HIDE DEF w, b, kod, k
<1>6. Append(a.prawa, <<kod, k, w>>) \in Seq(Polecenie)
  BY <1>4, Kolejki
<1>7. b \in ObiektAudio
  BY <1>1, <1>5, <1>6 DEF ObiektAudio
<1>8. /\ b.PO = w /\ b.prawa = Append(a.prawa, <<kod, k, w>>)
      /\ b.muzykaPrzedWyciszeniem = a.muzykaPrzedWyciszeniem
      /\ b.glosnoscPrawy = a.glosnoscPrawy
      /\ b.muzykaWyciszona = a.muzykaWyciszona /\ b.muzykaPauza = a.muzykaPauza
  BY <1>5 DEF ObiektAudio
<1>9. Utwor(<<kod, k, w>>)[2] = w /\ Utwor(<<kod, k, w>>)[1] # 5
  BY <1>2, <1>4
<1>10. Dobry(b, g)
  BY <1>1, <1>2, <1>3, <1>7, <1>8, <1>9, NowyUtwor
<1> QED
  BY <1>10 DEF b

\* The welcome music, for a robot that is not paired.
LEMMA GrajPowitalna ==
    ASSUME NEW a \in ObiektAudio, NEW g, Glosnosc(a, g), Pauza(a, g)
    PROVE  Dobry([grajMuzykePowitalna(a) EXCEPT !.robotSparowany = FALSE], g)
<1> DEFINE b == [grajMuzykePowitalna(a) EXCEPT !.robotSparowany = FALSE]
           p == <<REPEATFOLDER, 5, 0>>
<1>1. p \in Polecenie
  BY Krotka, Kody
<1>2. Append(a.prawa, p) \in Seq(Polecenie)
  BY <1>1, Kolejki
<1>3. b = [a EXCEPT !.prawa = Append(a.prawa, p), !.robotSparowany = FALSE]
  BY DEF grajMuzykePowitalna, dodajPrawy, ObiektAudio
<1> HIDE DEF b
<1>4. b \in ObiektAudio
  BY <1>2, <1>3 DEF ObiektAudio
<1>5. /\ ~b.robotSparowany /\ b.prawa = Append(a.prawa, p)
      /\ b.muzykaPrzedWyciszeniem = a.muzykaPrzedWyciszeniem
      /\ b.glosnoscPrawy = a.glosnoscPrawy
      /\ b.muzykaWyciszona = a.muzykaWyciszona /\ b.muzykaPauza = a.muzykaPauza
  BY <1>3 DEF ObiektAudio
<1>6. ASSUME NEW kod \in KodyUtworu, NEW k \in Int, NEW n \in Int, p = <<kod, k, n>>
      PROVE  Dobry(b, g)
  BY <1>4, <1>5, <1>6, NowyUtwor
<1>7. Dobry(b, g)
  BY <1>6, Kody
<1> QED
  BY <1>7 DEF b

\* dodajLewy does not concern the right player.
LEMMA DodajLewy ==
    ASSUME NEW a, NEW g, Dobry(a, g), NEW p \in Polecenie
    PROVE  Dobry(dodajLewy(a, p), g)
<1> DEFINE b == dodajLewy(a, p)
<1>1. a \in ObiektAudio /\ Append(a.lewa, p) \in Seq(Polecenie)
  BY Kolejki DEF Dobry
<1>2. b = [a EXCEPT !.lewa = Append(a.lewa, p)]
  BY DEF dodajLewy
<1> HIDE DEF b
<1>3. b \in ObiektAudio
  BY <1>1, <1>2 DEF ObiektAudio
<1>4. /\ b.muzykaPrzedWyciszeniem = a.muzykaPrzedWyciszeniem
      /\ b.glosnoscPrawy = a.glosnoscPrawy
      /\ b.muzykaWyciszona = a.muzykaWyciszona /\ b.muzykaPauza = a.muzykaPauza
      /\ b.robotSparowany = a.robotSparowany /\ b.PO = a.PO /\ b.prawa = a.prawa
  BY <1>1, <1>2 DEF ObiektAudio
<1>5. Dobry(b, g)
  BY <1>3, <1>4, InnePola
<1> QED
  BY <1>5 DEF b

\* Choosing an effect keeps the promise of the queue.
LEMMA GrajEfekt ==
    ASSUME NEW a, NEW g, Dobry(a, g), NEW nr \in Int
    PROVE  Dobry(grajEfekt(a, nr), g)
<1> DEFINE w == ZeroPozaZakresem(nr, IloscEfektow)
           efekt == <<PLAYFOLDER, katEfekty(a), w>>
           ciszej == IF a.glosnoscPrawy < a.poziomWyciszenia
                     THEN 0 ELSE a.glosnoscPrawy - a.poziomWyciszenia
           b == dodajPrawy([a EXCEPT !.muzykaWyciszona = TRUE], <<VOLUME, ciszej, 0>>)
           c == dodajPrawy([a EXCEPT !.muzykaPauza = TRUE], <<PAUSE, 0, 0>>)
<1>1. a \in ObiektAudio
  BY DEF Dobry
<1>2. efekt \in Polecenie /\ <<STOP, 0, 0>> \in Polecenie
  <2>1. w \in Int /\ katEfekty(a) \in Int
    BY AudioAssumption DEF ZeroPozaZakresem, katEfekty
  <2> QED
    BY <2>1, Krotka, Kody
<1>3. ciszej \in Int
  BY <1>1 DEF ObiektAudio
<1>4. Dobry(b, g)
  <2>1. b = [a EXCEPT !.muzykaWyciszona = TRUE, !.prawa = Append(a.prawa, <<VOLUME, ciszej, 0>>)]
    BY <1>1 DEF dodajPrawy, ObiektAudio
  <2>2. Append(a.prawa, <<VOLUME, ciszej, 0>>) \in Seq(Polecenie)
    BY <1>1, <1>3, Kolejki, Krotka, Kody
  <2> HIDE DEF b, ciszej
  <2>3. b \in ObiektAudio
    BY <1>1, <2>1, <2>2 DEF ObiektAudio
  <2>4. /\ b.prawa = Append(a.prawa, <<VOLUME, ciszej, 0>>) /\ b.muzykaWyciszona
        /\ b.muzykaPrzedWyciszeniem = a.muzykaPrzedWyciszeniem
        /\ b.glosnoscPrawy = a.glosnoscPrawy /\ b.muzykaPauza = a.muzykaPauza
        /\ b.robotSparowany = a.robotSparowany /\ b.PO = a.PO
    BY <1>1, <2>1 DEF ObiektAudio
  <2>5. b.muzykaPrzedWyciszeniem = b.glosnoscPrawy
    BY <2>4 DEF Dobry, Glosnosc
  <2> QED
    BY <1>3, <2>3, <2>4, <2>5, NowyVolume
<1>5. Dobry(c, g)
  <2>1. c = [a EXCEPT !.muzykaPauza = TRUE, !.prawa = Append(a.prawa, <<PAUSE, 0, 0>>)]
    BY <1>1 DEF dodajPrawy, ObiektAudio
  <2>2. Append(a.prawa, <<PAUSE, 0, 0>>) \in Seq(Polecenie)
    BY <1>1, Kolejki, Krotka, Kody
  <2> HIDE DEF c
  <2>3. c \in ObiektAudio
    BY <1>1, <2>1, <2>2 DEF ObiektAudio
  <2>4. /\ c.prawa = Append(a.prawa, <<PAUSE, 0, 0>>) /\ c.muzykaPauza
        /\ c.muzykaPrzedWyciszeniem = a.muzykaPrzedWyciszeniem
        /\ c.glosnoscPrawy = a.glosnoscPrawy /\ c.muzykaWyciszona = a.muzykaWyciszona
        /\ c.robotSparowany = a.robotSparowany /\ c.PO = a.PO
    BY <1>1, <2>1 DEF ObiektAudio
  <2> QED
    BY <2>3, <2>4, NowaPauza
<1>6. /\ Dobry(dodajLewy(a, <<STOP, 0, 0>>), g) /\ Dobry(dodajLewy(a, efekt), g)
      /\ Dobry(dodajLewy(b, efekt), g) /\ Dobry(dodajLewy(c, efekt), g)
  <2> HIDE DEF b, c, efekt
  <2> QED
    BY <1>2, <1>4, <1>5, DodajLewy
<1>7. grajEfekt(a, nr) \in {dodajLewy(a, <<STOP, 0, 0>>), dodajLewy(a, efekt),
                            dodajLewy(b, efekt), dodajLewy(c, efekt), a}
  <2>1. CASE w = 0
    BY <2>1 DEF grajEfekt
  <2>2. CASE w # 0 /\ a.tryb = NORMALNY
    BY <2>2 DEF grajEfekt
  <2>3. CASE w # 0 /\ a.tryb = WYCISZANIE
    BY <2>3 DEF grajEfekt, NORMALNY, WYCISZANIE
  <2>4. CASE w # 0 /\ a.tryb = PALZOWANIE
    BY <2>4 DEF grajEfekt, NORMALNY, WYCISZANIE, PALZOWANIE
  <2>5. CASE w # 0 /\ a.tryb \notin {NORMALNY, WYCISZANIE, PALZOWANIE}
    BY <2>5 DEF grajEfekt
  <2> QED
    BY <2>1, <2>2, <2>3, <2>4, <2>5
<1> QED
  BY <1>6, <1>7

\* Restoring the volume keeps it.
LEMMA KoniecWyciszenia ==
    ASSUME NEW a, NEW g, Dobry(a, g)
    PROVE  Dobry(koniecWyciszenia(a), g)
<1>1. CASE ~a.muzykaWyciszona
  BY <1>1 DEF koniecWyciszenia
<1>2. CASE a.muzykaWyciszona
  <2> DEFINE v == a.muzykaPrzedWyciszeniem
             b == koniecWyciszenia(a)
  <2>1. a \in ObiektAudio /\ v \in Int /\ v = a.glosnoscPrawy
    BY DEF Dobry, ObiektAudio, Glosnosc
  <2>2. b = [a EXCEPT !.muzykaWyciszona = FALSE, !.prawa = Append(a.prawa, <<VOLUME, v, 0>>)]
    BY <1>2, <2>1 DEF koniecWyciszenia, dodajPrawy, ObiektAudio
  <2>3. Append(a.prawa, <<VOLUME, v, 0>>) \in Seq(Polecenie)
    BY <2>1, Kolejki, Krotka, Kody
  <2> HIDE DEF b
  <2>4. b \in ObiektAudio
    BY <2>1, <2>2, <2>3 DEF ObiektAudio
  <2>5. /\ b.prawa = Append(a.prawa, <<VOLUME, v, 0>>)
        /\ b.muzykaPrzedWyciszeniem = b.glosnoscPrawy /\ v = b.glosnoscPrawy
        /\ b.muzykaPauza = a.muzykaPauza
        /\ b.robotSparowany = a.robotSparowany /\ b.PO = a.PO
    BY <2>1, <2>2 DEF ObiektAudio
  <2> HIDE DEF v
  <2>6. Dobry(b, g)
    BY <2>1, <2>4, <2>5, NowyVolume
  <2> QED
    BY <2>6 DEF b
<1> QED
  BY <1>1, <1>2

\* Resuming the music keeps it.
LEMMA KoniecPauzy ==
    ASSUME NEW a, NEW g, Dobry(a, g)
    PROVE  Dobry(koniecPauzy(a), g)
<1>1. CASE ~a.muzykaPauza
  BY <1>1 DEF koniecPauzy
<1>2. CASE a.muzykaPauza
  <2> DEFINE b == koniecPauzy(a)
  <2>1. a \in ObiektAudio
    BY DEF Dobry
  <2>2. b = [a EXCEPT !.muzykaPauza = FALSE, !.prawa = Append(a.prawa, <<RESUME, 0, 0>>)]
    BY <1>2, <2>1 DEF koniecPauzy, dodajPrawy, ObiektAudio
  <2>3. Append(a.prawa, <<RESUME, 0, 0>>) \in Seq(Polecenie)
    BY <2>1, Kolejki, Krotka, Kody
  <2> HIDE DEF b
  <2>4. b \in ObiektAudio
    BY <2>1, <2>2, <2>3 DEF ObiektAudio
  <2>5. /\ b.prawa = Append(a.prawa, <<RESUME, 0, 0>>)
        /\ b.muzykaPrzedWyciszeniem = a.muzykaPrzedWyciszeniem
        /\ b.glosnoscPrawy = a.glosnoscPrawy /\ b.muzykaWyciszona = a.muzykaWyciszona
        /\ b.robotSparowany = a.robotSparowany /\ b.PO = a.PO
    BY <2>1, <2>2 DEF ObiektAudio
  <2>6. Dobry(b, g)
    BY <2>4, <2>5, NowaPauza
  <2> QED
    BY <2>6 DEF b
<1> QED
  BY <1>1, <1>2

\* The poll of the left player keeps it.
LEMMA KontrolaStanu ==
    ASSUME NEW a, NEW g, Dobry(a, g), NEW gra \in BOOLEAN
    PROVE  Dobry(kontrolaStanu(a, gra), g)
<1> DEFINE b == [a EXCEPT !.lewyPopStan = a.lewyAktStan, !.lewyAktStan = gra]
<1>1. a \in ObiektAudio
  BY DEF Dobry
<1>2. /\ b \in ObiektAudio
      /\ b.muzykaPrzedWyciszeniem = a.muzykaPrzedWyciszeniem
      /\ b.glosnoscPrawy = a.glosnoscPrawy
      /\ b.muzykaWyciszona = a.muzykaWyciszona /\ b.muzykaPauza = a.muzykaPauza
      /\ b.robotSparowany = a.robotSparowany /\ b.PO = a.PO /\ b.prawa = a.prawa
  BY <1>1 DEF ObiektAudio
<1>3. kontrolaStanu(a, gra) \in {b, koniecPauzy(koniecWyciszenia(b))}
  BY DEF kontrolaStanu
<1> HIDE DEF b
<1>4. Dobry(b, g)
  BY <1>2, InnePola
<1> QED
  BY <1>3, <1>4, KoniecWyciszenia, KoniecPauzy

\* The parts of a command.
LEMMA UstawTor ==
    ASSUME NEW a, NEW g, Dobry(a, g), NEW tor
    PROVE  Dobry(ustawTor(a, tor), g)
<1> DEFINE b == ustawTor(a, tor)
<1>1. a \in ObiektAudio
  BY DEF Dobry
<1>2. /\ b \in ObiektAudio
      /\ b.muzykaPrzedWyciszeniem = a.muzykaPrzedWyciszeniem
      /\ b.glosnoscPrawy = a.glosnoscPrawy
      /\ b.muzykaWyciszona = a.muzykaWyciszona /\ b.muzykaPauza = a.muzykaPauza
      /\ b.robotSparowany = a.robotSparowany /\ b.PO = a.PO /\ b.prawa = a.prawa
  BY <1>1 DEF ObiektAudio, ustawTor
<1> QED
  BY <1>2, InnePola

\* A change of the mode keeps it.
LEMMA UstawTryb ==
    ASSUME NEW a, NEW g, Dobry(a, g), NEW tryb \in Int
    PROVE  Dobry([a EXCEPT !.tryb = tryb], g)
<1> DEFINE b == [a EXCEPT !.tryb = tryb]
<1>1. a \in ObiektAudio
  BY DEF Dobry
<1>2. /\ b \in ObiektAudio
      /\ b.muzykaPrzedWyciszeniem = a.muzykaPrzedWyciszeniem
      /\ b.glosnoscPrawy = a.glosnoscPrawy
      /\ b.muzykaWyciszona = a.muzykaWyciszona /\ b.muzykaPauza = a.muzykaPauza
      /\ b.robotSparowany = a.robotSparowany /\ b.PO = a.PO /\ b.prawa = a.prawa
  BY <1>1 DEF ObiektAudio
<1> QED
  BY <1>2, InnePola

\* A change of the level of lowering keeps it.
LEMMA UstawPoziom ==
    ASSUME NEW a, NEW g, Dobry(a, g), NEW poziom \in Int
    PROVE  Dobry(ustawPoziomWyciszenia(a, poziom), g)
<1> DEFINE b == ustawPoziomWyciszenia(a, poziom)
<1>1. a \in ObiektAudio /\ Ogranicz(poziom, 1, 15) \in 1 .. 15
  BY DEF Dobry, Ogranicz
<1>2. /\ b \in ObiektAudio
      /\ b.muzykaPrzedWyciszeniem = a.muzykaPrzedWyciszeniem
      /\ b.glosnoscPrawy = a.glosnoscPrawy
      /\ b.muzykaWyciszona = a.muzykaWyciszona /\ b.muzykaPauza = a.muzykaPauza
      /\ b.robotSparowany = a.robotSparowany /\ b.PO = a.PO /\ b.prawa = a.prawa
  BY <1>1 DEF ObiektAudio, ustawPoziomWyciszenia
<1> QED
  BY <1>2, InnePola

\* A new volume of the left player keeps it.
LEMMA NowaLewa ==
    ASSUME NEW a, NEW g, Dobry(a, g), NEW lg \in Int
    PROVE  Dobry(nowaGlosnoscLewa(a, lg), g)
<1> DEFINE b == [a EXCEPT !.glosnoscLewy = lg]
<1>1. a \in ObiektAudio /\ <<VOLUME, lg, 0>> \in Polecenie
  BY Krotka, Kody DEF Dobry
<1>2. /\ b \in ObiektAudio
      /\ b.muzykaPrzedWyciszeniem = a.muzykaPrzedWyciszeniem
      /\ b.glosnoscPrawy = a.glosnoscPrawy
      /\ b.muzykaWyciszona = a.muzykaWyciszona /\ b.muzykaPauza = a.muzykaPauza
      /\ b.robotSparowany = a.robotSparowany /\ b.PO = a.PO /\ b.prawa = a.prawa
  BY <1>1 DEF ObiektAudio
<1>3. nowaGlosnoscLewa(a, lg) \in {a, dodajLewy(b, <<VOLUME, lg, 0>>)}
  BY DEF nowaGlosnoscLewa
<1> HIDE DEF b
<1>4. Dobry(b, g)
  BY <1>2, InnePola
<1> QED
  BY <1>1, <1>3, <1>4, DodajLewy

\* A new volume of the right player keeps it.
LEMMA NowaPrawa ==
    ASSUME NEW a, NEW g, Dobry(a, g), NEW pg \in Int, NEW zmieniony \in BOOLEAN
    PROVE  Dobry(nowaGlosnoscPrawa(a, pg, zmieniony), g)
<1> DEFINE b == dodajPrawy([a EXCEPT !.glosnoscPrawy = pg, !.muzykaPrzedWyciszeniem = pg],
                           <<VOLUME, pg, 0>>)
<1>1. a \in ObiektAudio
  BY DEF Dobry
<1>2. b = [a EXCEPT !.glosnoscPrawy = pg, !.muzykaPrzedWyciszeniem = pg,
                    !.prawa = Append(a.prawa, <<VOLUME, pg, 0>>)]
  BY <1>1 DEF dodajPrawy, ObiektAudio
<1>3. nowaGlosnoscPrawa(a, pg, zmieniony) \in {a, b}
  BY DEF nowaGlosnoscPrawa
<1>4. Append(a.prawa, <<VOLUME, pg, 0>>) \in Seq(Polecenie)
  BY <1>1, Kolejki, Krotka, Kody
<1> HIDE DEF b
<1>5. b \in ObiektAudio
  BY <1>1, <1>2, <1>4 DEF ObiektAudio
<1>6. /\ b.prawa = Append(a.prawa, <<VOLUME, pg, 0>>)
      /\ b.muzykaPrzedWyciszeniem = b.glosnoscPrawy /\ pg = b.glosnoscPrawy
      /\ b.muzykaPauza = a.muzykaPauza
      /\ b.robotSparowany = a.robotSparowany /\ b.PO = a.PO
  BY <1>1, <1>2 DEF ObiektAudio
<1>7. Dobry(b, g)
  BY <1>5, <1>6, NowyVolume
<1> QED
  BY <1>3, <1>7

\* The whole command, key by key.
LEMMA ObslozPolecenieDane ==
    ASSUME NEW a, NEW g, Dobry(a, g), NEW d \in Polecenia
    PROVE  Dobry(obslozPolecenieDane(a, d), g)
<1> DEFINE torZmieniony == Ma(d, "TOR") /\ d["TOR"] # a.tor
           a1 == IF torZmieniony   THEN ustawTor(a, d["TOR"]) ELSE a
           a2 == IF Ma(d, "TRYB")  THEN [a1 EXCEPT !.tryb = d["TRYB"]] ELSE a1
           a3 == IF Ma(d, "LG")    THEN nowaGlosnoscLewa(a2, d["LG"]) ELSE a2
           a4 == IF Ma(d, "PG")    THEN nowaGlosnoscPrawa(a3, d["PG"], torZmieniony) ELSE a3
           a5 == IF Ma(d, "PW")    THEN ustawPoziomWyciszenia(a4, d["PW"]) ELSE a4
           a6 == IF Ma(d, "PO")    THEN nowaMuzyka(a5, d["PO"], torZmieniony) ELSE a5
           a7 == IF Ma(d, "LO")    THEN grajEfekt(a6, d["LO"]) ELSE a6
<1>1. \A k : Ma(d, k) => d[k] \in Int
  BY AudioAssumption DEF Ma
<1>2. torZmieniony \in BOOLEAN
  OBVIOUS
<1>3. obslozPolecenieDane(a, d) = a7
  BY DEF obslozPolecenieDane
<1>4. Dobry(a1, g)
  BY UstawTor
<1> HIDE DEF torZmieniony, a1
<1>5. Dobry(a2, g)
  BY <1>1, <1>4, UstawTryb
<1> HIDE DEF a2
<1>6. Dobry(a3, g)
  BY <1>1, <1>5, NowaLewa
<1> HIDE DEF a3
<1>7. Dobry(a4, g)
  BY <1>1, <1>2, <1>6, NowaPrawa
<1> HIDE DEF a4
<1>8. Dobry(a5, g)
  BY <1>1, <1>7, UstawPoziom
<1> HIDE DEF a5
<1>9. Dobry(a6, g)
  <2>1. ASSUME Ma(d, "PO")  PROVE Dobry(nowaMuzyka(a5, d["PO"], torZmieniony), g)
    <3>1. nowaMuzyka(a5, d["PO"], torZmieniony) \in {a5, grajMuzyke(a5, d["PO"])}
      BY DEF nowaMuzyka
    <3>2. Dobry(grajMuzyke(a5, d["PO"]), g)
      BY <1>1, <1>8, <2>1, GrajMuzyke DEF Dobry
    <3> QED
      BY <1>8, <3>1, <3>2
  <2> QED
    BY <1>8, <2>1
<1> HIDE DEF a6
<1>10. Dobry(a7, g)
  BY <1>1, <1>9, GrajEfekt
<1> QED
  BY <1>3, <1>10

-----------------------------------------------------------------------------
(* The actions. *)

Odtwarzacz == [glosnosc : 0 .. 30, utwor : Int \X Int, pauza : BOOLEAN]

\* The commands that start a track, by their codes.
LEMMA CzyKod ==
    ASSUME NEW p
    PROVE  CzyGra(p) <=> p[1] \in KodyUtworu
  BY DEF CzyGra, KodyUtworu

\* A byte is left of a volume, and it is sent when it is at most 30.
LEMMA PrzyjetaGlosnosc ==
    ASSUME NEW v \in Int, Przyjeta(v)
    PROVE  v % 256 \in 0 .. 30
  BY DEF Przyjeta

\* What a command does to the player of music.
LEMMA Wykonanie ==
    ASSUME NEW g \in Odtwarzacz, NEW p \in Polecenie
    PROVE  /\ WykonajPrawy(g, p) \in Odtwarzacz
           /\ Utwor(p) \in Int \X Int
           /\ p[1] = VOLUME => WykonajPrawy(g, p).glosnosc \in GlosnoscPo(p[2])
           /\ p[1] # VOLUME => WykonajPrawy(g, p).glosnosc = g.glosnosc
           /\ p[1] \in KodyUtworu => WykonajPrawy(g, p).utwor = Utwor(p)
           /\ p[1] \notin KodyUtworu => WykonajPrawy(g, p).utwor = g.utwor
           /\ p[1] \in KodyPauzy /\ p[1] # PAUSE => WykonajPrawy(g, p).pauza = FALSE
           /\ p[1] \notin KodyPauzy => WykonajPrawy(g, p).pauza = g.pauza
<1> DEFINE h == WykonajPrawy(g, p)
<1>1. p[1] \in Int /\ p[2] \in Int /\ p[3] \in Int
  BY DEF Polecenie
<1>2. Utwor(p) \in Int \X Int
  BY <1>1 DEF Utwor
<1>3. CASE p[1] = VOLUME
  <2>1. h = IF Przyjeta(p[2]) THEN [g EXCEPT !.glosnosc = p[2] % 256] ELSE g
    BY <1>3, CzyKod, Kody DEF WykonajPrawy, volume
  <2> DEFINE w == p[2] % 256
  <2>3. Przyjeta(p[2]) => w \in 0 .. 30
    BY <1>1, PrzyjetaGlosnosc
  <2> HIDE DEF h, w
  <2>4. h = IF Przyjeta(p[2]) THEN [g EXCEPT !.glosnosc = w] ELSE g
    BY <2>1 DEF w
  <2>5. /\ h \in Odtwarzacz /\ h.glosnosc \in 0 .. 30
        /\ Przyjeta(p[2]) => h.glosnosc = w
        /\ h.utwor = g.utwor /\ h.pauza = g.pauza
    BY <2>3, <2>4 DEF Odtwarzacz
  <2>2. /\ h \in Odtwarzacz /\ h.glosnosc \in GlosnoscPo(p[2])
        /\ h.utwor = g.utwor /\ h.pauza = g.pauza
    BY <2>5 DEF GlosnoscPo, w
  <2> QED
    BY <1>2, <1>3, <2>2, Kody DEF h
<1>4. CASE p[1] \in KodyUtworu
  <2>1. h = [g EXCEPT !.utwor = Utwor(p), !.pauza = FALSE]
    BY <1>4, CzyKod, Kody DEF WykonajPrawy
  <2> HIDE DEF h
  <2>2. /\ h \in Odtwarzacz /\ h.glosnosc = g.glosnosc
        /\ h.utwor = Utwor(p) /\ h.pauza = FALSE
    BY <1>2, <2>1 DEF Odtwarzacz
  <2> QED
    BY <1>2, <1>4, <2>2, Kody DEF h
<1>5. CASE p[1] \in {PAUSE, RESUME}
  <2>1. /\ p[1] = PAUSE => h = [g EXCEPT !.pauza = TRUE]
        /\ p[1] = RESUME => h = [g EXCEPT !.pauza = FALSE]
    BY <1>5, CzyKod, Kody DEF WykonajPrawy
  <2> HIDE DEF h
  <2>2. /\ h \in Odtwarzacz /\ h.glosnosc = g.glosnosc /\ h.utwor = g.utwor
        /\ p[1] = RESUME => h.pauza = FALSE
    BY <1>5, <2>1 DEF Odtwarzacz
  <2> QED
    BY <1>2, <1>5, <2>2, Kody DEF h
<1>6. CASE p[1] \notin {VOLUME, PAUSE, RESUME} /\ p[1] \notin KodyUtworu
  <2>1. h = g
    BY <1>6, CzyKod DEF WykonajPrawy
  <2>2. p[1] \notin KodyPauzy
    BY <1>6 DEF KodyPauzy
  <2> HIDE DEF h
  <2> QED
    BY <1>2, <1>6, <2>1, <2>2 DEF h
<1> QED
  BY <1>3, <1>4, <1>5, <1>6

\* The first command of the right queue is carried out.
LEMMA WyslaniePrawe ==
    ASSUME NEW a, NEW g \in Odtwarzacz, Dobry(a, g), a.prawa # <<>>,
           NEW b \in ObiektAudio, b.prawa = Tail(a.prawa),
           b.muzykaPrzedWyciszeniem = a.muzykaPrzedWyciszeniem,
           b.glosnoscPrawy = a.glosnoscPrawy,
           b.muzykaWyciszona = a.muzykaWyciszona, b.muzykaPauza = a.muzykaPauza,
           b.robotSparowany = a.robotSparowany, b.PO = a.PO
    PROVE  Dobry(b, WykonajPrawy(g, Head(a.prawa)))
<1> DEFINE q == a.prawa
           p == Head(a.prawa)
           h == WykonajPrawy(g, p)
<1>1. q \in Seq(Polecenie) /\ p \in Polecenie
  <2>1. q \in Seq(Polecenie)
    BY Kolejki DEF Dobry
  <2> QED
    BY <2>1
<1> HIDE DEF p
<1>2. Glosnosc(b, h)
  <2>1. SUFFICES ASSUME ~b.muzykaWyciszona
                 PROVE  Zgodna(Tail(q), {VOLUME}, {x \in Polecenie : x[2] = a.glosnoscPrawy},
                               h.glosnosc, GlosnoscPo(a.glosnoscPrawy))
    BY DEF Glosnosc, Dobry
  <2>2. p[1] = VOLUME => h.glosnosc \in GlosnoscPo(p[2])
    BY <1>1, Wykonanie
  <2>3. p[1] # VOLUME => h.glosnosc = g.glosnosc
    BY <1>1, Wykonanie
  <2>4. Zgodna(q, {VOLUME}, {x \in Polecenie : x[2] = a.glosnoscPrawy},
               g.glosnosc, GlosnoscPo(a.glosnoscPrawy))
    BY <2>1 DEF Dobry, Glosnosc
  <2> HIDE DEF h
  <2>5. /\ p[1] \in {VOLUME} /\ p \in {x \in Polecenie : x[2] = a.glosnoscPrawy}
              => h.glosnosc \in GlosnoscPo(a.glosnoscPrawy)
        /\ p[1] \notin {VOLUME} => h.glosnosc = g.glosnosc
    BY <2>2, <2>3
  <2> QED
    BY <1>1, <2>4, <2>5, Wyslanie DEF p
<1>3. Pauza(b, h)
  <2>1. SUFFICES ASSUME ~b.muzykaPauza
                 PROVE  Zgodna(Tail(q), KodyPauzy, {x \in Polecenie : x[1] # PAUSE},
                               h.pauza, {FALSE})
    BY DEF Pauza
  <2>2. p[1] \in KodyPauzy /\ p[1] # PAUSE => h.pauza = FALSE
    BY <1>1, Wykonanie
  <2>3. p[1] \notin KodyPauzy => h.pauza = g.pauza
    BY <1>1, Wykonanie
  <2>4. Zgodna(q, KodyPauzy, {x \in Polecenie : x[1] # PAUSE}, g.pauza, {FALSE})
    BY <2>1 DEF Dobry, Pauza
  <2> HIDE DEF h
  <2>5. /\ p[1] \in KodyPauzy /\ p \in {x \in Polecenie : x[1] # PAUSE}
              => h.pauza \in {FALSE}
        /\ p[1] \notin KodyPauzy => h.pauza = g.pauza
    BY <2>2, <2>3
  <2> QED
    BY <1>1, <2>4, <2>5, Wyslanie DEF p
<1>4. Muzyka(b, h)
  <2> DEFINE dobre == {x \in Polecenie : Utwor(x)[2] = a.PO /\ Utwor(x)[1] # 5}
             utwory == {u \in Int \X Int : u[2] = a.PO /\ u[1] # 5}
  <2>1. SUFFICES ASSUME b.robotSparowany
                 PROVE  Zgodna(Tail(q), KodyUtworu, dobre, h.utwor, utwory)
    BY DEF Muzyka
  <2>2. p[1] \in KodyUtworu => h.utwor = Utwor(p)
    BY <1>1, Wykonanie
  <2>3. p[1] \notin KodyUtworu => h.utwor = g.utwor
    BY <1>1, Wykonanie
  <2>4. Zgodna(q, KodyUtworu, dobre, g.utwor, utwory)
    BY <2>1 DEF Dobry, Muzyka
  <2>5. p \in dobre => Utwor(p) \in utwory
    BY <1>1, Wykonanie
  <2> HIDE DEF h, dobre, utwory
  <2>6. /\ p[1] \in KodyUtworu /\ p \in dobre => h.utwor \in utwory
        /\ p[1] \notin KodyUtworu => h.utwor = g.utwor
    BY <2>2, <2>3, <2>5
  <2> QED
    BY <1>1, <2>4, <2>6, Wyslanie DEF p
<1> HIDE DEF h
<1>5. Dobry(b, h)
  BY <1>2, <1>3, <1>4 DEF Dobry
<1> QED
  BY <1>5 DEF h, p

\* What holds in every reachable state.
IndAudio ==
    /\ Dobry(audio, prawy)
    /\ prawy \in Odtwarzacz
    /\ lewy \in [glosnosc : 0 .. 30, gra : BOOLEAN]
    /\ odpytany \in BOOLEAN /\ zaklocone \in BOOLEAN
    /\ zadania \in 0 .. MaxZadan

\* What a command does to the player of effects.
LEMMA WykonanieLewe ==
    ASSUME NEW l \in [glosnosc : 0 .. 30, gra : BOOLEAN], NEW p \in Polecenie,
           NEW plik \in BOOLEAN
    PROVE  /\ WykonajLewy(l, p, plik) \in [glosnosc : 0 .. 30, gra : BOOLEAN]
           /\ p[1] \in KodyUtworu => WykonajLewy(l, p, plik).gra = plik
           /\ p[1] \notin KodyUtworu /\ p[1] # STOP => WykonajLewy(l, p, plik).gra = l.gra
<1> DEFINE h == WykonajLewy(l, p, plik)
<1>1. p[2] \in Int
  BY DEF Polecenie
<1>2. STOP # VOLUME
  BY DEF STOP, VOLUME
<1>3. CASE p[1] = VOLUME
  <2>1. h = IF Przyjeta(p[2]) THEN [l EXCEPT !.glosnosc = p[2] % 256] ELSE l
    BY <1>3, CzyKod, Kody, <1>2 DEF WykonajLewy, volume
  <2> DEFINE w == p[2] % 256
  <2>2. Przyjeta(p[2]) => w \in 0 .. 30
    BY <1>1, PrzyjetaGlosnosc
  <2> HIDE DEF h, w
  <2>3. h = IF Przyjeta(p[2]) THEN [l EXCEPT !.glosnosc = w] ELSE l
    BY <2>1 DEF w
  <2>4. h \in [glosnosc : 0 .. 30, gra : BOOLEAN] /\ h.gra = l.gra
    BY <2>2, <2>3
  <2> QED
    BY <1>3, <2>4, Kody DEF h
<1>4. CASE p[1] \in KodyUtworu
  <2>1. h = [l EXCEPT !.gra = plik]
    BY <1>4, CzyKod, Kody DEF WykonajLewy
  <2> HIDE DEF h
  <2> QED
    BY <1>4, <2>1, Kody DEF h
<1>5. CASE p[1] = STOP
  <2>1. h = [l EXCEPT !.gra = FALSE]
    BY <1>5, <1>2, CzyKod, Kody DEF WykonajLewy
  <2> HIDE DEF h
  <2> QED
    BY <1>5, <2>1, Kody DEF h
<1>6. CASE p[1] \notin {VOLUME, STOP} /\ p[1] \notin KodyUtworu
  <2>1. h = l
    BY <1>6, CzyKod DEF WykonajLewy
  <2> HIDE DEF h
  <2> QED
    BY <1>6, <2>1 DEF h
<1> QED
  BY <1>3, <1>4, <1>5, <1>6

\* The invariant holds after setup().
LEMMA Poczatek ==
    ASSUME Init
    PROVE  IndAudio
<1> DEFINE q == <<<<REPEATFOLDER, 5, 0>>>>
           s == <<<<STOP, 0, 0>>>>
<1>1. /\ q \in Seq(Polecenie) /\ s \in Seq(Polecenie)
      /\ DOMAIN q = {1} /\ q[1] \in Polecenie /\ q[1][1] = REPEATFOLDER
  <2>1. <<REPEATFOLDER, 5, 0>> \in Polecenie /\ <<STOP, 0, 0>> \in Polecenie
    BY Krotka, Kody
  <2>2. <<REPEATFOLDER, 5, 0>>[1] = REPEATFOLDER
    OBVIOUS
  <2> QED
    BY <2>1, <2>2
<1>2. /\ audio = [tor |-> 0, tryb |-> 1, glosnoscLewy |-> 15,
                  glosnoscPrawy |-> 15, poziomWyciszenia |-> 5,
                  muzykaPrzedWyciszeniem |-> 15, muzykaPauza |-> FALSE,
                  muzykaWyciszona |-> FALSE, lewyPopStan |-> FALSE,
                  lewyAktStan |-> FALSE, PO |-> 1, robotSparowany |-> FALSE,
                  lewa |-> s, prawa |-> q]
      /\ prawy = [glosnosc |-> 15, utwor |-> <<0, 0>>, pauza |-> FALSE]
  BY DEF Init, WYCISZANIE
<1> HIDE DEF q, s
<1>3. audio \in ObiektAudio
  BY <1>1, <1>2, AudioAssumption DEF ObiektAudio
<1>4. Glosnosc(audio, prawy)
  <2>1. 15 \in GlosnoscPo(15)
    BY DEF GlosnoscPo
  <2> QED
    BY <1>1, <1>2, <2>1, Kody DEF Glosnosc, Zgodna, OstatnieZ, Bez
<1>5. Pauza(audio, prawy)
  BY <1>1, <1>2, Kody DEF Pauza, Zgodna, OstatnieZ, Bez
<1>6. Muzyka(audio, prawy)
  BY <1>2 DEF Muzyka
<1>7. prawy \in Odtwarzacz /\ lewy \in [glosnosc : 0 .. 30, gra : BOOLEAN]
  BY <1>2 DEF Odtwarzacz, Init
<1>8. zadania \in 0 .. MaxZadan
  BY AudioAssumption DEF Init
<1>9. odpytany \in BOOLEAN
  BY Zenon DEF Init
<1>10. zaklocone \in BOOLEAN
  BY Zenon DEF Init
<1> QED
  BY <1>3, <1>4, <1>5, <1>6, <1>7, <1>8, <1>9, <1>10 DEF IndAudio, Dobry

\* The promise about the next state is the promise of the next object and player.
LEMMA DobryPotem == Dobry(audio, prawy)' <=> Dobry(audio', prawy')
  BY DEF Dobry, Glosnosc, Pauza, Muzyka, Zgodna, OstatnieZ, Bez

\* One call of audioHandler().
LEMMA PrzebiegZachowuje ==
    ASSUME IndAudio, NEW poll \in BOOLEAN, NEW odpowiedz \in BOOLEAN,
           NEW zLewej \in BOOLEAN, NEW zPrawej \in BOOLEAN, NEW plik \in BOOLEAN,
           NEW efekt \in {0} \cup DoWyboru,
           audioHandler(poll, odpowiedz, zLewej, zPrawej, plik, efekt)
    PROVE  IndAudio'
<1> DEFINE a1 == IF poll THEN kontrolaStanu(audio, odpowiedz) ELSE audio
           wyslijLewy  == zLewej /\ a1.lewa # <<>>
           wyslijPrawy == zPrawej /\ a1.prawa # <<>>
           a2 == [a1 EXCEPT !.lewa = IF wyslijLewy THEN Tail(@) ELSE @,
                            !.prawa = IF wyslijPrawy THEN Tail(@) ELSE @]
           l == IF wyslijLewy THEN WykonajLewy(lewy, Head(a1.lewa), plik) ELSE lewy
           g == IF wyslijPrawy THEN WykonajPrawy(prawy, Head(a1.prawa)) ELSE prawy
<1>1. /\ odpytany' \in BOOLEAN /\ zaklocone' \in BOOLEAN
      /\ lewy' = l /\ prawy' = g
      /\ audio' = IF efekt # 0 THEN grajEfekt(a2, efekt) ELSE a2
      /\ zadania' = IF efekt # 0 THEN zadania + 1 ELSE zadania
  BY DEF audioHandler
<1>2. Dobry(a1, prawy)
  BY KontrolaStanu DEF IndAudio
<1> HIDE DEF a1
<1>3. a1 \in ObiektAudio /\ a1.lewa \in Seq(Polecenie) /\ a1.prawa \in Seq(Polecenie)
  BY <1>2, Kolejki DEF Dobry
<1>4. /\ a2 \in ObiektAudio
      /\ a2.prawa = IF wyslijPrawy THEN Tail(a1.prawa) ELSE a1.prawa
      /\ a2.muzykaPrzedWyciszeniem = a1.muzykaPrzedWyciszeniem
      /\ a2.glosnoscPrawy = a1.glosnoscPrawy
      /\ a2.muzykaWyciszona = a1.muzykaWyciszona /\ a2.muzykaPauza = a1.muzykaPauza
      /\ a2.robotSparowany = a1.robotSparowany /\ a2.PO = a1.PO
  <2>1. /\ (IF wyslijLewy THEN Tail(a1.lewa) ELSE a1.lewa) \in Seq(Polecenie)
        /\ (IF wyslijPrawy THEN Tail(a1.prawa) ELSE a1.prawa) \in Seq(Polecenie)
    BY <1>3
  <2> HIDE DEF wyslijLewy, wyslijPrawy
  <2> QED
    BY <1>3, <2>1 DEF ObiektAudio
<1> HIDE DEF a2
<1>5. Dobry(a2, g) /\ g \in Odtwarzacz
  <2>1. CASE wyslijPrawy
    <3>1. a1.prawa # <<>> /\ Head(a1.prawa) \in Polecenie
      BY <1>3, <2>1
    <3> HIDE DEF wyslijPrawy
    <3> QED
      BY <1>2, <1>4, <2>1, <3>1, WyslaniePrawe, Wykonanie DEF IndAudio
  <2>2. CASE ~wyslijPrawy
    <3> HIDE DEF wyslijPrawy
    <3> QED
      BY <1>2, <1>4, <2>2, InnePola DEF IndAudio
  <2> QED
    BY <2>1, <2>2
<1>6. l \in [glosnosc : 0 .. 30, gra : BOOLEAN]
  <2>1. wyslijLewy => Head(a1.lewa) \in Polecenie
    BY <1>3
  <2> QED
    BY <2>1, WykonanieLewe DEF IndAudio
<1> HIDE DEF g, l, wyslijLewy, wyslijPrawy
<1>7. efekt \in Int /\ (efekt # 0 => zadania < MaxZadan)
  BY AudioAssumption DEF DoWyboru
<1>8. Dobry(audio', prawy')
  BY <1>1, <1>5, <1>7, GrajEfekt
<1>9. zadania' \in 0 .. MaxZadan
  BY <1>1, <1>7, AudioAssumption DEF IndAudio
<1> QED
  BY <1>1, <1>5, <1>6, <1>8, <1>9, DobryPotem DEF IndAudio

\* Every step keeps the invariant.
LEMMA KrokZachowuje ==
    ASSUME IndAudio, [Next]_vars
    PROVE  IndAudio'
<1> USE DEF IndAudio
<1>1. CASE Handler
  <2>1. Odpowiedzi \subseteq BOOLEAN /\ Pliki \subseteq BOOLEAN
    BY DEF Odpowiedzi, Pliki
  <2> QED
    BY <1>1, <2>1, PrzebiegZachowuje DEF Handler, Przebieg
<1>2. CASE PolecenieAudio
  <2>1. PICK d \in Polecenia : audio' = obslozPolecenieDane(audio, d)
    BY <1>2 DEF PolecenieAudio
  <2>2. Dobry(audio', prawy')
    BY <1>2, <2>1, ObslozPolecenieDane DEF PolecenieAudio
  <2> QED
    BY <1>2, <2>2, DobryPotem, AudioAssumption DEF PolecenieAudio
<1>3. CASE PolecenieDanePrzeslij
  <2> DEFINE b == [audio EXCEPT !.robotSparowany = TRUE]
  <2>1. /\ audio \in ObiektAudio /\ audio.PO \in Int
        /\ Glosnosc(audio, prawy) /\ Pauza(audio, prawy)
    BY DEF Dobry, ObiektAudio
  <2>2. /\ b \in ObiektAudio /\ b.prawa = audio.prawa
        /\ b.muzykaPrzedWyciszeniem = audio.muzykaPrzedWyciszeniem
        /\ b.glosnoscPrawy = audio.glosnoscPrawy
        /\ b.muzykaWyciszona = audio.muzykaWyciszona
        /\ b.muzykaPauza = audio.muzykaPauza
    BY <2>1 DEF ObiektAudio
  <2>3. audio' = grajMuzyke(b, audio.PO) /\ prawy' = prawy
    BY <1>3 DEF PolecenieDanePrzeslij, stanPolaczony
  <2> HIDE DEF b
  <2>4. Glosnosc(b, prawy) /\ Pauza(b, prawy)
    BY <2>1, <2>2 DEF Glosnosc, Pauza
  <2>5. Dobry(audio', prawy')
    BY <2>1, <2>2, <2>3, <2>4, GrajMuzyke
  <2> QED
    BY <1>3, <2>5, DobryPotem, AudioAssumption DEF PolecenieDanePrzeslij
<1>4. CASE PoleceniePapa
  <2> DEFINE b == grajEfekt(audio, 0)
  <2>1. Dobry(b, prawy)
    BY GrajEfekt
  <2>2. audio' = [grajMuzykePowitalna(b) EXCEPT !.robotSparowany = FALSE]
        /\ prawy' = prawy
    BY <1>4 DEF PoleceniePapa, stanNiePolaczony
  <2> HIDE DEF b
  <2>3. Dobry(audio', prawy')
    BY <2>1, <2>2, GrajPowitalna DEF Dobry
  <2> QED
    BY <1>4, <2>3, DobryPotem, AudioAssumption DEF PoleceniePapa
<1>5. CASE KoniecEfektu
  <2>1. lewy' \in [glosnosc : 0 .. 30, gra : BOOLEAN]
    BY <1>5 DEF KoniecEfektu
  <2> QED
    BY <1>5, <2>1, DobryPotem DEF KoniecEfektu
<1>6. CASE UNCHANGED vars
  BY <1>6, DobryPotem DEF vars
<1> QED
  BY <1>1, <1>2, <1>3, <1>4, <1>5, <1>6 DEF Next

\* The invariant holds in every state.
LEMMA IndZawsze == Spec => []IndAudio
<1>1. Init => IndAudio
  BY Poczatek
<1>2. IndAudio /\ [Next]_vars => IndAudio'
  BY KrokZachowuje
<1> QED
  BY <1>1, <1>2, PTL DEF Spec

-----------------------------------------------------------------------------

\* The fields of YtesAudio and what the players do keep their types, and the
\* number of a track stays in its catalogue, whatever numbers the commands carry.
THEOREM Typowanie == Spec => []TypeOK
<1>1. IndAudio => TypeOK
  BY DEF IndAudio, Dobry, TypeOK, Odtwarzacz
<1> QED
  BY <1>1, IndZawsze, PTL

\* However lowered, restored and new volumes are mixed in the queue, and whatever
\* number the user asks for, the music ends up at that volume once nothing is
\* lowered any more, if the library sends it at all.
THEOREM MuzykaWracaZawsze == Spec => []MuzykaWraca
<1>1. IndAudio => MuzykaWraca
  <2>1. SUFFICES ASSUME IndAudio, ~audio.muzykaWyciszona
                 PROVE  /\ \A i \in DOMAIN audio.prawa : OstatnieZ(audio.prawa, {VOLUME}, i)
                              => audio.prawa[i][2] = audio.glosnoscPrawy
                        /\ Bez(audio.prawa, {VOLUME}) /\ Przyjeta(audio.glosnoscPrawy)
                              => prawy.glosnosc = audio.glosnoscPrawy % 256
    BY DEF MuzykaWraca
  <2>2. Zgodna(audio.prawa, {VOLUME}, {p \in Polecenie : p[2] = audio.glosnoscPrawy},
               prawy.glosnosc, GlosnoscPo(audio.glosnoscPrawy))
    BY <2>1 DEF IndAudio, Dobry, Glosnosc
  <2> QED
    BY <2>2 DEF Zgodna, GlosnoscPo
<1> QED
  BY <1>1, IndZawsze, PTL

\* However pauses, ends of pauses and new tracks are mixed in the queue, the
\* music goes on once no pause is on.
THEOREM MuzykaGraZawsze == Spec => []MuzykaGra
<1>1. IndAudio => MuzykaGra
  <2>1. SUFFICES ASSUME IndAudio, ~audio.muzykaPauza
                 PROVE  /\ \A i \in DOMAIN audio.prawa : OstatnieZ(audio.prawa, KodyPauzy, i)
                              => audio.prawa[i][1] # PAUSE
                        /\ Bez(audio.prawa, KodyPauzy) => ~prawy.pauza
    BY DEF MuzykaGra
  <2>2. Zgodna(audio.prawa, KodyPauzy, {p \in Polecenie : p[1] # PAUSE},
               prawy.pauza, {FALSE})
    BY <2>1 DEF IndAudio, Dobry, Pauza
  <2> QED
    BY <2>2 DEF Zgodna
<1> QED
  BY <1>1, IndZawsze, PTL

\* Whatever order pairings, goodbyes and commands come in, a paired robot plays
\* the track it reports.
THEOREM UtworZgodnyZawsze == Spec => []UtworZgodny
<1>1. IndAudio => UtworZgodny
  <2>1. SUFFICES ASSUME IndAudio, audio.robotSparowany
                 PROVE  /\ \A i \in DOMAIN audio.prawa : OstatnieZ(audio.prawa, KodyUtworu, i)
                              => UtworPO(Utwor(audio.prawa[i]))
                        /\ Bez(audio.prawa, KodyUtworu) => UtworPO(prawy.utwor)
    BY DEF UtworZgodny
  <2>2. Zgodna(audio.prawa, KodyUtworu,
               {p \in Polecenie : Utwor(p)[2] = audio.PO /\ Utwor(p)[1] # 5},
               prawy.utwor, {u \in Int \X Int : u[2] = audio.PO /\ u[1] # 5})
    BY <2>1 DEF IndAudio, Dobry, Muzyka
  <2> QED
    BY <2>2 DEF Zgodna, UtworPO
<1> QED
  BY <1>1, IndZawsze, PTL

-----------------------------------------------------------------------------
(* PowrotPrzedNami.  What a method of YtesAudio other than the poll may do *)
(* to the left queue, to the last poll and to the two flags: it never      *)
(* takes a track out of the queue, and lowers or pauses the music only     *)
(* with a track put into it.                                               *)

Przyciszona(a) == a.muzykaWyciszona \/ a.muzykaPauza

Dokladajaca(a, b) ==
    /\ b.lewyAktStan = a.lewyAktStan
    /\ Bez(b.lewa, KodyUtworu) => Bez(a.lewa, KodyUtworu) /\ (Przyciszona(b) => Przyciszona(a))

\* Two operations that only add, one after the other, only add.
LEMMA DokladajacaPrzechodnia ==
    ASSUME NEW a, NEW b, NEW c, Dokladajaca(a, b), Dokladajaca(b, c)
    PROVE  Dokladajaca(a, c)
BY DEF Dokladajaca

\* Fields on which it does not depend.
LEMMA DokladajacaInne ==
    ASSUME NEW a, NEW b, b.lewa = a.lewa, b.lewyAktStan = a.lewyAktStan,
           b.muzykaWyciszona = a.muzykaWyciszona, b.muzykaPauza = a.muzykaPauza
    PROVE  Dokladajaca(a, b)
BY DEF Dokladajaca, Przyciszona

\* A queue without a track had none before a command was put into it.
LEMMA BezPoDopisaniu ==
    ASSUME NEW q \in Seq(Polecenie), NEW p \in Polecenie
    PROVE  Bez(Append(q, p), KodyUtworu) => Bez(q, KodyUtworu) /\ p[1] \notin KodyUtworu
<1>1. /\ DOMAIN Append(q, p) = 1 .. Len(q) + 1 /\ DOMAIN q = 1 .. Len(q)
      /\ Append(q, p)[Len(q) + 1] = p /\ Len(q) \in Nat
      /\ \A i \in 1 .. Len(q) : Append(q, p)[i] = q[i]
  OBVIOUS
<1>2. QED
  BY <1>1 DEF Bez

\* Putting a command in the left queue only adds.
LEMMA DokladajacaLewy ==
    ASSUME NEW a \in ObiektAudio, NEW p \in Polecenie
    PROVE  /\ Dokladajaca(a, dodajLewy(a, p))
           /\ p[1] \in KodyUtworu => ~Bez(dodajLewy(a, p).lewa, KodyUtworu)
<1> DEFINE b == dodajLewy(a, p)
<1>1. /\ b.lewa = Append(a.lewa, p) /\ b.lewyAktStan = a.lewyAktStan
      /\ b.muzykaWyciszona = a.muzykaWyciszona /\ b.muzykaPauza = a.muzykaPauza
  BY DEF dodajLewy, ObiektAudio
<1>2. a.lewa \in Seq(Polecenie)
  BY Kolejki
<1> HIDE DEF b
<1>3. Dokladajaca(a, b) /\ (p[1] \in KodyUtworu => ~Bez(b.lewa, KodyUtworu))
  BY <1>1, <1>2, BezPoDopisaniu DEF Dokladajaca, Przyciszona
<1>4. QED
  BY <1>3 DEF b

\* Choosing an effect only adds.
LEMMA DokladajacaEfekt ==
    ASSUME NEW a \in ObiektAudio, NEW nr \in Int
    PROVE  Dokladajaca(a, grajEfekt(a, nr))
<1> DEFINE w == ZeroPozaZakresem(nr, IloscEfektow)
           efekt == <<PLAYFOLDER, katEfekty(a), w>>
           ciszej == IF a.glosnoscPrawy < a.poziomWyciszenia
                     THEN 0 ELSE a.glosnoscPrawy - a.poziomWyciszenia
           b == dodajPrawy([a EXCEPT !.muzykaWyciszona = TRUE], <<VOLUME, ciszej, 0>>)
           c == dodajPrawy([a EXCEPT !.muzykaPauza = TRUE], <<PAUSE, 0, 0>>)
<1>1. /\ efekt \in Polecenie /\ efekt[1] \in KodyUtworu
      /\ <<STOP, 0, 0>> \in Polecenie
  <2>1. w \in Int /\ katEfekty(a) \in Int
    BY AudioAssumption DEF ZeroPozaZakresem, katEfekty
  <2>2. QED
    BY <2>1, Krotka, Kody
<1>2. /\ b \in ObiektAudio /\ b.lewa = a.lewa /\ b.lewyAktStan = a.lewyAktStan
      /\ c \in ObiektAudio /\ c.lewa = a.lewa /\ c.lewyAktStan = a.lewyAktStan
  <2>1. ciszej \in Int
    BY DEF ObiektAudio
  <2>2. /\ Append(a.prawa, <<VOLUME, ciszej, 0>>) \in Seq(Polecenie)
        /\ Append(a.prawa, <<PAUSE, 0, 0>>) \in Seq(Polecenie)
    BY <2>1, Kolejki, Krotka, Kody
  <2> HIDE DEF ciszej
  <2>3. /\ b = [a EXCEPT !.muzykaWyciszona = TRUE, !.prawa = Append(a.prawa, <<VOLUME, ciszej, 0>>)]
        /\ c = [a EXCEPT !.muzykaPauza = TRUE, !.prawa = Append(a.prawa, <<PAUSE, 0, 0>>)]
    BY DEF dodajPrawy, ObiektAudio
  <2> HIDE DEF b, c
  <2>4. QED
    BY <2>2, <2>3 DEF ObiektAudio
<1>3. Dokladajaca(a, dodajLewy(b, efekt)) /\ Dokladajaca(a, dodajLewy(c, efekt))
  <2> HIDE DEF b, c, efekt
  <2>1. /\ Dokladajaca(b, dodajLewy(b, efekt)) /\ ~Bez(dodajLewy(b, efekt).lewa, KodyUtworu)
        /\ Dokladajaca(c, dodajLewy(c, efekt)) /\ ~Bez(dodajLewy(c, efekt).lewa, KodyUtworu)
    BY <1>1, <1>2, DokladajacaLewy
  <2>2. QED
    BY <1>2, <2>1 DEF Dokladajaca
<1>4. Dokladajaca(a, dodajLewy(a, <<STOP, 0, 0>>)) /\ Dokladajaca(a, dodajLewy(a, efekt))
  <2> HIDE DEF efekt
  <2>1. QED
    BY <1>1, DokladajacaLewy
<1>5. Dokladajaca(a, a)
  BY DEF Dokladajaca
<1>6. grajEfekt(a, nr) \in {dodajLewy(a, <<STOP, 0, 0>>), dodajLewy(a, efekt),
                            dodajLewy(b, efekt), dodajLewy(c, efekt), a}
  <2>1. CASE w = 0
    BY <2>1 DEF grajEfekt
  <2>2. CASE w # 0 /\ a.tryb = NORMALNY
    BY <2>2 DEF grajEfekt
  <2>3. CASE w # 0 /\ a.tryb = WYCISZANIE
    BY <2>3 DEF grajEfekt, NORMALNY, WYCISZANIE
  <2>4. CASE w # 0 /\ a.tryb = PALZOWANIE
    BY <2>4 DEF grajEfekt, NORMALNY, WYCISZANIE, PALZOWANIE
  <2>5. CASE w # 0 /\ a.tryb \notin {NORMALNY, WYCISZANIE, PALZOWANIE}
    BY <2>5 DEF grajEfekt
  <2>6. QED
    BY <2>1, <2>2, <2>3, <2>4, <2>5
<1>7. QED
  BY <1>3, <1>4, <1>5, <1>6

\* The right queue and the fields of the user.
LEMMA DokladajacaMuzyka ==
    ASSUME NEW a \in ObiektAudio, NEW nr \in Int
    PROVE  Dokladajaca(a, grajMuzyke(a, nr))
<1> DEFINE b == grajMuzyke(a, nr)
<1>1. /\ b.lewa = a.lewa /\ b.lewyAktStan = a.lewyAktStan
      /\ b.muzykaWyciszona = a.muzykaWyciszona /\ b.muzykaPauza = a.muzykaPauza
  BY DEF grajMuzyke, dodajPrawy, ObiektAudio
<1> HIDE DEF b
<1>2. Dokladajaca(a, b)
  BY <1>1, DokladajacaInne
<1>3. QED
  BY <1>2 DEF b

\* Tracks, modes, levels and the right volume only add.
LEMMA DokladajacaPola ==
    ASSUME NEW a \in ObiektAudio, NEW x \in Int, NEW zmieniony \in BOOLEAN
    PROVE  /\ Dokladajaca(a, ustawTor(a, x)) /\ Dokladajaca(a, [a EXCEPT !.tryb = x])
           /\ Dokladajaca(a, ustawPoziomWyciszenia(a, x))
           /\ Dokladajaca(a, nowaGlosnoscPrawa(a, x, zmieniony))
<1> USE DEF Dokladajaca, Przyciszona
<1>1. Dokladajaca(a, ustawTor(a, x))
  BY DEF ustawTor, ObiektAudio
<1>2. Dokladajaca(a, [a EXCEPT !.tryb = x])
  BY DEF ObiektAudio
<1>3. Dokladajaca(a, ustawPoziomWyciszenia(a, x))
  BY DEF ustawPoziomWyciszenia, ObiektAudio
<1>4. Dokladajaca(a, nowaGlosnoscPrawa(a, x, zmieniony))
  BY DEF nowaGlosnoscPrawa, dodajPrawy, ObiektAudio
<1>5. QED
  BY <1>1, <1>2, <1>3, <1>4

\* A new left volume only adds.
LEMMA DokladajacaLewaGlosnosc ==
    ASSUME NEW a \in ObiektAudio, NEW lg \in Int
    PROVE  Dokladajaca(a, nowaGlosnoscLewa(a, lg))
<1> DEFINE b == [a EXCEPT !.glosnoscLewy = lg]
           p == <<VOLUME, lg, 0>>
<1>1. /\ b \in ObiektAudio /\ b.lewa = a.lewa /\ b.lewyAktStan = a.lewyAktStan
      /\ b.muzykaWyciszona = a.muzykaWyciszona /\ b.muzykaPauza = a.muzykaPauza
  BY DEF ObiektAudio
<1>2. p \in Polecenie
  BY Krotka, Kody
<1>3. nowaGlosnoscLewa(a, lg) \in {dodajLewy(b, p), a}
  BY DEF nowaGlosnoscLewa
<1> HIDE DEF b, p
<1>4. Dokladajaca(a, b) /\ Dokladajaca(b, dodajLewy(b, p)) /\ Dokladajaca(a, a)
  BY <1>1, <1>2, DokladajacaInne, DokladajacaLewy
<1>5. QED
  BY <1>3, <1>4, DokladajacaPrzechodnia

\* One command after another; Dobry is only needed for its types.
LEMMA DokladajacaPolecenie ==
    ASSUME NEW a, NEW g, Dobry(a, g), NEW d \in Polecenia
    PROVE  Dokladajaca(a, obslozPolecenieDane(a, d))
<1> DEFINE torZmieniony == Ma(d, "TOR") /\ d["TOR"] # a.tor
           a1 == IF torZmieniony   THEN ustawTor(a, d["TOR"]) ELSE a
           a2 == IF Ma(d, "TRYB")  THEN [a1 EXCEPT !.tryb = d["TRYB"]] ELSE a1
           a3 == IF Ma(d, "LG")    THEN nowaGlosnoscLewa(a2, d["LG"]) ELSE a2
           a4 == IF Ma(d, "PG")    THEN nowaGlosnoscPrawa(a3, d["PG"], torZmieniony) ELSE a3
           a5 == IF Ma(d, "PW")    THEN ustawPoziomWyciszenia(a4, d["PW"]) ELSE a4
           a6 == IF Ma(d, "PO")    THEN nowaMuzyka(a5, d["PO"], torZmieniony) ELSE a5
           a7 == IF Ma(d, "LO")    THEN grajEfekt(a6, d["LO"]) ELSE a6
<1>1. \A k : Ma(d, k) => d[k] \in Int
  BY AudioAssumption DEF Ma
<1>2. torZmieniony \in BOOLEAN /\ (torZmieniony => Ma(d, "TOR"))
  OBVIOUS
<1>3. obslozPolecenieDane(a, d) = a7
  BY DEF obslozPolecenieDane
<1>4. \A x : x \in ObiektAudio => Dokladajaca(x, x)
  BY DEF Dokladajaca
<1>5. \A x : Dobry(x, g) => x \in ObiektAudio
  BY DEF Dobry
<1>6. Dobry(a1, g) /\ Dokladajaca(a, a1)
  <2> HIDE DEF torZmieniony
  <2>1. QED
    BY <1>1, <1>2, <1>4, <1>5, UstawTor, DokladajacaPola
<1> HIDE DEF torZmieniony, a1
<1>7. Dobry(a2, g) /\ Dokladajaca(a1, a2)
  BY <1>1, <1>4, <1>5, <1>6, UstawTryb, DokladajacaPola
<1> HIDE DEF a2
<1>8. Dobry(a3, g) /\ Dokladajaca(a2, a3)
  BY <1>1, <1>4, <1>5, <1>7, NowaLewa, DokladajacaLewaGlosnosc
<1> HIDE DEF a3
<1>9. Dobry(a4, g) /\ Dokladajaca(a3, a4)
  BY <1>1, <1>2, <1>4, <1>5, <1>8, NowaPrawa, DokladajacaPola
<1> HIDE DEF a4
<1>10. Dobry(a5, g) /\ Dokladajaca(a4, a5)
  BY <1>1, <1>4, <1>5, <1>9, UstawPoziom, DokladajacaPola
<1> HIDE DEF a5
<1>11. Dobry(a6, g) /\ Dokladajaca(a5, a6)
  <2>1. ASSUME Ma(d, "PO")
        PROVE  /\ Dobry(nowaMuzyka(a5, d["PO"], torZmieniony), g)
               /\ Dokladajaca(a5, nowaMuzyka(a5, d["PO"], torZmieniony))
    <3>1. nowaMuzyka(a5, d["PO"], torZmieniony) \in {a5, grajMuzyke(a5, d["PO"])}
      BY DEF nowaMuzyka
    <3>2. Dobry(grajMuzyke(a5, d["PO"]), g)
      BY <1>1, <1>10, <2>1, GrajMuzyke DEF Dobry
    <3>3. Dokladajaca(a5, grajMuzyke(a5, d["PO"])) /\ Dokladajaca(a5, a5)
      BY <1>1, <1>4, <1>5, <1>10, <2>1, DokladajacaMuzyka
    <3>4. QED
      BY <1>10, <3>1, <3>2, <3>3
  <2>2. QED
    BY <1>4, <1>5, <1>10, <2>1
<1> HIDE DEF a6
<1>12. Dokladajaca(a6, a7)
  BY <1>1, <1>4, <1>5, <1>11, DokladajacaEfekt
<1> HIDE DEF a7
<1>13. Dokladajaca(a, a3)
  BY <1>6, <1>7, <1>8, DokladajacaPrzechodnia
<1>14. Dokladajaca(a3, a6)
  BY <1>9, <1>10, <1>11, DokladajacaPrzechodnia
<1>15. QED
  BY <1>3, <1>12, <1>13, <1>14, DokladajacaPrzechodnia

\* The poll: what it saw is kept, and a seen end of an effect ends everything.
LEMMA PoKontroli ==
    ASSUME NEW a \in ObiektAudio, NEW gra \in BOOLEAN
    PROVE  /\ kontrolaStanu(a, gra).lewa = a.lewa
           /\ kontrolaStanu(a, gra).lewyAktStan = gra
           /\ IF a.lewyAktStan /\ ~gra THEN ~Przyciszona(kontrolaStanu(a, gra))
              ELSE Przyciszona(kontrolaStanu(a, gra)) <=> Przyciszona(a)
<1> DEFINE b == [a EXCEPT !.lewyPopStan = a.lewyAktStan, !.lewyAktStan = gra]
           c == koniecWyciszenia(b)
           e == koniecPauzy(c)
           wynik == kontrolaStanu(a, gra)
<1>1. /\ b \in ObiektAudio /\ b.lewa = a.lewa /\ b.lewyAktStan = gra
      /\ b.muzykaWyciszona = a.muzykaWyciszona /\ b.muzykaPauza = a.muzykaPauza
  BY DEF ObiektAudio
<1>2. wynik = IF a.lewyAktStan /\ ~gra THEN e ELSE b
  BY DEF kontrolaStanu
<1> HIDE DEF b, wynik
<1>3. c \in ObiektAudio /\ c.lewa = b.lewa /\ c.lewyAktStan = gra /\ ~c.muzykaWyciszona
  <2>1. CASE ~b.muzykaWyciszona
    BY <1>1, <2>1 DEF koniecWyciszenia
  <2>2. CASE b.muzykaWyciszona
    <3> DEFINE p == <<VOLUME, b.muzykaPrzedWyciszeniem, 0>>
    <3>1. p \in Polecenie
      BY <1>1, Krotka, Kody DEF ObiektAudio
    <3> HIDE DEF p
    <3>2. Append(b.prawa, p) \in Seq(Polecenie)
      BY <1>1, <3>1, Kolejki
    <3>3. c = [b EXCEPT !.muzykaWyciszona = FALSE, !.prawa = Append(b.prawa, p)]
      BY <1>1, <2>2 DEF koniecWyciszenia, dodajPrawy, ObiektAudio, p
    <3> HIDE DEF c
    <3>4. QED
      BY <1>1, <3>2, <3>3 DEF ObiektAudio
  <2>3. QED
    BY <2>1, <2>2
<1> HIDE DEF c
<1>4. e.lewa = c.lewa /\ e.lewyAktStan = gra /\ ~e.muzykaWyciszona /\ ~e.muzykaPauza
  BY <1>3 DEF koniecPauzy, dodajPrawy, ObiektAudio
<1> HIDE DEF e
<1>5. /\ wynik.lewa = a.lewa /\ wynik.lewyAktStan = gra
      /\ IF a.lewyAktStan /\ ~gra THEN ~Przyciszona(wynik)
         ELSE Przyciszona(wynik) <=> Przyciszona(a)
  BY <1>1, <1>2, <1>3, <1>4 DEF Przyciszona
<1>6. QED
  BY <1>5 DEF wynik

\* After a command was sent to the left player nothing is sent to it before a poll.
OdpytanyZna == odpytany /\ lewy.gra => audio.lewyAktStan

\* PowrotPrzedNami of any object and state of the left player.
PowrotDla(a, gra) == Przyciszona(a) => ~Bez(a.lewa, KodyUtworu) \/ gra \/ a.lewyAktStan

\* An operation that only adds leaves the event that restores the music ahead.
LEMMA PowrotDokladajacej ==
    ASSUME NEW a, NEW b, NEW gra, Dokladajaca(a, b), PowrotDla(a, gra)
    PROVE  PowrotDla(b, gra)
BY DEF Dokladajaca, PowrotDla

\* A command leaves the left queue: it was a track, or the tracks stay.
LEMMA BezPoWyslaniu ==
    ASSUME NEW q \in Seq(Polecenie), q # <<>>, ~Bez(q, KodyUtworu)
    PROVE  Head(q)[1] \in KodyUtworu \/ ~Bez(Tail(q), KodyUtworu)
<1>1. PICK i \in DOMAIN q : q[i][1] \in KodyUtworu
  BY DEF Bez
<1>2. CASE i = 1
  BY <1>1, <1>2
<1>3. CASE i # 1
  <2>1. /\ i - 1 \in 1 .. Len(Tail(q)) /\ Tail(q)[i - 1] = q[i]
        /\ DOMAIN Tail(q) = 1 .. Len(Tail(q))
    BY <1>1, <1>3
  <2>2. QED
    BY <1>1, <2>1 DEF Bez
<1>4. QED
  BY <1>2, <1>3

\* A call of audioHandler() leaves the event that restores the music ahead.
LEMMA PrzebiegPowrotu ==
    ASSUME IndAudio, OdpytanyZna, PowrotDla(audio, lewy.gra), Handler, ~zaklocone'
    PROVE  OdpytanyZna' /\ PowrotDla(audio', lewy'.gra)
<1>1. Odpowiedzi \subseteq BOOLEAN /\ Pliki \subseteq BOOLEAN /\ lewy.gra \in BOOLEAN
  BY DEF Odpowiedzi, Pliki, IndAudio
<1>2. PICK poll \in BOOLEAN, zLewej \in BOOLEAN, zPrawej \in BOOLEAN,
           odpowiedz \in BOOLEAN, plik \in BOOLEAN, efekt \in {0} \cup DoWyboru :
              audioHandler(poll, odpowiedz, zLewej, zPrawej, plik, efekt)
  BY <1>1 DEF Handler, Przebieg
<1> DEFINE a1 == IF poll THEN kontrolaStanu(audio, odpowiedz) ELSE audio
           wyslijLewy  == zLewej /\ a1.lewa # <<>>
           wyslijPrawy == zPrawej /\ a1.prawa # <<>>
           a2 == [a1 EXCEPT !.lewa = IF wyslijLewy THEN Tail(@) ELSE @,
                            !.prawa = IF wyslijPrawy THEN Tail(@) ELSE @]
           l == IF wyslijLewy THEN WykonajLewy(lewy, Head(a1.lewa), plik) ELSE lewy
<1>3. /\ poll => odpowiedz = lewy.gra
      /\ wyslijLewy /\ CzyGra(Head(a1.lewa)) => plik
      /\ zLewej => odpytany \/ poll
      /\ odpytany' = ((odpytany \/ poll) /\ ~wyslijLewy)
      /\ lewy' = l
      /\ audio' = IF efekt # 0 THEN grajEfekt(a2, efekt) ELSE a2
  BY <1>2 DEF audioHandler
<1>4. a1 \in ObiektAudio
  BY <1>1, KontrolaStanu DEF IndAudio, Dobry
<1>5. /\ a1.lewa = audio.lewa
      /\ PowrotDla(a1, lewy.gra)
      /\ (odpytany \/ poll) /\ lewy.gra => a1.lewyAktStan
      /\ a1.lewyAktStan \in BOOLEAN
  <2>1. CASE poll
    <3>1. audio \in ObiektAudio
      BY DEF IndAudio, Dobry
    <3>2. /\ a1.lewa = audio.lewa /\ a1.lewyAktStan = lewy.gra
          /\ IF audio.lewyAktStan /\ ~lewy.gra THEN ~Przyciszona(a1)
             ELSE Przyciszona(a1) <=> Przyciszona(audio)
      BY <1>1, <1>3, <2>1, <3>1, PoKontroli
    <3> HIDE DEF a1
    <3>3. QED
      BY <1>1, <3>2 DEF PowrotDla
  <2>2. CASE ~poll
    BY <2>2 DEF OdpytanyZna, IndAudio, Dobry, ObiektAudio
  <2>3. QED
    BY <2>1, <2>2
<1> HIDE DEF a1
<1>6. /\ a2 \in ObiektAudio /\ a2.lewyAktStan = a1.lewyAktStan
      /\ a2.lewa = IF wyslijLewy THEN Tail(a1.lewa) ELSE a1.lewa
      /\ Przyciszona(a2) <=> Przyciszona(a1)
  <2>1. /\ (IF wyslijLewy THEN Tail(a1.lewa) ELSE a1.lewa) \in Seq(Polecenie)
        /\ (IF wyslijPrawy THEN Tail(a1.prawa) ELSE a1.prawa) \in Seq(Polecenie)
    BY <1>4, Kolejki
  <2> HIDE DEF wyslijLewy, wyslijPrawy
  <2>2. QED
    BY <1>4, <2>1 DEF ObiektAudio, Przyciszona
<1> HIDE DEF a2
<1>7. PowrotDla(a2, l.gra)
  <2>1. CASE ~wyslijLewy
    BY <1>5, <1>6, <2>1 DEF PowrotDla
  <2>2. CASE wyslijLewy
    <3>1. a1.lewa \in Seq(Polecenie) /\ a1.lewa # <<>> /\ Head(a1.lewa) \in Polecenie
      BY <1>4, <2>2, Kolejki
    <3>2. lewy.gra => a1.lewyAktStan
      BY <1>3, <1>5, <2>2
    <3>3. Head(a1.lewa)[1] \in KodyUtworu => l.gra = TRUE
      <4>1. Head(a1.lewa)[1] \in KodyUtworu => plik = TRUE
        BY <1>3, <2>2 DEF CzyGra, KodyUtworu
      <4>2. QED
        BY <2>2, <3>1, <4>1, WykonanieLewe DEF IndAudio
    <3> HIDE DEF wyslijLewy, l
    <3>4. CASE ~Bez(a1.lewa, KodyUtworu)
      BY <1>6, <2>2, <3>1, <3>3, <3>4, BezPoWyslaniu DEF PowrotDla
    <3>5. CASE Bez(a1.lewa, KodyUtworu)
      BY <1>5, <1>6, <3>2, <3>5 DEF PowrotDla
    <3>6. QED
      BY <3>4, <3>5
  <2>3. QED
    BY <2>1, <2>2
<1>8. odpytany' /\ lewy'.gra => a2.lewyAktStan
  BY <1>3, <1>5, <1>6
<1>9. efekt \in Int
  BY AudioAssumption DEF DoWyboru
<1>10. Dokladajaca(a2, audio')
  <2>1. Dokladajaca(a2, a2)
    BY DEF Dokladajaca
  <2>2. QED
    BY <1>3, <1>6, <1>9, <2>1, DokladajacaEfekt
<1>11. PowrotDla(audio', lewy'.gra)
  <2> HIDE DEF l
  <2>1. QED
    BY <1>3, <1>7, <1>10, PowrotDokladajacej
<1>12. OdpytanyZna'
  BY <1>8, <1>10 DEF OdpytanyZna, Dokladajaca
<1>13. QED
  BY <1>11, <1>12

\* As long as answers come in time and files exist, what will bring lowered or paused music
\* back is always still ahead (audioHandler(), grajEfekt() and the pacing of the two
\* timers), for any commands, effects and lengths of the queues.
THEOREM PowrotZawsze == Spec => []PowrotPrzedNami
<1> DEFINE Ind == ~zaklocone => OdpytanyZna /\ PowrotDla(audio, lewy.gra)
<1>1. Init => Ind
  BY DEF Init, OdpytanyZna, PowrotDla, Przyciszona
<1>2. ASSUME IndAudio, Ind, [Next]_vars, ~zaklocone'
      PROVE  OdpytanyZna' /\ PowrotDla(audio', lewy'.gra)
  <2>0. ~zaklocone
    <3>1. CASE Handler
      BY <1>2, <3>1 DEF Handler, Przebieg, audioHandler
    <3>2. CASE ~Handler
      BY <1>2, <3>2 DEF Next, PolecenieAudio, PolecenieDanePrzeslij, PoleceniePapa,
                        KoniecEfektu, vars
    <3>3. QED
      BY <3>1, <3>2
  <2>1. CASE Handler
    BY <1>2, <2>0, <2>1, PrzebiegPowrotu
  <2>2. CASE PolecenieAudio \/ PolecenieDanePrzeslij \/ PoleceniePapa
    <3>1. Dokladajaca(audio, audio')
      <4>1. CASE PolecenieAudio
        BY <1>2, <4>1, DokladajacaPolecenie DEF PolecenieAudio, IndAudio
      <4>2. CASE PolecenieDanePrzeslij
        <5> DEFINE b == [audio EXCEPT !.robotSparowany = TRUE]
        <5>1. audio \in ObiektAudio /\ audio.PO \in Int
          BY <1>2 DEF IndAudio, Dobry, ObiektAudio
        <5>2. /\ b \in ObiektAudio /\ b.lewa = audio.lewa /\ b.lewyAktStan = audio.lewyAktStan
              /\ b.muzykaWyciszona = audio.muzykaWyciszona /\ b.muzykaPauza = audio.muzykaPauza
          BY <5>1 DEF ObiektAudio
        <5>3. audio' = grajMuzyke(b, audio.PO)
          BY <4>2 DEF PolecenieDanePrzeslij, stanPolaczony
        <5> HIDE DEF b
        <5>4. QED
          BY <5>1, <5>2, <5>3, DokladajacaInne, DokladajacaMuzyka, DokladajacaPrzechodnia
      <4>3. CASE PoleceniePapa
        <5> DEFINE b == grajEfekt(audio, 0)
                   c == [grajMuzykePowitalna(b) EXCEPT !.robotSparowany = FALSE]
        <5>1. Dobry(b, prawy) /\ Dokladajaca(audio, b)
          BY <1>2, GrajEfekt, DokladajacaEfekt DEF IndAudio, Dobry
        <5>2. audio' = c
          BY <4>3 DEF PoleceniePapa, stanNiePolaczony
        <5> HIDE DEF b
        <5>3. /\ c.lewa = b.lewa /\ c.lewyAktStan = b.lewyAktStan
              /\ c.muzykaWyciszona = b.muzykaWyciszona /\ c.muzykaPauza = b.muzykaPauza
          BY <5>1 DEF Dobry, ObiektAudio, grajMuzykePowitalna, dodajPrawy
        <5> HIDE DEF c
        <5>4. QED
          BY <5>1, <5>2, <5>3, DokladajacaInne, DokladajacaPrzechodnia
      <4>4. QED
        BY <2>2, <4>1, <4>2, <4>3
    <3>2. lewy' = lewy /\ odpytany' = odpytany
      BY <2>2 DEF PolecenieAudio, PolecenieDanePrzeslij, PoleceniePapa
    <3>3. audio'.lewyAktStan = audio.lewyAktStan
      BY <3>1 DEF Dokladajaca
    <3>4. QED
      BY <1>2, <2>0, <3>1, <3>2, <3>3, PowrotDokladajacej DEF OdpytanyZna
  <2>3. CASE KoniecEfektu
    <3>1. lewy'.gra = FALSE /\ audio' = audio /\ audio.lewyAktStan
      BY <1>2, <2>3 DEF KoniecEfektu, IndAudio
    <3>2. QED
      BY <3>1 DEF OdpytanyZna, PowrotDla
  <2>4. CASE UNCHANGED vars
    BY <1>2, <2>0, <2>4 DEF vars, OdpytanyZna
  <2>5. QED
    BY <1>2, <2>1, <2>2, <2>3, <2>4 DEF Next
<1>3. PowrotDla(audio', lewy'.gra) <=> PowrotDla(audio, lewy.gra)'
  BY DEF PowrotDla, Przyciszona, Bez
<1>4. IndAudio /\ Ind /\ [Next]_vars => Ind'
  BY <1>2, <1>3
<1>5. Ind => PowrotPrzedNami
  BY DEF PowrotDla, Przyciszona, PowrotPrzedNami
<1>6. QED
  BY <1>1, <1>4, <1>5, IndZawsze, PTL DEF Spec
=============================================================================
