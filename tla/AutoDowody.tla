---------------------------- MODULE AutoDowody ----------------------------
(***************************************************************************)
(* Proofs about the effects the robot chooses of its own accord: the types,*)
(* the pause between two effects, and the idleness before boredom.         *)
(***************************************************************************)
EXTENDS AutoEfekty, TLAPS

USE AutoAssumption DEF AutoAssumption

Obiekt ==
    [robotSparowany : BOOLEAN, uwzglednijRadar : BOOLEAN,
     uwzglednijZyroskop : BOOLEAN, msOstatniPrzyciskEfekt : Nat,
     msNuda : Nat, msNastepnyAutoEfekt : Nat]

Nazwy == {"RADAR_BLISKO", "PRZECHYL", "SMIEC", "LOSOWE_GADANIE"}

Losy == 0 .. PrzerwaLos - 1

-----------------------------------------------------------------------------
(* The operators the branches are built from. *)

\* The latest of three and of four moments is one of them and none is later.
LEMMA MaxTrzech ==
    ASSUME NEW b \in Nat, NEW c \in Nat, NEW d \in Nat
    PROVE  /\ Max({b, c, d}) \in {b, c, d}
           /\ Max({b, c, d}) >= b /\ Max({b, c, d}) >= c /\ Max({b, c, d}) >= d
<1>1. \E x \in {b, c, d} : \A y \in {b, c, d} : x >= y
  OBVIOUS
<1>2. QED
  BY <1>1 DEF Max

\* The largest of four times is one of them and not below any.
LEMMA MaxCzterech ==
    ASSUME NEW a \in Nat, NEW b \in Nat, NEW c \in Nat, NEW d \in Nat
    PROVE  /\ Max({a, b, c, d}) \in {a, b, c, d}
           /\ Max({a, b, c, d}) >= a /\ Max({a, b, c, d}) >= b
           /\ Max({a, b, c, d}) >= c /\ Max({a, b, c, d}) >= d
<1>1. \E x \in {a, b, c, d} : \A y \in {a, b, c, d} : x >= y
  OBVIOUS
<1>2. QED
  BY <1>1 DEF Max

\* Putting the next effect off changes nothing else.
LEMMA OdlozonySkutek ==
    ASSUME NEW a \in Obiekt, teraz \in Nat, NEW los \in Losy
    PROVE  /\ Odlozony(a, los) \in Obiekt
           /\ Odlozony(a, los).msNastepnyAutoEfekt >= teraz + PrzerwaBaza
           /\ Odlozony(a, los).msOstatniPrzyciskEfekt = a.msOstatniPrzyciskEfekt
           /\ ~CzasMinal(Odlozony(a, los))
BY DEF Odlozony, Obiekt, Losy, CzasMinal

\* Putting boredom off leaves the next effect where it is.
LEMMA PrzerwijNudeSkutek ==
    ASSUME NEW a \in Obiekt, ruchNaped \in Nat, ruchRadar \in Nat
    PROVE  /\ PrzerwijNude(a) \in Obiekt
           /\ PrzerwijNude(a).msNastepnyAutoEfekt = a.msNastepnyAutoEfekt
           /\ PrzerwijNude(a).msOstatniPrzyciskEfekt = a.msOstatniPrzyciskEfekt
           /\ PrzerwijNude(a).msNuda >=
                Max({ruchNaped, ruchRadar, a.msOstatniPrzyciskEfekt})
<1>1. /\ a.msNuda \in Nat /\ a.msOstatniPrzyciskEfekt \in Nat
  BY DEF Obiekt
<1>2. Max({a.msNuda, ruchNaped, ruchRadar, a.msOstatniPrzyciskEfekt}) \in Nat
  BY <1>1, MaxCzterech
<1>3. Max({a.msNuda, ruchNaped, ruchRadar, a.msOstatniPrzyciskEfekt})
        >= Max({ruchNaped, ruchRadar, a.msOstatniPrzyciskEfekt})
  BY <1>1, MaxTrzech, MaxCzterech
<1>4. QED
  BY <1>2, <1>3 DEF PrzerwijNude, Obiekt

-----------------------------------------------------------------------------
(* The branches.  Each has one of a few effects, which is all the theorems   *)
(* need to know of them.                                                     *)

\* Nothing is said; the next effect may have been put off.
Milczy(a, w) ==
    /\ w[2] = <<>>
    /\ w[1].msNastepnyAutoEfekt >= a.msNastepnyAutoEfekt

\* One effect is chosen, when its time has come, and the next one is put off.
Mowi(a, w, nazwa) ==
    /\ w[2] = <<nazwa>>
    /\ CzasMinal(a)
    /\ w[1].msNastepnyAutoEfekt >= teraz + PrzerwaBaza

\* Boredom is chosen, after real idleness.
Bezczynnosc(a) ==
    teraz - Max({ruchNaped, ruchRadar, a.msOstatniPrzyciskEfekt}) >= NudaCzekaj

\* Garbage is said when the time of an effect has come; the next one may have
\* been put off or not.
MowiSmiec(a, w) ==
    /\ w[2] = <<"SMIEC">>
    /\ CzasMinal(a)
    /\ w[1].msNastepnyAutoEfekt >= a.msNastepnyAutoEfekt

\* The gyroscope: the value found in indexEfektu is said without a pause, which
\* is why it is told apart from the others.
LEMMA ZyroskopSkutek ==
    ASSUME NEW a \in Obiekt, teraz \in Nat, NEW stan \in StanyZyroskopu,
           NEW los \in Losy, NEW smiec \in Smieci
    PROVE  LET z == Zyroskop(a, <<>>, stan, los, smiec)
           IN  /\ z[1] \in Obiekt
               /\ z[1].msOstatniPrzyciskEfekt = a.msOstatniPrzyciskEfekt
               /\ Milczy(a, z) \/ (Mowi(a, z, "PRZECHYL") /\ ~CzasMinal(z[1]))
                    \/ MowiSmiec(a, z)
<1> DEFINE z == Zyroskop(a, <<>>, stan, los, smiec)
<1>0. a.msNastepnyAutoEfekt \in Nat
  BY DEF Obiekt
<1>1. CASE ~a.uwzglednijZyroskop \/ ~CzasMinal(a)
  <2>1. z = <<a, <<>>>>
    BY <1>1 DEF Zyroskop
  <2>2. QED
    BY <1>0, <2>1 DEF Milczy
<1>2. CASE a.uwzglednijZyroskop /\ CzasMinal(a)
  <2>1. /\ z[1] = IF stan = "BRAK" THEN a ELSE Odlozony(a, los)
        /\ z[2] = IF stan \notin {"BRAK", "RUCH"} THEN <<stan>>
                  ELSE IF smiec > 0 THEN <<"SMIEC">> ELSE <<>>
    BY <1>2 DEF Zyroskop
  <2>2. z[1] \in Obiekt /\ z[1].msOstatniPrzyciskEfekt = a.msOstatniPrzyciskEfekt
    BY <2>1, OdlozonySkutek
  <2>3. z[1].msNastepnyAutoEfekt >= a.msNastepnyAutoEfekt
    BY <1>0, <1>2, <2>1, OdlozonySkutek DEF CzasMinal, Obiekt
  <2>4. CASE stan \notin {"BRAK", "RUCH"}
    <3>1. stan = "PRZECHYL"
      BY <2>4
    <3>2. QED
      BY <1>2, <2>1, <2>2, <3>1, OdlozonySkutek DEF Mowi
  <2>5. CASE stan \in {"BRAK", "RUCH"} /\ smiec > 0
    BY <1>2, <2>1, <2>2, <2>3, <2>5 DEF MowiSmiec
  <2>6. CASE stan \in {"BRAK", "RUCH"} /\ ~(smiec > 0)
    BY <2>1, <2>2, <2>3, <2>6 DEF Milczy
  <2>7. QED
    BY <2>4, <2>5, <2>6
<1>3. QED
  BY <1>1, <1>2

\* Boredom: it adds itself at the end, or nothing.
LEMMA NudaSkutek ==
    ASSUME NEW a \in Obiekt, NEW m, teraz \in Nat, ruchNaped \in Nat,
           ruchRadar \in Nat, NEW los \in Losy
    PROVE  LET w == Nuda(a, m, los)
           IN  /\ w[1] \in Obiekt
               /\ \/ /\ w[2] = m
                     /\ w[1].msNastepnyAutoEfekt = a.msNastepnyAutoEfekt
                  \/ /\ w[2] = Append(m, "LOSOWE_GADANIE")
                     /\ CzasMinal(a)
                     /\ w[1].msNastepnyAutoEfekt >= teraz + PrzerwaBaza
                     /\ Bezczynnosc(a)
<1> DEFINE b == PrzerwijNude(a)
           w == Nuda(a, m, los)
<1>1. /\ b \in Obiekt /\ b.msNastepnyAutoEfekt = a.msNastepnyAutoEfekt
      /\ b.msNuda >= Max({ruchNaped, ruchRadar, a.msOstatniPrzyciskEfekt})
  BY PrzerwijNudeSkutek
<1>2. CASE teraz >= b.msNuda + NudaCzekaj /\ CzasMinal(b)
  <2>1. w[1] = Odlozony(b, los) /\ w[2] = Append(m, "LOSOWE_GADANIE")
    BY <1>2 DEF Nuda
  <2>2. Max({ruchNaped, ruchRadar, a.msOstatniPrzyciskEfekt}) \in Nat
    BY MaxTrzech DEF Obiekt
  <2>3. b.msNuda \in Nat
    BY <1>1 DEF Obiekt
  <2>4. Bezczynnosc(a)
    BY <1>1, <1>2, <2>2, <2>3 DEF Bezczynnosc
  <2>5. QED
    BY <1>1, <1>2, <2>1, <2>4, OdlozonySkutek DEF CzasMinal
<1>3. CASE ~(teraz >= b.msNuda + NudaCzekaj /\ CzasMinal(b))
  <2>1. w[1] = b /\ w[2] = m
    BY <1>3 DEF Nuda
  <2>2. QED
    BY <1>1, <2>1
<1>4. QED
  BY <1>2, <1>3

\* Boredom after the uninitialised index, the only way to two effects at once.
DwaNaraz == Append(<<"SMIEC">>, "LOSOWE_GADANIE")

\* What a call for a paired robot makes of the object and of the effects.
Skutek(a, w) ==
    /\ w[1] \in Obiekt
    /\ \/ Milczy(a, w)
       \/ Mowi(a, w, "RADAR_BLISKO")
       \/ Mowi(a, w, "PRZECHYL")
       \/ Mowi(a, w, "LOSOWE_GADANIE") /\ Bezczynnosc(a)
       \/ MowiSmiec(a, w)
       \/ /\ w[2] = DwaNaraz
          /\ CzasMinal(a)
          /\ w[1].msNastepnyAutoEfekt >= teraz + PrzerwaBaza
          /\ Bezczynnosc(a)

\* What the choice of an effect in audioHandler() may do.
LEMMA WyborSkutek ==
    ASSUME audio \in Obiekt, teraz \in Nat, ruchNaped \in Nat, ruchRadar \in Nat,
           NEW d, NEW stan \in StanyZyroskopu, NEW los \in Losy, NEW los2 \in Losy,
           NEW smiec \in Smieci
    PROVE  Skutek(audio, Wybor(d, stan, los, los2, smiec))
<1> DEFINE w == Wybor(d, stan, los, los2, smiec)
           z == Zyroskop(audio, <<>>, stan, los, smiec)
<1>1. CASE RadarMowi(audio, d)
  <2>1. w[1] = Odlozony(audio, los) /\ w[2] = <<"RADAR_BLISKO">>
    BY <1>1 DEF Wybor
  <2>2. QED
    BY <1>1, <2>1, OdlozonySkutek DEF RadarMowi, Skutek, Mowi
<1>2. CASE ~RadarMowi(audio, d)
  <2>1. w = Nuda(z[1], z[2], los2)
    BY <1>2 DEF Wybor
  <2>2. /\ z[1] \in Obiekt
        /\ z[1].msOstatniPrzyciskEfekt = audio.msOstatniPrzyciskEfekt
        /\ Milczy(audio, z) \/ (Mowi(audio, z, "PRZECHYL") /\ ~CzasMinal(z[1]))
             \/ MowiSmiec(audio, z)
    BY ZyroskopSkutek
  <2> SUFFICES Skutek(audio, w)
    OBVIOUS
  <2> HIDE DEF z, w
  <2>3. Bezczynnosc(z[1]) <=> Bezczynnosc(audio)
    BY <2>2 DEF Bezczynnosc
  <2>4. /\ w[1] \in Obiekt
        /\ \/ /\ w[2] = z[2]
              /\ w[1].msNastepnyAutoEfekt = z[1].msNastepnyAutoEfekt
           \/ /\ w[2] = Append(z[2], "LOSOWE_GADANIE")
              /\ CzasMinal(z[1])
              /\ w[1].msNastepnyAutoEfekt >= teraz + PrzerwaBaza
              /\ Bezczynnosc(audio)
    BY <2>1, <2>2, <2>3, NudaSkutek
  <2>5. CASE Milczy(audio, z)
    <3>1. CzasMinal(z[1]) => CzasMinal(audio)
      BY <2>2, <2>5 DEF Milczy, CzasMinal, Obiekt
    <3>2. Append(z[2], "LOSOWE_GADANIE") = <<"LOSOWE_GADANIE">>
      BY <2>5 DEF Milczy
    <3>3. QED
      BY <2>4, <2>5, <3>1, <3>2 DEF Milczy, Mowi, Skutek
  <2>6. CASE Mowi(audio, z, "PRZECHYL") /\ ~CzasMinal(z[1])
    BY <2>4, <2>6 DEF Mowi, Skutek
  <2>7. CASE MowiSmiec(audio, z)
    <3>1. Append(z[2], "LOSOWE_GADANIE") = DwaNaraz
      BY <2>7 DEF DwaNaraz, MowiSmiec
    <3>2. QED
      BY <2>4, <2>7, <3>1 DEF Skutek, MowiSmiec
  <2>8. QED
    BY <2>2, <2>5, <2>6, <2>7
<1>3. QED
  BY <1>1, <1>2

\* The same for the action: a robot that is not paired says nothing.
LEMMA HandlerSkutek ==
    ASSUME audio \in Obiekt, teraz \in Nat, ruchNaped \in Nat, ruchRadar \in Nat,
           audioHandler
    PROVE  Skutek(audio, <<audio', mowi'>>)
<1> DEFINE W(d, stan, los, los2, smiec) ==
             IF audio.robotSparowany THEN Wybor(d, stan, los, los2, smiec)
                                     ELSE <<audio, <<>>>>
<1>1. PICK d \in Odleglosci, stan \in StanyZyroskopu, los \in Losy, los2 \in Losy,
           smiec \in Smieci :
             /\ audio' = W(d, stan, los, los2, smiec)[1]
             /\ mowi' = W(d, stan, los, los2, smiec)[2]
  BY DEF audioHandler, Losy
<1>2. Skutek(audio, <<audio, <<>>>>)
  BY DEF Skutek, Milczy, Obiekt
<1>3. Skutek(audio, Wybor(d, stan, los, los2, smiec))
  BY WyborSkutek
<1>4. Skutek(audio, W(d, stan, los, los2, smiec))
  BY <1>2, <1>3
<1> HIDE DEF W
<1>5. QED
  BY <1>1, <1>4 DEF Skutek, Milczy, Mowi, MowiSmiec

-----------------------------------------------------------------------------
(* The theorems. *)

\* The fields keep their types, whatever indexEfektu holds.
THEOREM Typowanie == Spec => []TypeOK
<1>1. Init => TypeOK
  <2> SUFFICES ASSUME Init
               PROVE  TypeOK
    OBVIOUS
  <2>1. audio \in Obiekt
    BY DEF Init, Obiekt
  <2>2. mowi \in Seq(Nazwy)
    BY DEF Init
  <2>3. teraz \in 0 .. Koniec /\ przebieg \in 0 .. MaxPrzebieg
    BY DEF Init
  <2>4. cisza \in BOOLEAN /\ kiedy \in Nat /\ ruchNaped \in Nat /\ ruchRadar \in Nat
    BY DEF Init
  <2>5. QED
    BY <2>1, <2>2, <2>3, <2>4 DEF TypeOK, Obiekt, Nazwy
<1>2. TypeOK /\ [Next]_vars => TypeOK'
  <2> SUFFICES ASSUME TypeOK, [Next]_vars
               PROVE  TypeOK'
    OBVIOUS
  <2>0. audio \in Obiekt /\ teraz \in Nat /\ ruchNaped \in Nat /\ ruchRadar \in Nat
    BY DEF TypeOK, Obiekt
  <2>1. CASE audioHandler
    <3>1. Skutek(audio, <<audio', mowi'>>)
      BY <2>0, <2>1, HandlerSkutek
    <3>2. audio' \in Obiekt
      BY <3>1 DEF Skutek
    <3>3. mowi' \in Seq(Nazwy)
      <4>1. /\ <<>> \in Seq(Nazwy) /\ DwaNaraz \in Seq(Nazwy)
            /\ \A nazwa \in Nazwy : <<nazwa>> \in Seq(Nazwy)
        BY DEF DwaNaraz, Nazwy
      <4>2. \/ mowi' = <<>> \/ mowi' = DwaNaraz
            \/ \E nazwa \in Nazwy : mowi' = <<nazwa>>
        BY <3>1 DEF Skutek, Milczy, Mowi, MowiSmiec, Nazwy
      <4>3. QED
        BY <4>1, <4>2
    <3>4. QED
      BY <2>0, <2>1, <3>2, <3>3 DEF audioHandler, TypeOK, Obiekt, Nazwy
  <2>2. CASE RuchNapedu \/ RuchRadaru
    BY <2>0, <2>2 DEF RuchNapedu, RuchRadaru, historia, TypeOK
  <2>3. CASE PrzyciskEfektu \/ PolecenieUwzglednij \/ stanPolaczony \/ stanNiePolaczony
    <3>1. audio' \in Obiekt
      BY <2>0, <2>3 DEF PrzyciskEfektu, PolecenieUwzglednij, stanPolaczony,
                        stanNiePolaczony, Obiekt
    <3>2. UNCHANGED <<teraz, ruchNaped, ruchRadar, mowi, cisza, kiedy, przebieg>>
      BY <2>3 DEF PrzyciskEfektu, PolecenieUwzglednij, stanPolaczony,
                  stanNiePolaczony, historia
    <3>3. QED
      BY <3>1, <3>2 DEF TypeOK, Obiekt
  <2>4. CASE Czas
    BY <2>4 DEF Czas, TypeOK
  <2>5. CASE UNCHANGED vars
    BY <2>5 DEF vars, TypeOK
  <2>6. QED
    BY <2>1, <2>2, <2>3, <2>4, <2>5 DEF Next
<1>3. QED
  BY <1>1, <1>2, PTL DEF Spec

\* The next effect is never due before the pause after the last meant one is over.
NastepnyPoPrzerwie ==
    audio.msNastepnyAutoEfekt >= kiedy + PrzerwaBaza

\* Every step keeps the next effect a pause behind the last meant one.
LEMMA NastepnyPoPrzerwieKrok ==
    TypeOK /\ NastepnyPoPrzerwie /\ [Next]_vars => NastepnyPoPrzerwie'
<1> SUFFICES ASSUME TypeOK, NastepnyPoPrzerwie, [Next]_vars
             PROVE  NastepnyPoPrzerwie'
  OBVIOUS
<1> USE DEF NastepnyPoPrzerwie
<1>0. /\ audio \in Obiekt /\ teraz \in Nat /\ ruchNaped \in Nat /\ ruchRadar \in Nat
      /\ kiedy \in Nat
  BY DEF TypeOK, Obiekt
<1>1. CASE audioHandler
  <2>1. Skutek(audio, <<audio', mowi'>>)
    BY <1>0, <1>1, HandlerSkutek
  <2>2. audio'.msNastepnyAutoEfekt \in Nat /\ audio.msNastepnyAutoEfekt \in Nat
    BY <1>0, <2>1 DEF Skutek, Obiekt
  <2>3. kiedy' = IF Range(mowi') \subseteq {"SMIEC"} THEN kiedy ELSE teraz
    BY <1>1 DEF audioHandler
  <2>4. CASE Milczy(audio, <<audio', mowi'>>) \/ MowiSmiec(audio, <<audio', mowi'>>)
    <3>1. Range(mowi') \subseteq {"SMIEC"}
      BY <2>4 DEF Milczy, MowiSmiec, Range
    <3>2. QED
      BY <1>0, <2>2, <2>3, <2>4, <3>1 DEF Milczy, MowiSmiec
  <2>5. CASE ~(Milczy(audio, <<audio', mowi'>>) \/ MowiSmiec(audio, <<audio', mowi'>>))
    <3>1. audio'.msNastepnyAutoEfekt >= teraz + PrzerwaBaza
      BY <2>1, <2>5 DEF Skutek, Mowi
    <3>2. audio'.msNastepnyAutoEfekt >= audio.msNastepnyAutoEfekt
      BY <1>0, <2>1, <2>2, <2>5 DEF Skutek, Mowi, CzasMinal
    <3>3. QED
      BY <1>0, <2>2, <2>3, <3>1, <3>2
  <2>6. QED
    BY <2>4, <2>5
<1>2. CASE PrzyciskEfektu \/ PolecenieUwzglednij \/ stanPolaczony \/ stanNiePolaczony
  BY <1>0, <1>2 DEF PrzyciskEfektu, PolecenieUwzglednij, stanPolaczony,
                    stanNiePolaczony, historia, Obiekt
<1>3. CASE RuchNapedu \/ RuchRadaru \/ Czas \/ UNCHANGED vars
  BY <1>3 DEF RuchNapedu, RuchRadaru, Czas, vars, historia
<1>4. QED
  BY <1>1, <1>2, <1>3 DEF Next

\* Whatever indexEfektu holds and whichever branch speaks, nothing is said for
\* the base pause after an effect that the program means, and two effects in one
\* pass are garbage and then boredom.
THEOREM PrzerwaZawsze == Spec => PrzerwaMiedzyEfektami
<1>1. Init => NastepnyPoPrzerwie
  BY DEF Init, NastepnyPoPrzerwie
<1>2. TypeOK /\ NastepnyPoPrzerwie =>
        [audioHandler /\ mowi' # <<>> =>
           /\ teraz - kiedy > PrzerwaBaza
           /\ Len(mowi') = 1 \/ mowi' = <<"SMIEC", "LOSOWE_GADANIE">>]_vars
  <2> SUFFICES ASSUME TypeOK, NastepnyPoPrzerwie, audioHandler, mowi' # <<>>
               PROVE  /\ teraz - kiedy > PrzerwaBaza
                      /\ Len(mowi') = 1 \/ mowi' = <<"SMIEC", "LOSOWE_GADANIE">>
    OBVIOUS
  <2>1. /\ audio \in Obiekt /\ teraz \in Nat /\ ruchNaped \in Nat /\ ruchRadar \in Nat
        /\ kiedy \in Nat /\ audio.msNastepnyAutoEfekt \in Nat
    BY DEF TypeOK, Obiekt
  <2>2. Skutek(audio, <<audio', mowi'>>)
    BY <2>1, HandlerSkutek
  <2>3. /\ CzasMinal(audio)
        /\ mowi' = DwaNaraz \/ \E nazwa \in Nazwy : mowi' = <<nazwa>>
    BY <2>2 DEF Skutek, Milczy, Mowi, MowiSmiec, Nazwy
  <2>4. teraz - kiedy > PrzerwaBaza
    BY <2>1, <2>3 DEF CzasMinal, NastepnyPoPrzerwie
  <2>5. DwaNaraz = <<"SMIEC", "LOSOWE_GADANIE">>
    <3>1. /\ DwaNaraz \in Seq(Nazwy) /\ Len(DwaNaraz) = 2
          /\ DwaNaraz[1] = "SMIEC" /\ DwaNaraz[2] = "LOSOWE_GADANIE"
      <4>1. <<"SMIEC">> \in Seq(Nazwy) /\ Len(<<"SMIEC">>) = 1 /\ <<"SMIEC">>[1] = "SMIEC"
        BY DEF Nazwy
      <4>2. "LOSOWE_GADANIE" \in Nazwy
        BY DEF Nazwy
      <4>3. QED
        BY <4>1, <4>2 DEF DwaNaraz
    <3>2. QED
      BY <3>1
  <2>6. QED
    BY <2>3, <2>4, <2>5
<1>3. QED
  BY <1>1, <1>2, NastepnyPoPrzerwieKrok, Typowanie, PTL DEF Spec, PrzerwaMiedzyEfektami

\* Boredom is chosen only after real idleness, whatever indexEfektu holds.
THEOREM NudaZawsze == Spec => NudaPoBezczynnosci
<1>1. TypeOK =>
        [audioHandler /\ "LOSOWE_GADANIE" \in Range(mowi') =>
           teraz - Max({ruchNaped, ruchRadar, audio.msOstatniPrzyciskEfekt})
             >= NudaCzekaj]_vars
  <2> SUFFICES ASSUME TypeOK, audioHandler, "LOSOWE_GADANIE" \in Range(mowi')
               PROVE  Bezczynnosc(audio)
    BY DEF Bezczynnosc
  <2>1. audio \in Obiekt /\ teraz \in Nat /\ ruchNaped \in Nat /\ ruchRadar \in Nat
    BY DEF TypeOK, Obiekt
  <2>2. Skutek(audio, <<audio', mowi'>>)
    BY <2>1, HandlerSkutek
  <2>3. mowi' # <<>> /\ \A nazwa : mowi' = <<nazwa>> => nazwa = "LOSOWE_GADANIE"
    BY DEF Range
  <2>4. mowi' # <<"SMIEC">>
    BY DEF Range
  <2>5. QED
    BY <2>2, <2>3, <2>4 DEF Skutek, Milczy, Mowi, MowiSmiec
<1>2. QED
  BY <1>1, Typowanie, PTL DEF Spec, NudaPoBezczynnosci
=============================================================================
