---------------------------- MODULE ListaDowody ----------------------------
(***************************************************************************)
(* Proofs about the list of commands: that no cell is lost or used after   *)
(* it is freed, that the linked list implements the queue KolejkaFIFO, and *)
(* that commands keep their pause, for every heap, pause and length of a   *)
(* pass.                                                                   *)
(*                                                                         *)
(* The cells are reached by recursion along next.  The invariant names     *)
(* them by a sequence of addresses instead, a witness that every operation *)
(* changes in one place; least numbers (WFMin) then show that the          *)
(* recursion walks along the witness.                                      *)
(***************************************************************************)
EXTENDS ListaPolecen, FiniteSetTheorems, SequenceTheorems,
        WellFoundedInduction, TLAPS

-----------------------------------------------------------------------------
(* The cells in their order.                                               *)

\* k leads along next from head over all allocated cells to the end of the list.
Lancuch(k) ==
    /\ k \in [0 .. size - 1 -> Adresy]
    /\ \A i, j \in 0 .. size - 1 : k[i] = k[j] => i = j
    /\ DOMAIN pamiec = {k[i] : i \in 0 .. size - 1}
    /\ head = IF size = 0 THEN Brak ELSE k[0]
    /\ \A i \in 0 .. size - 1 :
          pamiec[k[i]].next = IF i + 1 < size THEN k[i + 1] ELSE Brak

Komorki == [polecenie : Polecenia, next : Adresy \cup {Brak}]

\* The list is a chain of well formed cells.
IndLista ==
    /\ size \in Nat
    /\ pamiec \in [DOMAIN pamiec -> Komorki]
    /\ \E k : Lancuch(k)

\* A set of natural numbers that is not empty has a least member.
LEMMA Najmniejsza ==
    ASSUME NEW T \in SUBSET Nat, T # {}
    PROVE  \E n \in T : \A m \in T : n <= m
<1> DEFINE Mniejsze == {p \in Nat \X Nat : p[1] < p[2]}
<1>1. IsWellFoundedOn(Mniejsze, Nat)
  BY NatLessThanWellFounded DEF OpToRel
<1>2. PICK n \in T : \A m \in T : ~(<<m, n>> \in Mniejsze)
  <2> HIDE DEF Mniejsze
  <2> QED
    BY <1>1, WFMin, Zenon
<1>3. \A m \in T : ~(m < n)
  BY <1>2
<1> QED
  BY <1>3

\* There are no more cells in a chain than addresses.
LEMMA DlugoscLancucha ==
    ASSUME IndLista, NEW k, Lancuch(k)
    PROVE  Cardinality(Adresy) \in Nat /\ size <= Cardinality(Adresy)
<1>1. k \in Injection(0 .. size - 1, Adresy)
  BY DEF Lancuch, Injection, IsInjective
<1>2. Cardinality(0 .. size - 1) <= Cardinality(Adresy)
  BY <1>1, FS_Injection, ListaAssumption DEF ListaAssumption
<1>3. Cardinality(0 .. size - 1) = size
  <2>1. size \in Nat /\ 0 \in Int /\ size - 1 \in Int
    BY DEF IndLista
  <2>2. Cardinality(0 .. size - 1) = IF 0 > size - 1 THEN 0 ELSE (size - 1) - 0 + 1
    BY <2>1, FS_Interval
  <2> QED
    BY <2>1, <2>2
<1> QED
  BY <1>2, <1>3, FS_CardinalityType, ListaAssumption DEF ListaAssumption

\* The recursion along next visits the chain and then stays at the end.
LEMMA KomorkaLancucha ==
    ASSUME IndLista, NEW k, Lancuch(k)
    PROVE  Komorka = [n \in 0 .. Cardinality(Adresy) |-> IF n < size THEN k[n] ELSE Brak]
<1> DEFINE N == Cardinality(Adresy)
           Krok(f) == [n \in 0 .. N |-> IF n = 0 THEN head
                         ELSE IF f[n - 1] = Brak THEN Brak ELSE pamiec[f[n - 1]].next]
           g == [n \in 0 .. N |-> IF n < size THEN k[n] ELSE Brak]
<1>1. N \in Nat /\ size \in Nat /\ size <= N
  BY DlugoscLancucha DEF IndLista
<1>2. g = Krok(g)
  <2>1. ASSUME NEW n \in 0 .. N
        PROVE  g[n] = Krok(g)[n]
    <3>1. CASE n = 0
      BY <1>1, <3>1 DEF Lancuch
    <3>2. CASE n # 0 /\ n - 1 < size
      BY <1>1, <3>2, ListaAssumption DEF Lancuch, ListaAssumption
    <3>3. CASE n # 0 /\ ~(n - 1 < size)
      BY <1>1, <3>3
    <3> QED
      BY <3>1, <3>2, <3>3
  <2> QED
    BY <2>1
<1>3. ASSUME NEW f, f = Krok(f)
      PROVE  f = g
  <2> DEFINE Rozne == {n \in 0 .. N : f[n] # g[n]}
  <2>1. CASE Rozne # {}
    <3>1. PICK n \in Rozne : \A m \in Rozne : n <= m
      <4> Rozne \subseteq Nat
        BY <1>1
      <4> QED
        BY <2>1, Najmniejsza
    <3>2. CASE n = 0
      BY <1>2, <1>3, <3>2
    <3>3. CASE n # 0
      <4>1. n - 1 \in 0 .. N /\ n - 1 \notin Rozne
        BY <1>1, <3>1, <3>3
      <4>2. f[n - 1] = g[n - 1]
        BY <4>1
      <4>3. f[n] = Krok(f)[n] /\ g[n] = Krok(g)[n]
        BY <1>2, <1>3
      <4>4. Krok(f)[n] = Krok(g)[n]
        BY <3>3, <4>2
      <4>5. f[n] = g[n]
        BY <4>3, <4>4, Zenon
      <4> QED
        BY <4>5
    <3> QED
      BY <3>2, <3>3
  <2>2. CASE Rozne = {}
    BY <1>3, <2>2
  <2> QED
    BY <2>1, <2>2
<1>4. Komorka = CHOOSE f : f = Krok(f)
  BY DEF Komorka
<1> HIDE DEF g, Krok
<1>5. Komorka = Krok(Komorka)
  BY <1>2, <1>4
<1>6. Komorka = g
  BY <1>3, <1>5
<1> QED
  BY <1>6 DEF g

\* What is reachable from head is what the chain visits.
LEMMA OsiagalneLancucha ==
    ASSUME IndLista, NEW k, Lancuch(k)
    PROVE  Osiagalne = {k[i] : i \in 0 .. size - 1}
<1>1. /\ Cardinality(Adresy) \in Nat /\ size \in Nat /\ size <= Cardinality(Adresy)
      /\ Brak \notin Adresy
  BY DlugoscLancucha, ListaAssumption DEF IndLista, ListaAssumption
<1>2. /\ DOMAIN Komorka = 0 .. Cardinality(Adresy)
      /\ \A n \in 0 .. Cardinality(Adresy) : Komorka[n] = IF n < size THEN k[n] ELSE Brak
  BY KomorkaLancucha
<1>3. \A i \in 0 .. size - 1 : k[i] \in Adresy
  BY DEF Lancuch
<1>4. ASSUME NEW x \in Osiagalne
      PROVE  x \in {k[i] : i \in 0 .. size - 1}
  <2>1. PICK n \in 0 .. Cardinality(Adresy) : x = Komorka[n] /\ x # Brak
    BY <1>2 DEF Osiagalne
  <2>2. n < size /\ x = k[n]
    BY <1>2, <2>1
  <2> QED
    BY <1>1, <2>2
<1>5. ASSUME NEW i \in 0 .. size - 1
      PROVE  k[i] \in Osiagalne
  <2>1. i \in 0 .. Cardinality(Adresy) /\ i < size
    BY <1>1
  <2>2. Komorka[i] = k[i] /\ k[i] # Brak
    BY <1>1, <1>2, <1>3, <2>1
  <2> QED
    BY <1>2, <2>1, <2>2 DEF Osiagalne
<1> QED
  BY <1>4, <1>5

\* A chain as long as size leaves no cell out and counts none twice.
LEMMA LancuchBezWycieku == IndLista => BezWycieku
<1> SUFFICES ASSUME IndLista PROVE BezWycieku
  OBVIOUS
<1>1. PICK k : Lancuch(k)
  BY DEF IndLista
<1>2. Osiagalne = DOMAIN pamiec
  BY <1>1, OsiagalneLancucha DEF Lancuch
<1>3. Cardinality(Osiagalne) = size
  <2> DEFINE b == [i \in 1 .. size |-> k[i - 1]]
  <2>1. size \in Nat /\ Osiagalne = {k[i] : i \in 0 .. size - 1}
    BY <1>1, OsiagalneLancucha DEF IndLista
  <2>2. b \in [1 .. size -> Osiagalne]
    BY <2>1
  <2>3. IsInjective(b)
    BY <1>1, <2>1 DEF Lancuch, IsInjective
  <2>4. \A x \in Osiagalne : \E i \in 1 .. size : b[i] = x
    <3> SUFFICES ASSUME NEW x \in Osiagalne PROVE \E i \in 1 .. size : b[i] = x
      OBVIOUS
    <3>1. PICK i \in 0 .. size - 1 : x = k[i]
      BY <2>1
    <3>2. i + 1 \in 1 .. size /\ b[i + 1] = x
      BY <2>1, <3>1
    <3> QED
      BY <3>2
  <2>5. b \in Bijection(1 .. size, Osiagalne)
    BY <2>2, <2>3, <2>4 DEF Bijection, Injection, Surjection
  <2> QED
    BY <2>1, <2>5, FS_CountingElements DEF ExistsBijection
<1> QED
  BY <1>2, <1>3 DEF BezWycieku

-----------------------------------------------------------------------------
(* The operations on the chain.                                            *)

\* dodaj follows next to the last cell of the chain.
LEMMA OstatniaLancucha ==
    ASSUME IndLista, NEW k, Lancuch(k), head # Brak
    PROVE  size > 0 /\ Ostatnia = k[size - 1]
<1>1. size \in Nat /\ size > 0 /\ Brak \notin Adresy
  BY ListaAssumption DEF IndLista, Lancuch, ListaAssumption
<1>2. Osiagalne = {k[i] : i \in 0 .. size - 1}
  BY OsiagalneLancucha
<1>3. k[size - 1] \in Osiagalne /\ pamiec[k[size - 1]].next = Brak
  BY <1>1, <1>2 DEF Lancuch
<1>4. ASSUME NEW a \in Osiagalne, pamiec[a].next = Brak
      PROVE  a = k[size - 1]
  <2>1. PICK i \in 0 .. size - 1 : a = k[i]
    BY <1>2
  <2>2. CASE i + 1 < size
    <3>1. k[i + 1] \in Adresy /\ pamiec[a].next = k[i + 1]
      BY <1>1, <2>1, <2>2 DEF Lancuch
    <3> QED
      BY <1>1, <1>4, <3>1
  <2>3. CASE i + 1 = size
    BY <1>1, <2>1, <2>3
  <2> QED
    BY <1>1, <2>2, <2>3
<1> QED
  BY <1>1, <1>3, <1>4 DEF Ostatnia

\* The primed forms of Lancuch and IndLista, spelt out for what an operation leaves.
LEMMA NowyLancuch ==
    ASSUME NEW k,
           size' \in Nat,
           pamiec' \in [DOMAIN pamiec' -> Komorki],
           k \in [0 .. size' - 1 -> Adresy],
           \A i, j \in 0 .. size' - 1 : k[i] = k[j] => i = j,
           DOMAIN pamiec' = {k[i] : i \in 0 .. size' - 1},
           head' = IF size' = 0 THEN Brak ELSE k[0],
           \A i \in 0 .. size' - 1 :
              pamiec'[k[i]].next = IF i + 1 < size' THEN k[i + 1] ELSE Brak
    PROVE  IndLista' /\ Lancuch(k)'
<1>1. Lancuch(k)'
  BY DEF Lancuch
<1> QED
  BY <1>1 DEF IndLista

\* A command is added at the end of the chain.
LEMMA DodajKrok ==
    ASSUME IndLista, NEW k, Lancuch(k),
           NEW a \in Adresy \ DOMAIN pamiec, NEW p \in Polecenia, dodaj(a, p),
           NEW kk, kk = [i \in 0 .. size |-> IF i = size THEN a ELSE k[i]]
    PROVE  /\ IndLista' /\ Lancuch(kk)'
           /\ size' = size + 1
           /\ \A i \in 0 .. size :
                 pamiec'[kk[i]].polecenie = IF i = size THEN p ELSE pamiec[k[i]].polecenie
<1> DEFINE nowa == [c \in DOMAIN pamiec \cup {a} |->
                       IF c = a THEN [polecenie |-> p, next |-> Brak] ELSE pamiec[c]]
<1>1. size \in Nat /\ size' = size + 1 /\ Brak \notin Adresy
  BY ListaAssumption DEF IndLista, dodaj, ListaAssumption
<1>2. nowa \in [DOMAIN pamiec \cup {a} -> Komorki]
  BY DEF IndLista, Komorki
<1>3. \A i \in 0 .. size - 1 : k[i] \in DOMAIN pamiec /\ k[i] # a /\ kk[i] = k[i]
  BY <1>1 DEF Lancuch
<1>4. kk[size] = a /\ kk \in [0 .. size -> Adresy]
  BY <1>1 DEF Lancuch
<1>5. \A i, j \in 0 .. size : kk[i] = kk[j] => i = j
  BY <1>1, <1>3, <1>4 DEF Lancuch
<1>6. DOMAIN pamiec \cup {a} = {kk[i] : i \in 0 .. size}
  <2>1. \A x \in DOMAIN pamiec : \E i \in 0 .. size : x = kk[i]
    BY <1>1, <1>3 DEF Lancuch
  <2>2. \A i \in 0 .. size : kk[i] \in DOMAIN pamiec \cup {a}
    <3> SUFFICES ASSUME NEW i \in 0 .. size PROVE kk[i] \in DOMAIN pamiec \cup {a}
      OBVIOUS
    <3>1. i = size \/ i \in 0 .. size - 1
      BY <1>1
    <3> QED
      BY <1>3, <1>4, <3>1
  <2> QED
    BY <1>1, <1>4, <2>1, <2>2
<1>7. /\ head' = kk[0]
      /\ DOMAIN pamiec' = DOMAIN pamiec \cup {a}
      /\ pamiec' \in [DOMAIN pamiec' -> Komorki]
      /\ \A i \in 0 .. size :
            pamiec'[kk[i]].next = IF i + 1 < size + 1 THEN kk[i + 1] ELSE Brak
  <2>1. CASE head = Brak
    <3>1. size = 0
      BY <1>1, <2>1 DEF Lancuch
    <3> QED
      BY <1>2, <1>4, <2>1, <3>1 DEF dodaj
  <2>2. CASE head # Brak
    <3>1. size > 0 /\ Ostatnia = k[size - 1] /\ size - 1 \in 0 .. size - 1
      BY <1>1, <2>2, OstatniaLancucha
    <3>2. head' = head /\ pamiec' = [nowa EXCEPT ![k[size - 1]].next = a]
      BY <2>2, <3>1 DEF dodaj
    <3>3. DOMAIN pamiec' = DOMAIN pamiec \cup {a}
      BY <3>2
    <3>4. pamiec' \in [DOMAIN pamiec' -> Komorki]
      <4>1. pamiec' = [c \in DOMAIN pamiec' |-> pamiec'[c]]
        BY <3>2
      <4>2. \A c \in DOMAIN pamiec' :
               pamiec'[c] = nowa[c] \/ pamiec'[c] = [nowa[c] EXCEPT !.next = a]
        BY <3>2, <3>3
      <4>3. \A c \in DOMAIN pamiec' : pamiec'[c] \in Komorki
        <5> SUFFICES ASSUME NEW c \in DOMAIN pamiec' PROVE pamiec'[c] \in Komorki
          OBVIOUS
        <5>1. nowa[c] \in Komorki
          BY <1>2, <3>3
        <5> HIDE DEF nowa
        <5> QED
          BY <4>2, <5>1 DEF Komorki
      <4> QED
        BY <4>1, <4>3
    <3>5. ASSUME NEW i \in 0 .. size
          PROVE  pamiec'[kk[i]].next = IF i + 1 < size + 1 THEN kk[i + 1] ELSE Brak
      <4>1. CASE i = size
        <5>1. a # k[size - 1]
          BY <1>3, <3>1
        <5>2. pamiec'[a] = nowa[a]
          BY <3>2, <5>1
        <5> QED
          BY <1>1, <1>4, <4>1, <5>2
      <4>2. CASE i = size - 1
        <5>1. pamiec'[k[size - 1]].next = a
          BY <1>2, <1>3, <3>1, <3>2 DEF Komorki
        <5> QED
          BY <1>1, <1>3, <1>4, <3>1, <4>2, <5>1
      <4>3. CASE i < size - 1
        <5>1. i \in 0 .. size - 1 /\ i + 1 \in 0 .. size - 1
          BY <1>1, <4>3
        <5>2. k[i] # k[size - 1]
          BY <1>1, <3>1, <4>3, <5>1 DEF Lancuch
        <5>3. pamiec'[k[i]] = pamiec[k[i]]
          BY <1>3, <3>2, <5>1, <5>2
        <5>4. pamiec[k[i]].next = k[i + 1]
          BY <1>1, <4>3, <5>1 DEF Lancuch
        <5> QED
          BY <1>1, <1>3, <4>3, <5>1, <5>3, <5>4
      <4> QED
        BY <1>1, <4>1, <4>2, <4>3
    <3>6. head' = kk[0]
      BY <1>1, <1>3, <3>1, <3>2 DEF Lancuch
    <3> QED
      BY <3>3, <3>4, <3>5, <3>6
  <2> QED
    BY <2>1, <2>2
<1>9. \A i \in 0 .. size : pamiec'[kk[i]].polecenie = nowa[kk[i]].polecenie
  <2>1. \A i \in 0 .. size : kk[i] \in DOMAIN nowa /\ nowa[kk[i]] \in Komorki
    BY <1>2, <1>6
  <2>2. CASE head = Brak
    BY <2>1, <2>2 DEF dodaj
  <2>3. CASE head # Brak
    <3>1. pamiec' = [nowa EXCEPT ![Ostatnia].next = a]
      BY <2>3 DEF dodaj
    <3> HIDE DEF nowa
    <3> QED
      BY <2>1, <3>1 DEF Komorki
  <2> QED
    BY <2>2, <2>3
<1>10. ASSUME NEW i \in 0 .. size
       PROVE  nowa[kk[i]].polecenie = IF i = size THEN p ELSE pamiec[k[i]].polecenie
  <2>1. i = size \/ i \in 0 .. size - 1
    BY <1>1
  <2> QED
    BY <1>1, <1>3, <1>4, <2>1
<1> HIDE DEF nowa
<1>8. IndLista' /\ Lancuch(kk)'
  <2>1. 0 .. size' - 1 = 0 .. size /\ size' # 0 /\ size' \in Nat
    BY <1>1
  <2>2. /\ kk \in [0 .. size' - 1 -> Adresy]
        /\ \A i, j \in 0 .. size' - 1 : kk[i] = kk[j] => i = j
        /\ DOMAIN pamiec' = {kk[i] : i \in 0 .. size' - 1}
    BY <1>4, <1>5, <1>6, <1>7, <2>1
  <2>3. /\ head' = IF size' = 0 THEN Brak ELSE kk[0]
        /\ \A i \in 0 .. size' - 1 :
              pamiec'[kk[i]].next = IF i + 1 < size' THEN kk[i + 1] ELSE Brak
    <3>1. head' = kk[0] /\ size' # 0
      BY <1>7, <2>1
    <3>2. ASSUME NEW i \in 0 .. size' - 1
          PROVE  pamiec'[kk[i]].next = IF i + 1 < size' THEN kk[i + 1] ELSE Brak
      <4>1. i \in 0 .. size
        BY <2>1
      <4> QED
        BY <1>1, <1>7, <4>1
    <3> QED
      BY <3>1, <3>2
  <2> QED
    BY <1>7, <2>1, <2>2, <2>3, NowyLancuch
<1> QED
  BY <1>1, <1>8, <1>9, <1>10

\* usun takes one cell out of the chain.
LEMMA UsunKrok ==
    ASSUME IndLista, NEW k, Lancuch(k),
           NEW index \in 0 .. size - 1, usun(index),
           NEW kk, kk = [i \in 0 .. size - 2 |-> IF i < index THEN k[i] ELSE k[i + 1]]
    PROVE  /\ IndLista' /\ Lancuch(kk)'
           /\ size' = size - 1
           /\ \A i \in 0 .. size - 2 : pamiec'[kk[i]].polecenie = pamiec[kk[i]].polecenie
<1>1. /\ size \in Nat /\ size > 0 /\ index \in 0 .. size - 1 /\ Brak \notin Adresy
      /\ head = k[0] /\ head \in Adresy /\ head # Brak
  <2>1. size \in Nat /\ size > 0 /\ 0 \in 0 .. size - 1
    BY DEF IndLista
  <2>2. head = k[0] /\ k[0] \in Adresy
    BY <2>1 DEF Lancuch
  <2> QED
    BY <2>1, <2>2, ListaAssumption DEF ListaAssumption
<1>2. size' = size - 1
  BY <1>1 DEF usun
<1> DEFINE usuwana == k[index]
<1>3. \A i \in 0 .. size - 1 : k[i] \in DOMAIN pamiec /\ k[i] \in Adresy
  BY <1>1 DEF Lancuch
<1>4. /\ kk \in [0 .. size - 2 -> Adresy]
      /\ \A i \in 0 .. size - 2 : kk[i] # usuwana
      /\ \A i, j \in 0 .. size - 2 : kk[i] = kk[j] => i = j
  <2>1. \A i \in 0 .. size - 2 :
           /\ kk[i] = k[IF i < index THEN i ELSE i + 1]
           /\ (IF i < index THEN i ELSE i + 1) \in 0 .. size - 1
    BY <1>1
  <2>2. \A i, j \in 0 .. size - 1 : k[i] = k[j] => i = j
    BY DEF Lancuch
  <2>3. kk \in [0 .. size - 2 -> Adresy]
    BY <1>1, <1>3
  <2>4. \A i \in 0 .. size - 2 : kk[i] # usuwana
    BY <1>1, <2>1, <2>2
  <2>5. \A i, j \in 0 .. size - 2 : kk[i] = kk[j] => i = j
    <3> SUFFICES ASSUME NEW i \in 0 .. size - 2, NEW j \in 0 .. size - 2, kk[i] = kk[j]
                 PROVE  i = j
      OBVIOUS
    <3>1. (IF i < index THEN i ELSE i + 1) = (IF j < index THEN j ELSE j + 1)
      BY <2>1, <2>2
    <3> QED
      BY <1>1, <3>1
  <2> QED
    BY <2>3, <2>4, <2>5
<1>5. DOMAIN pamiec \ {usuwana} = {kk[i] : i \in 0 .. size - 2}
  <2>1. ASSUME NEW x \in DOMAIN pamiec \ {usuwana}
        PROVE  \E i \in 0 .. size - 2 : x = kk[i]
    <3>1. PICK i \in 0 .. size - 1 : x = k[i]
      BY DEF Lancuch
    <3>2. CASE i < index
      BY <1>1, <3>1, <3>2
    <3>3. CASE i > index
      <4>1. i - 1 \in 0 .. size - 2 /\ ~(i - 1 < index) /\ (i - 1) + 1 = i
        BY <1>1, <3>1, <3>3
      <4>2. kk[i - 1] = k[i]
        BY <4>1
      <4> QED
        BY <3>1, <4>1, <4>2
    <3> QED
      BY <1>1, <3>1, <3>2, <3>3
  <2>2. \A i \in 0 .. size - 2 : kk[i] \in DOMAIN pamiec \ {usuwana}
    BY <1>1, <1>3, <1>4
  <2> QED
    BY <2>1, <2>2
<1>6. \A i \in 0 .. size - 1 :
         pamiec[k[i]].next = IF i + 1 < size THEN k[i + 1] ELSE Brak
  BY DEF Lancuch
<1>7. pamiec \in [DOMAIN pamiec -> Komorki]
  BY DEF IndLista
<1>8. /\ DOMAIN pamiec' = DOMAIN pamiec \ {usuwana}
      /\ pamiec' \in [DOMAIN pamiec' -> Komorki]
      /\ head' = IF size' = 0 THEN Brak ELSE kk[0]
      /\ \A i \in 0 .. size - 2 :
            /\ pamiec'[kk[i]].next = IF i + 1 < size' THEN kk[i + 1] ELSE Brak
            /\ pamiec'[kk[i]].polecenie = pamiec[kk[i]].polecenie
  <2>1. CASE index = 0
    <3>1. head' = pamiec[head].next /\ pamiec' = [c \in DOMAIN pamiec \ {head} |-> pamiec[c]]
      BY <1>1, <2>1 DEF usun, Zwolnij
    <3>2. usuwana = head
      BY <1>1, <2>1
    <3>3. \A i \in 0 .. size - 2 : kk[i] = k[i + 1] /\ i + 1 \in 0 .. size - 1
      BY <1>1, <2>1
    <3>4. head' = IF size' = 0 THEN Brak ELSE kk[0]
      BY <1>1, <1>2, <1>6, <3>1, <3>3
    <3>5. \A i \in 0 .. size - 2 : pamiec'[kk[i]] = pamiec[kk[i]]
      BY <1>5, <3>1, <3>2
    <3>6. \A i \in 0 .. size - 2 :
             pamiec'[kk[i]].next = IF i + 1 < size' THEN kk[i + 1] ELSE Brak
      <4> SUFFICES ASSUME NEW i \in 0 .. size - 2
                   PROVE  pamiec'[kk[i]].next = IF i + 1 < size' THEN kk[i + 1] ELSE Brak
        OBVIOUS
      <4>1. pamiec[k[i + 1]].next = IF (i + 1) + 1 < size THEN k[(i + 1) + 1] ELSE Brak
        BY <1>6, <3>3
      <4>2. i + 1 < size' => kk[i + 1] = k[(i + 1) + 1]
        BY <1>1, <1>2, <3>3
      <4>3. i + 1 < size' <=> (i + 1) + 1 < size
        BY <1>1, <1>2
      <4> QED
        BY <3>3, <3>5, <4>1, <4>2, <4>3
    <3> QED
      BY <1>7, <3>1, <3>2, <3>4, <3>5, <3>6
  <2>2. CASE index # 0
    <3> DEFINE poprzednia == k[index - 1]
    <3>1. index - 1 \in 0 .. size - 1 /\ Komorka[index - 1] = poprzednia
      <4>1. Cardinality(Adresy) \in Nat /\ size <= Cardinality(Adresy)
        BY DlugoscLancucha
      <4>2. index - 1 \in 0 .. size - 1 /\ index - 1 \in 0 .. Cardinality(Adresy)
        BY <1>1, <2>2, <4>1
      <4>3. Komorka[index - 1] = IF index - 1 < size THEN k[index - 1] ELSE Brak
        BY <4>2, KomorkaLancucha
      <4> QED
        BY <1>1, <4>2, <4>3
    <3>2. pamiec[poprzednia].next = usuwana
      BY <1>1, <1>6, <2>2, <3>1
    <3>3. /\ head' = head
          /\ pamiec' = Zwolnij(usuwana,
                          [pamiec EXCEPT ![poprzednia].next = pamiec[usuwana].next])
      BY <1>1, <2>2, <3>1, <3>2 DEF usun
    <3>4. poprzednia \in DOMAIN pamiec /\ poprzednia # usuwana
      BY <1>1, <1>3, <3>1 DEF Lancuch
    <3> HIDE DEF poprzednia, usuwana
    <3>5. /\ DOMAIN pamiec' = DOMAIN pamiec \ {usuwana}
          /\ \A c \in DOMAIN pamiec \ {usuwana} :
                pamiec'[c] = IF c = poprzednia
                             THEN [pamiec[c] EXCEPT !.next = pamiec[usuwana].next]
                             ELSE pamiec[c]
      BY <1>7, <3>3, <3>4 DEF Zwolnij
    <3>6. usuwana \in DOMAIN pamiec
      BY <1>1, <1>3 DEF usuwana
    <3>7. pamiec' \in [DOMAIN pamiec' -> Komorki]
      <4>1. pamiec' = [c \in DOMAIN pamiec' |-> pamiec'[c]]
        BY <3>3 DEF Zwolnij
      <4>2. \A c \in DOMAIN pamiec' : pamiec'[c] \in Komorki
        BY <1>7, <3>5, <3>6 DEF Komorki
      <4> QED
        BY <4>1, <4>2
    <3>8. head' = IF size' = 0 THEN Brak ELSE kk[0]
      BY <1>1, <1>2, <2>2, <3>3
    <3>9. ASSUME NEW i \in 0 .. size - 2
          PROVE  /\ pamiec'[kk[i]].next = IF i + 1 < size' THEN kk[i + 1] ELSE Brak
                 /\ pamiec'[kk[i]].polecenie = pamiec[kk[i]].polecenie
      <4>1. kk[i] \in DOMAIN pamiec \ {usuwana}
        BY <1>5
      <4>2. pamiec[usuwana].next = IF index + 1 < size THEN k[index + 1] ELSE Brak
        BY <1>1, <1>6 DEF usuwana
      <4>3. CASE i = index - 1
        <5>1. kk[i] = poprzednia
          BY <1>1, <4>3 DEF poprzednia
        <5>2. pamiec'[kk[i]] = [pamiec[kk[i]] EXCEPT !.next = pamiec[usuwana].next]
          BY <3>5, <4>1, <5>1
        <5>3. i + 1 < size' => kk[i + 1] = k[index + 1]
          BY <1>1, <1>2, <4>3
        <5>4. pamiec[kk[i]] \in Komorki
          BY <1>7, <4>1
        <5> QED
          BY <1>1, <1>2, <4>2, <4>3, <5>2, <5>3, <5>4 DEF Komorki
      <4>4. CASE i < index - 1
        <5>1. kk[i] = k[i] /\ i \in 0 .. size - 1 /\ kk[i + 1] = k[i + 1]
          BY <1>1, <4>4
        <5>2. kk[i] # poprzednia
          BY <1>1, <3>1, <4>4, <5>1 DEF Lancuch, poprzednia
        <5>3. pamiec'[kk[i]] = pamiec[kk[i]]
          BY <3>5, <4>1, <5>2
        <5> QED
          BY <1>1, <1>2, <1>6, <4>4, <5>1, <5>3
      <4>5. CASE i > index - 1
        <5>1. kk[i] = k[i + 1] /\ i + 1 \in 0 .. size - 1
          BY <1>1, <4>5
        <5>2. kk[i] # poprzednia
          BY <1>1, <3>1, <4>5, <5>1 DEF Lancuch, poprzednia
        <5>3. pamiec'[kk[i]] = pamiec[kk[i]]
          BY <3>5, <4>1, <5>2
        <5>4. i + 1 < size' => kk[i + 1] = k[(i + 1) + 1]
          BY <1>1, <1>2, <4>5
        <5>5. i + 1 < size' <=> (i + 1) + 1 < size
          BY <1>1, <1>2
        <5>6. pamiec[k[i + 1]].next = IF (i + 1) + 1 < size THEN k[(i + 1) + 1] ELSE Brak
          BY <1>6, <5>1
        <5> QED
          BY <5>1, <5>3, <5>4, <5>5, <5>6
      <4> QED
        BY <1>1, <4>3, <4>4, <4>5
    <3> QED
      BY <3>5, <3>7, <3>8, <3>9
  <2> QED
    BY <2>1, <2>2
<1> HIDE DEF usuwana
<1>9. IndLista' /\ Lancuch(kk)'
  <2>1. size' - 1 = size - 2 /\ size' \in Nat
    BY <1>1, <1>2
  <2>2. /\ kk \in [0 .. size' - 1 -> Adresy]
        /\ \A i, j \in 0 .. size' - 1 : kk[i] = kk[j] => i = j
        /\ DOMAIN pamiec' = {kk[i] : i \in 0 .. size' - 1}
    BY <1>4, <1>5, <1>8, <2>1
  <2>3. /\ head' = IF size' = 0 THEN Brak ELSE kk[0]
        /\ \A i \in 0 .. size' - 1 :
              pamiec'[kk[i]].next = IF i + 1 < size' THEN kk[i + 1] ELSE Brak
    BY <1>8, <2>1
  <2>4. pamiec' \in [DOMAIN pamiec' -> Komorki] /\ size' \in Nat
    BY <1>8, <2>1
  <2>5. Lancuch(kk)'
    BY <2>2, <2>3 DEF Lancuch
  <2> QED
    BY <2>4, <2>5 DEF IndLista
<1> QED
  BY <1>2, <1>8, <1>9

\* The list of commands is what the chain carries.
ZawartoscLancucha ==
    \A k : IndLista /\ Lancuch(k)
           => Zawartosc = [i \in 1 .. size |-> pamiec[k[i - 1]].polecenie]

\* This holds in every state.
LEMMA ZawartoscZgodna == ZawartoscLancucha
<1> SUFFICES ASSUME NEW k, IndLista, Lancuch(k)
             PROVE  Zawartosc = [i \in 1 .. size |-> pamiec[k[i - 1]].polecenie]
  BY DEF ZawartoscLancucha
<1>1. Cardinality(Adresy) \in Nat /\ size <= Cardinality(Adresy) /\ size \in Nat
  BY DlugoscLancucha DEF IndLista
<1>2. \A i \in 1 .. size : Komorka[i - 1] = k[i - 1]
  <2> SUFFICES ASSUME NEW i \in 1 .. size PROVE Komorka[i - 1] = k[i - 1]
    OBVIOUS
  <2>1. i - 1 \in 0 .. Cardinality(Adresy) /\ i - 1 < size
    BY <1>1
  <2> QED
    BY <2>1, KomorkaLancucha
<1> QED
  BY <1>2 DEF Zawartosc

-----------------------------------------------------------------------------
(* The list implements the queue.                                          *)

\* A successful dodaj appends the command to the queue.
LEMMA DodajKolejki ==
    ASSUME IndLista, NEW a \in Adresy \ DOMAIN pamiec, NEW p \in Polecenia, dodaj(a, p)
    PROVE  IndLista' /\ Zawartosc' = Append(Zawartosc, p)
<1>1. PICK k : Lancuch(k)
  BY DEF IndLista
<1>2. PICK kk : kk = [i \in 0 .. size |-> IF i = size THEN a ELSE k[i]]
  OBVIOUS
<1>3. IndLista' /\ Lancuch(kk)'
  BY <1>1, <1>2, DodajKrok
<1>4. Zawartosc = [i \in 1 .. size |-> pamiec[k[i - 1]].polecenie]
  BY <1>1, ZawartoscZgodna DEF ZawartoscLancucha
<1>5. Zawartosc' = [i \in 1 .. size' |-> pamiec'[kk[i - 1]].polecenie]
  <2>1. ZawartoscLancucha'
    BY ZawartoscZgodna, PTL
  <2> QED
    BY <1>3, <2>1 DEF ZawartoscLancucha
<1>6. /\ size \in Nat /\ size' = size + 1
      /\ \A j \in 0 .. size :
            pamiec'[kk[j]].polecenie = IF j = size THEN p ELSE pamiec[k[j]].polecenie
  BY <1>1, <1>2, DodajKrok DEF IndLista
<1>7. ASSUME NEW i \in 1 .. size + 1
      PROVE  pamiec'[kk[i - 1]].polecenie
                = IF i = size + 1 THEN p ELSE pamiec[k[i - 1]].polecenie
  <2>1. i - 1 \in 0 .. size
    BY <1>6
  <2> QED
    BY <1>6, <2>1
<1>8. Zawartosc' = Append(Zawartosc, p)
  <2>1. Len(Zawartosc) = size
    BY <1>4, <1>6
  <2> QED
    BY <1>4, <1>5, <1>6, <1>7, <2>1
<1> QED
  BY <1>3, <1>8

\* Usun of the queue, item by item.
LEMMA Usuniety ==
    ASSUME NEW S, NEW s \in Seq(S), NEW i \in 1 .. Len(s)
    PROVE  Kolejka!RemoveAt(s, i)
              = [j \in 1 .. Len(s) - 1 |-> IF j < i THEN s[j] ELSE s[j + 1]]
<1> DEFINE a == SubSeq(s, 1, i - 1)
           b == SubSeq(s, i + 1, Len(s))
<1>1. a = [j \in 1 .. i - 1 |-> s[j]] /\ Len(a) = i - 1 /\ a \in Seq(S)
  OBVIOUS
<1>2. /\ b = [j \in 1 .. Len(s) - i |-> s[j + i]] /\ Len(b) = Len(s) - i
      /\ b \in Seq(S)
  OBVIOUS
<1> HIDE DEF a, b
<1>3. /\ Len(a \o b) = Len(s) - 1
      /\ \A j \in 1 .. Len(s) - 1 : (a \o b)[j] = IF j < i THEN s[j] ELSE s[j + 1]
      /\ DOMAIN (a \o b) = 1 .. Len(s) - 1
      /\ a \o b = [j \in DOMAIN (a \o b) |-> (a \o b)[j]]
  BY <1>1, <1>2
<1>4. Kolejka!RemoveAt(s, i) = a \o b
  BY DEF Kolejka!RemoveAt, a, b
<1> QED
  BY <1>3, <1>4

\* The queue without its first command, item by item.
LEMMA Ogon ==
    ASSUME NEW S, NEW s \in Seq(S), Len(s) # 0
    PROVE  Tail(s) = [j \in 1 .. Len(s) - 1 |-> s[j + 1]]
<1>1. s # <<>>
  OBVIOUS
<1>2. /\ Tail(s) \in Seq(S) /\ Len(Tail(s)) = Len(s) - 1
      /\ \A j \in 1 .. Len(Tail(s)) : Tail(s)[j] = s[j + 1]
  BY <1>1, HeadTailProperties
<1> DEFINE o == Tail(s)
<1>3. o \in [1 .. Len(o) -> S]
  <2> HIDE DEF o
  <2>1. o \in Seq(S)
    BY <1>2 DEF o
  <2> QED
    BY <2>1, LenProperties
<1> QED
  BY <1>2, <1>3

\* usun of an index in range removes that command from the queue.
LEMMA UsunKolejki ==
    ASSUME IndLista, NEW index \in 0 .. size - 1, usun(index)
    PROVE  /\ IndLista'
           /\ Zawartosc \in Seq(Polecenia) /\ Len(Zawartosc) = size
           /\ Zawartosc' = Kolejka!RemoveAt(Zawartosc, index + 1)
<1>1. PICK k : Lancuch(k)
  BY DEF IndLista
<1>2. PICK kk : kk = [i \in 0 .. size - 2 |-> IF i < index THEN k[i] ELSE k[i + 1]]
  OBVIOUS
<1>3. /\ IndLista' /\ Lancuch(kk)'
      /\ size' = size - 1
      /\ \A i \in 0 .. size - 2 : pamiec'[kk[i]].polecenie = pamiec[kk[i]].polecenie
  BY <1>1, <1>2, UsunKrok
<1>4. Zawartosc = [i \in 1 .. size |-> pamiec[k[i - 1]].polecenie]
  BY <1>1, ZawartoscZgodna DEF ZawartoscLancucha
<1>5. Zawartosc' = [i \in 1 .. size' |-> pamiec'[kk[i - 1]].polecenie]
  <2>1. ZawartoscLancucha'
    BY ZawartoscZgodna, PTL
  <2> QED
    BY <1>3, <2>1 DEF ZawartoscLancucha
<1>6. size \in Nat /\ size' \in Nat
  BY <1>3 DEF IndLista
<1>7. Zawartosc \in Seq(Polecenia) /\ Len(Zawartosc) = size
  <2>1. \A i \in 1 .. size : pamiec[k[i - 1]].polecenie \in Polecenia
    <3> SUFFICES ASSUME NEW i \in 1 .. size PROVE pamiec[k[i - 1]].polecenie \in Polecenia
      OBVIOUS
    <3>1. i - 1 \in 0 .. size - 1
      BY <1>6
    <3>2. k[i - 1] \in DOMAIN pamiec
      BY <1>1, <3>1 DEF Lancuch
    <3> QED
      BY <3>2 DEF IndLista, Komorki
  <2> QED
    BY <1>4, <1>6, <2>1
<1>8. Kolejka!RemoveAt(Zawartosc, index + 1)
         = [j \in 1 .. size - 1 |->
               IF j < index + 1 THEN Zawartosc[j] ELSE Zawartosc[j + 1]]
  <2>1. index + 1 \in 1 .. Len(Zawartosc)
    BY <1>6, <1>7
  <2> QED
    BY <1>7, <2>1, Usuniety
<1>9. ASSUME NEW j \in 1 .. size - 1
      PROVE  pamiec'[kk[j - 1]].polecenie
                = IF j < index + 1 THEN Zawartosc[j] ELSE Zawartosc[j + 1]
  <2>1. j - 1 \in 0 .. size - 2 /\ j \in 1 .. size /\ j + 1 \in 1 .. size
    BY <1>6
  <2>2. pamiec'[kk[j - 1]].polecenie = pamiec[kk[j - 1]].polecenie
    BY <1>3, <2>1
  <2>3. kk[j - 1] = IF j - 1 < index THEN k[j - 1] ELSE k[(j + 1) - 1]
    BY <1>2, <1>6, <2>1
  <2>4. Zawartosc[j] = pamiec[k[j - 1]].polecenie
    BY <1>4, <2>1
  <2>5. Zawartosc[j + 1] = pamiec[k[(j + 1) - 1]].polecenie
    BY <1>4, <2>1
  <2>6. j - 1 < index <=> j < index + 1
    BY <1>6
  <2> QED
    BY <2>2, <2>3, <2>4, <2>5, <2>6
<1> QED
  BY <1>3, <1>5, <1>6, <1>7, <1>8, <1>9

\* What changes no cell does not change the queue.
LEMMA BezZmianKolejki ==
    ASSUME IndLista, UNCHANGED listaVars
    PROVE  IndLista' /\ Zawartosc' = Zawartosc
<1>1. PICK k : Lancuch(k)
  BY DEF IndLista
<1>2. pamiec' = pamiec /\ head' = head /\ size' = size
  BY DEF listaVars
<1>3. Lancuch(k)'
  BY <1>1, <1>2 DEF Lancuch
<1>4. IndLista'
  BY <1>2, <1>3 DEF IndLista
<1>5. Zawartosc = [i \in 1 .. size |-> pamiec[k[i - 1]].polecenie]
  BY <1>1, ZawartoscZgodna DEF ZawartoscLancucha
<1>6. Zawartosc' = [i \in 1 .. size' |-> pamiec'[k[i - 1]].polecenie]
  <2>1. ZawartoscLancucha'
    BY ZawartoscZgodna, PTL
  <2> QED
    BY <1>3, <1>4, <2>1 DEF ZawartoscLancucha
<1> QED
  BY <1>2, <1>4, <1>5, <1>6

\* usun removes one command, or its index is out of range.
LEMMA UsunAlboNic ==
    ASSUME IndLista, NEW index \in Int, usun(index)
    PROVE  \/ index \in 0 .. size - 1
           \/ UNCHANGED listaVars
BY DEF usun

\* What is sent is the head of the queue, and the queue loses just that.
LEMMA ObsluzKolejki ==
    ASSUME IndLista, obsluzPierwsze
    PROVE  /\ IndLista'
           /\ Kolejka!Wykonaj \/ (Zawartosc' = Zawartosc /\ wyslane' = wyslane)
<1>1. CASE size = 0
  BY <1>1, BezZmianKolejki DEF obsluzPierwsze, listaVars
<1>2. CASE size # 0
  <2>1. size \in Nat /\ 0 \in 0 .. size - 1 /\ usun(0) /\ 1 \in 1 .. size
    BY <1>2 DEF obsluzPierwsze, IndLista
  <2>2. /\ IndLista'
        /\ Zawartosc \in Seq(Polecenia) /\ Len(Zawartosc) = size
        /\ Zawartosc' = Kolejka!RemoveAt(Zawartosc, 0 + 1)
    BY <2>1, UsunKolejki
  <2>3. Zawartosc' = Tail(Zawartosc)
    <3>1. Kolejka!RemoveAt(Zawartosc, 1)
             = [j \in 1 .. size - 1 |->
                   IF j < 1 THEN Zawartosc[j] ELSE Zawartosc[j + 1]]
      BY <2>1, <2>2, Usuniety
    <3>2. Tail(Zawartosc) = [j \in 1 .. size - 1 |-> Zawartosc[j + 1]]
      BY <2>1, <2>2, Ogon
    <3> QED
      BY <2>1, <2>2, <3>1, <3>2
  <2>4. wyslane' = Head(Zawartosc)
    <3>1. PICK k : Lancuch(k)
      BY DEF IndLista
    <3>2. Zawartosc = [i \in 1 .. size |-> pamiec[k[i - 1]].polecenie]
      BY <3>1, ZawartoscZgodna DEF ZawartoscLancucha
    <3>3. Head(Zawartosc) = Zawartosc[1] /\ Zawartosc[1] = pamiec[k[0]].polecenie
      BY <2>1, <2>2, <3>2
    <3>4. wyslane' = pamiec[head].polecenie /\ head = k[0]
      BY <1>2, <3>1 DEF obsluzPierwsze, Lancuch
    <3> QED
      BY <3>3, <3>4
  <2>5. Zawartosc # <<>>
    BY <2>1, <2>2
  <2> QED
    BY <2>2, <2>3, <2>4, <2>5 DEF Kolejka!Wykonaj
<1> QED
  BY <1>1, <1>2

\* Every step of the list is a step of the queue or leaves it alone.
LEMMA KrokListy == IndLista /\ [Next]_vars => IndLista' /\ [Kolejka!Next]_(Kolejka!vars)
<1> SUFFICES ASSUME IndLista, [Next]_vars
             PROVE  IndLista' /\ [Kolejka!Next]_(Kolejka!vars)
  OBVIOUS
<1>1. CASE Dodaj
  <2>1. wyslane' = wyslane
    BY <1>1 DEF Dodaj
  <2>2. CASE \E a \in Adresy \ DOMAIN pamiec, p \in Polecenia : dodaj(a, p)
    <3>1. PICK a \in Adresy \ DOMAIN pamiec, p \in Polecenia : dodaj(a, p)
      BY <2>2
    <3>2. IndLista' /\ Zawartosc' = Append(Zawartosc, p)
      BY <3>1, DodajKolejki
    <3> QED
      BY <2>1, <3>2 DEF Kolejka!Next, Kolejka!Dodaj
  <2>3. CASE OdmowaPamieci
    BY <2>1, <2>3, BezZmianKolejki DEF OdmowaPamieci, Kolejka!vars
  <2> QED
    BY <1>1, <2>2, <2>3 DEF Dodaj
<1>2. CASE Usun
  <2>1. wyslane' = wyslane
    BY <1>2 DEF Usun
  <2>2. PICK index \in -1 .. Cardinality(Adresy) : usun(index)
    BY <1>2 DEF Usun
  <2>3. index \in Int
    BY FS_CardinalityType, ListaAssumption DEF ListaAssumption
  <2>4. CASE index \in 0 .. size - 1
    <3>1. /\ IndLista'
          /\ Zawartosc \in Seq(Polecenia) /\ Len(Zawartosc) = size
          /\ Zawartosc' = Kolejka!RemoveAt(Zawartosc, index + 1)
      BY <2>2, <2>4, UsunKolejki
    <3>2. index + 1 \in DOMAIN Zawartosc
      BY <2>4, <3>1 DEF IndLista
    <3> QED
      BY <2>1, <3>1, <3>2 DEF Kolejka!Next, Kolejka!Usun
  <2>5. CASE UNCHANGED listaVars
    BY <2>1, <2>5, BezZmianKolejki DEF Kolejka!vars
  <2> QED
    BY <2>2, <2>3, <2>4, <2>5, UsunAlboNic
<1>3. CASE ObsluzPolecenia
  BY <1>3, ObsluzKolejki DEF ObsluzPolecenia, Kolejka!Next, Kolejka!vars
<1>4. CASE ZaWczesnie \/ Czas \/ UNCHANGED vars
  <2>1. UNCHANGED listaVars /\ wyslane' = wyslane
    BY <1>4 DEF ZaWczesnie, Czas, vars, listaVars
  <2> QED
    BY <2>1, BezZmianKolejki DEF Kolejka!vars
<1> QED
  BY <1>1, <1>2, <1>3, <1>4 DEF Next, Przebieg

\* The empty list is a chain without cells and the empty queue.
LEMMA PoczatekListy == Init => IndLista /\ Kolejka!Init
<1> SUFFICES ASSUME Init PROVE IndLista /\ Kolejka!Init
  OBVIOUS
<1>1. size = 0 /\ pamiec = <<>> /\ head = Brak /\ wyslane = Brak
  BY DEF Init
<1>2. Lancuch(<<>>)
  BY <1>1 DEF Lancuch
<1>3. IndLista
  BY <1>1, <1>2 DEF IndLista
<1>4. Zawartosc = <<>>
  BY <1>1 DEF Zawartosc
<1> QED
  BY <1>1, <1>3, <1>4 DEF Kolejka!Init

\* No cell is lost and none is used after it is freed, whatever is added, refused,
\* removed or sent, in a heap of any size.
THEOREM NicNieCieknie == Spec => []BezWycieku
<1>1. Init => IndLista
  BY PoczatekListy
<1>2. IndLista /\ [Next]_vars => IndLista'
  BY KrokListy
<1>3. IndLista => BezWycieku
  BY LancuchBezWycieku
<1> QED
  BY <1>1, <1>2, <1>3, PTL DEF Spec

\* The linked list implements the queue the players are promised.
THEOREM ListaJestKolejka == Spec => JestKolejka
<1>1. Init => IndLista /\ Kolejka!Init
  BY PoczatekListy
<1>2. IndLista /\ [Next]_vars => IndLista' /\ [Kolejka!Next]_(Kolejka!vars)
  BY KrokListy
<1> QED
  BY <1>1, <1>2, PTL DEF Spec, JestKolejka, Kolejka!Spec

-----------------------------------------------------------------------------
(* The pause.                                                              *)

BezPrzewiniecia == Koniec + MsCzekaj < Zakres

\* The next time is not before the pause after the last command is over.
IndPrzerwa ==
    /\ teraz \in 0 .. Koniec
    /\ msOstatnioWykonane \in Nat
    /\ odWyslania \in 0 .. MsCzekaj
    /\ odWyslania < MsCzekaj => msOstatnioWykonane >= teraz + MsCzekaj - odWyslania

\* Commands are sent a pause apart, in the window in which millis() does not wrap: it
\* is counted from the moment of sending, however late the pass that sends comes.
THEOREM PrzerwaZawsze ==
    ASSUME BezPrzewiniecia
    PROVE  Spec => PrzerwaZachowana
<1> USE DEF IndPrzerwa
<1>0. /\ MsCzekaj \in Nat /\ Koniec \in Nat /\ Zakres \in Nat
      /\ Koniec + MsCzekaj < Zakres
  BY ListaAssumption DEF ListaAssumption, BezPrzewiniecia
<1>1. Init => IndPrzerwa
  BY <1>0 DEF Init
<1>2. ASSUME IndPrzerwa, [Next]_vars
      PROVE  IndPrzerwa'
  <2>1. CASE Dodaj
    BY <1>2, <2>1 DEF Dodaj
  <2>2. CASE Usun
    BY <1>2, <2>2 DEF Usun
  <2>3. CASE ObsluzPolecenia
    <3>1. msOstatnioWykonane' = teraz + MsCzekaj /\ teraz' = teraz
      BY <1>0, <1>2, <2>3 DEF ObsluzPolecenia
    <3>2. odWyslania' \in {0, odWyslania}
      BY <2>3 DEF ObsluzPolecenia, obsluzPierwsze
    <3>3. CASE odWyslania' = 0
      BY <1>0, <1>2, <3>1, <3>3
    <3>4. CASE odWyslania' = odWyslania
      BY <1>0, <1>2, <3>1, <3>4
    <3> QED
      BY <3>2, <3>3, <3>4
  <2>4. CASE ZaWczesnie \/ UNCHANGED vars
    BY <1>2, <2>4 DEF ZaWczesnie, vars
  <2>5. CASE Czas
    <3>1. teraz' = teraz + 1 /\ teraz' <= Koniec
      BY <1>0, <1>2, <2>5 DEF Czas
    <3> QED
      BY <1>0, <1>2, <2>5, <3>1 DEF Czas
  <2> QED
    BY <1>2, <2>1, <2>2, <2>3, <2>4, <2>5 DEF Next, Przebieg
<1>3. IndPrzerwa => ((size > 0 /\ ObsluzPolecenia) => odWyslania >= MsCzekaj)
  BY <1>0 DEF ObsluzPolecenia
<1> QED
  BY <1>1, <1>2, <1>3, PTL DEF Spec, PrzerwaZachowana
=============================================================================
