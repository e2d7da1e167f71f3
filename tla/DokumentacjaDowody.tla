------------------------- MODULE DokumentacjaDowody -------------------------
(***************************************************************************)
(* Proofs about the scripts of the documentation: the search panel, for    *)
(* any texts, filters and timers; the folding table, for any table; the    *)
(* page of results, for any list and any texts; and the page with both.    *)
(***************************************************************************)
EXTENDS PoleSzukania, Strona, SequenceTheorems, WellFoundedInduction, TLAPS

\* A set of natural numbers that is not empty has a least member.
LEMMA Najmniejsza ==
    ASSUME NEW T \in SUBSET Nat, T # {}
    PROVE  \E n \in T : \A m \in T : n <= m
<1> DEFINE Mniejsze == {p \in Nat \X Nat : p[1] < p[2]}
<1>1. IsWellFoundedOn(Mniejsze, Nat)
  BY NatLessThanWellFounded DEF OpToRel
<1>2. PICK n \in T : \A m \in T : ~(<<m, n>> \in Mniejsze)
  <2> HIDE DEF Mniejsze
  <2> QED
    BY <1>1, WFMin, Zenon
<1>3. \A m \in T : ~(m < n)
  BY <1>2
<1> QED
  BY <1>3

-----------------------------------------------------------------------------
(* The panel (PoleSzukania).  Every handler is shown to map a panel to a   *)
(* panel, to keep Dobry, and to leave the timers of the menu alone; the    *)
(* two handlers of the menu, which do not, come last.  An invariant then   *)
(* holds because every event is a composition of handlers.                 *)


\* Uspiony, of any panel.
Dobry(p) ==
    /\ p.aktywny = p.searchActive
    /\ ~p.aktywny => p.pole = Etykieta /\ p.fokus # "pole"

\* What a handler that has nothing to do with the menu guarantees.
Zachowuje(p, q) ==
    /\ q \in Panele
    /\ Dobry(p) => Dobry(q)
    /\ q.chowania = p.chowania /\ q.hideTimeout = p.hideTimeout
    /\ q.szukania \subseteq p.szukania

\* Two handlers, one after the other.
LEMMA Przechodnie ==
    ASSUME NEW p, NEW q, NEW s, Zachowuje(p, q), Zachowuje(q, s)
    PROVE  Zachowuje(p, s)
BY DEF Zachowuje

\* The bound, for steps that need no more of the assumption.
LEMMA Granica == MaxZdarzen \in Nat
BY PoleAssumption

\* The empty text and the label are texts.
LEMMA TekstyStale == "" \in Teksty /\ Etykieta \in Teksty
BY PoleAssumption

\* There is a filter.
LEMMA FiltryLiczba == Filtry \in Nat \ {0}
BY PoleAssumption

\* What Dobry says but for the focus, which is about to move.
Prawie(p) == p.aktywny = p.searchActive /\ (~p.aktywny => p.pole = Etykieta)

\* What Activate does to a panel that is Prawie, woken up or put to sleep.
Obudzony(p, q) ==
    /\ q \in Panele
    /\ Prawie(p) => Dobry(q)
    /\ q.chowania = p.chowania /\ q.hideTimeout = p.hideTimeout
    /\ q.szukania = p.szukania /\ q.fokus = p.fokus

\* Activation puts a panel in order.
LEMMA ActivateBudzi ==
    ASSUME NEW p \in Panele
    PROVE  Obudzony(p, Activate(p, TRUE))
BY PoleAssumption DEF Activate, Panele, Dobry, Prawie, Obudzony

\* So does deactivation without the focus.
LEMMA ActivateUsypia ==
    ASSUME NEW p \in Panele, p.fokus # "pole"
    PROVE  Obudzony(p, Activate(p, FALSE))
BY PoleAssumption DEF Activate, Panele, Dobry, Prawie, Obudzony

\* A change of focus, with the handlers it calls.
LEMMA SkupZachowuje ==
    ASSUME NEW p \in Panele, NEW gdzie \in {"brak", "pole", "filtr", "wyniki"}
    PROVE  Zachowuje(p, Skup(p, gdzie)) /\ Skup(p, gdzie).fokus = gdzie
<1> DEFINE q == [p EXCEPT !.fokus = gdzie]
<1>1. q \in Panele
  BY DEF Panele
<1>2. CASE p.fokus = gdzie
  BY <1>2 DEF Skup, Zachowuje, Panele
<1>3. CASE p.fokus # gdzie /\ p.fokus = "pole"
  <2>1. Skup(p, gdzie) = Activate(q, FALSE)
    BY <1>3 DEF Skup, OnSearchFieldFocus
  <2>2. q.fokus = gdzie /\ gdzie # "pole"
    BY <1>3 DEF Panele
  <2>3. /\ q.pole = p.pole /\ q.aktywny = p.aktywny /\ q.searchActive = p.searchActive
        /\ q.chowania = p.chowania /\ q.hideTimeout = p.hideTimeout
        /\ q.szukania = p.szukania
    BY DEF Panele
  <2> HIDE DEF q
  <2>4. Obudzony(q, Activate(q, FALSE))
    BY <1>1, <2>2, ActivateUsypia
  <2> QED
    BY <2>1, <2>2, <2>3, <2>4 DEF Zachowuje, Obudzony, Prawie, Dobry
<1>4. CASE p.fokus # gdzie /\ p.fokus # "pole" /\ gdzie = "pole"
  <2>1. Skup(p, gdzie) = Activate(q, TRUE)
    BY <1>4 DEF Skup, OnSearchFieldFocus
  <2>2. q.fokus = gdzie
    BY DEF Panele
  <2>3. /\ q.pole = p.pole /\ q.aktywny = p.aktywny /\ q.searchActive = p.searchActive
        /\ q.chowania = p.chowania /\ q.hideTimeout = p.hideTimeout
        /\ q.szukania = p.szukania
    BY DEF Panele
  <2> HIDE DEF q
  <2>4. Obudzony(q, Activate(q, TRUE))
    BY <1>1, ActivateBudzi
  <2> QED
    BY <2>1, <2>2, <2>3, <2>4 DEF Zachowuje, Obudzony, Prawie, Dobry
<1>5. CASE p.fokus # gdzie /\ p.fokus # "pole" /\ gdzie # "pole"
  <2>1. Skup(p, gdzie) = q
    BY <1>5 DEF Skup
  <2> QED
    BY <1>1, <1>5, <2>1 DEF Zachowuje, Dobry, Panele
<1> QED
  BY <1>2, <1>3, <1>4, <1>5

\* A search.
LEMMA SearchZachowuje ==
    ASSUME NEW p \in Panele
    PROVE  Zachowuje(p, Search(p))
<1>1. Przyciety[p.pole] \in Teksty
  BY PoleAssumption DEF Panele
<1>2. CASE ~Dziala(p)
  BY <1>2 DEF Search, Zachowuje, Dobry, Panele
<1>3. CASE Dziala(p)
  <2>1. p.searchIndex \in 0 .. Filtry - 1
    BY <1>3, FiltryLiczba DEF Dziala, SelectItemCount, Panele
  <2>2. Adres(p.searchIndex, Przyciety[p.pole]) \in Adresy
    BY <1>1, <2>1, PoleAssumption DEF Adres, Adresy
  <2> DEFINE a == Adres(p.searchIndex, Przyciety[p.pole])
             t == Przyciety[p.pole]
  <2>3. Search(p) = [p EXCEPT !.keyTimeout = 0, !.adres = a, !.okno = TRUE,
                              !.lastSearchValue = t]
    BY <1>3 DEF Search
  <2>4. a \in Adresy /\ t \in Teksty
    BY <1>1, <2>2
  <2> HIDE DEF a, t
  <2> QED
    BY <2>3, <2>4 DEF Zachowuje, Dobry, Panele
<1> QED
  BY <1>2, <1>3

\* The choice of a filter.
LEMMA OnSelectItemZachowuje ==
    ASSUME NEW p \in Panele, NEW id \in 0 .. Filtry
    PROVE  Zachowuje(p, OnSelectItem(p, id))
<1> DEFINE z == {j \in 0 .. Filtry - 1 : j = id}
           q == [p EXCEPT !.searchIndex = id, !.znak = z]
<1>1. SelectItemSet([p EXCEPT !.searchIndex = id], id) = q
  BY DEF SelectItemSet, SelectItemCount, Panele
<1>2. z \in SUBSET (0 .. Filtry - 1)
  OBVIOUS
<1> HIDE DEF z
<1>3. q \in Panele /\ Zachowuje(p, q)
  BY <1>2 DEF Zachowuje, Dobry, Panele
<1> HIDE DEF q
<1>4. OnSelectItem(p, id) \in {q, Search(q)}
  BY <1>1 DEF OnSelectItem
<1> QED
  BY <1>3, <1>4, SearchZachowuje, Przechodnie

\* The filter menu closes.
LEMMA CloseSelectionWindowZachowuje ==
    ASSUME NEW p \in Panele
    PROVE  Zachowuje(p, CloseSelectionWindow(p))
BY DEF CloseSelectionWindow, Zachowuje, Dobry, Panele

\* The results close.
LEMMA CloseResultsWindowZachowuje ==
    ASSUME NEW p \in Panele, p.fokus # "pole"
    PROVE  Zachowuje(p, CloseResultsWindow(p))
<1> DEFINE q == [p EXCEPT !.okno = FALSE]
<1>1. /\ q \in Panele /\ q.fokus = p.fokus
      /\ q.pole = p.pole /\ q.aktywny = p.aktywny /\ q.searchActive = p.searchActive
      /\ q.chowania = p.chowania /\ q.hideTimeout = p.hideTimeout
      /\ q.szukania = p.szukania
  BY DEF Panele
<1>2. CloseResultsWindow(p) = Activate(q, FALSE)
  BY DEF CloseResultsWindow
<1> HIDE DEF q
<1>3. Obudzony(q, Activate(q, FALSE))
  BY <1>1, ActivateUsypia
<1> QED
  BY <1>1, <1>2, <1>3 DEF Zachowuje, Obudzony, Prawie, Dobry

\* A key in the filter menu.
LEMMA OnSearchSelectKeyZachowuje ==
    ASSUME NEW p \in Panele, NEW k
    PROVE  Zachowuje(p, OnSearchSelectKey(p, k))
<1>1. p.searchIndex \in 0 .. Filtry
  BY DEF Panele
<1>2. CASE k = "dol" /\ p.searchIndex < SelectItemCount
  <2>1. p.searchIndex + 1 \in 0 .. Filtry
    BY <1>1, <1>2, FiltryLiczba DEF SelectItemCount
  <2> QED
    BY <1>2, <2>1, OnSelectItemZachowuje DEF OnSearchSelectKey
<1>3. CASE k = "gora" /\ p.searchIndex > 0
  <2>1. p.searchIndex - 1 \in 0 .. Filtry
    BY <1>1, <1>3, FiltryLiczba
  <2> QED
    BY <1>3, <2>1, OnSelectItemZachowuje DEF OnSearchSelectKey
<1>4. CASE k \in {"enter", "escape"}
  <2> DEFINE q == OnSelectItem(p, p.searchIndex)
  <2>1. q \in Panele /\ Zachowuje(p, q)
    BY <1>1, OnSelectItemZachowuje DEF Zachowuje
  <2>2. OnSearchSelectKey(p, k) \in {q, Skup(CloseSelectionWindow(q), "pole")}
    BY <1>4 DEF OnSearchSelectKey
  <2> HIDE DEF q
  <2>3. CloseSelectionWindow(q) \in Panele /\ Zachowuje(q, CloseSelectionWindow(q))
    BY <2>1, CloseSelectionWindowZachowuje DEF Zachowuje
  <2>4. Zachowuje(CloseSelectionWindow(q), Skup(CloseSelectionWindow(q), "pole"))
    BY <2>3, SkupZachowuje
  <2> QED
    BY <2>1, <2>2, <2>3, <2>4, Przechodnie
<1>5. CASE /\ ~(k = "dol" /\ p.searchIndex < SelectItemCount)
           /\ ~(k = "gora" /\ p.searchIndex > 0)
           /\ k \notin {"enter", "escape"}
  BY <1>5 DEF OnSearchSelectKey, Zachowuje
<1> QED
  BY <1>2, <1>3, <1>4, <1>5

\* A free timer exists as long as not all run.
LEMMA NowyZegar ==
    ASSUME NEW zajete, ~(Zegary \subseteq zajete)
    PROVE  Nowy(zajete) \in Zegary \ zajete
BY DEF Nowy

\* The menu: its timer is cleared or started.
LEMMA OnSearchSelectShowPanel ==
    ASSUME NEW p \in Panele
    PROVE  LET q == OnSearchSelectShow(p) IN
           /\ q \in Panele /\ (Dobry(p) => Dobry(q)) /\ q.szukania = p.szukania
           /\ q.chowania = p.chowania \ {p.hideTimeout} /\ q.hideTimeout = 0
BY DEF OnSearchSelectShow, Dobry, Panele

\* The menu: a timer to close it is started.
LEMMA OnSearchSelectHidePanel ==
    ASSUME NEW p \in Panele, ~(Zegary \subseteq p.chowania \cup {p.hideTimeout})
    PROVE  LET q == OnSearchSelectHide(p) IN
           /\ q \in Panele /\ (Dobry(p) => Dobry(q)) /\ q.szukania = p.szukania
           /\ q.chowania = p.chowania \cup {q.hideTimeout}
<1> DEFINE z == Nowy(p.chowania \cup {p.hideTimeout})
<1>1. z \in Zegary
  BY NowyZegar
<1> DEFINE q == [p EXCEPT !.hideTimeout = z, !.chowania = @ \cup {z}]
<1>2. OnSearchSelectHide(p) = q
  BY DEF OnSearchSelectHide
<1> HIDE DEF z
<1>3. q \in Panele /\ (Dobry(p) => Dobry(q)) /\ q.szukania = p.szukania
  BY <1>1 DEF Dobry, Panele
<1>4. q.chowania = p.chowania \cup {q.hideTimeout}
  BY <1>1 DEF Panele
<1> HIDE DEF q
<1> QED
  BY <1>2, <1>3, <1>4

\* The field: a timer may be started.  A key in the field leaves a panel as Wpis says.
Wpis(p, q) ==
    /\ q \in Panele
    /\ Dobry(p) => Dobry(q)
    /\ \/ q.chowania = p.chowania /\ q.hideTimeout = p.hideTimeout
       \/ q.chowania = p.chowania \ {p.hideTimeout} /\ q.hideTimeout = 0

\* The text in the field has changed, or not.
LEMMA ZmianaPanel ==
    ASSUME NEW p \in Panele, p.szukania # Zegary
    PROVE  Wpis(p, Zmiana(p))
<1> DEFINE z == Nowy(p.szukania)
<1>1. z \in Zegary
  BY NowyZegar DEF Panele
<1>2. Zmiana(p) \in {p, [p EXCEPT !.okno = FALSE, !.lastSearchValue = ""],
                     [p EXCEPT !.keyTimeout = z, !.szukania = @ \cup {z}]}
  BY DEF Zmiana
<1> HIDE DEF z
<1>3. Wpis(p, p)
  BY DEF Wpis
<1>4. Wpis(p, [p EXCEPT !.okno = FALSE, !.lastSearchValue = ""])
  BY PoleAssumption DEF Wpis, Dobry, Panele
<1>5. Wpis(p, [p EXCEPT !.keyTimeout = z, !.szukania = @ \cup {z}])
  BY <1>1 DEF Wpis, Dobry, Panele
<1> QED
  BY <1>2, <1>3, <1>4, <1>5

\* The release of a key in the field.
LEMMA OnSearchFieldChangePanel ==
    ASSUME NEW p0 \in Panele, p0.szukania # Zegary, NEW k,
           NEW shift \in BOOLEAN, NEW jestWynik \in BOOLEAN
    PROVE  Wpis(p0, OnSearchFieldChange(p0, k, shift, jestWynik))
<1> DEFINE p == [p0 EXCEPT !.szukania = @ \ {p0.keyTimeout}, !.keyTimeout = 0]
<1>1. p \in Panele /\ Zachowuje(p0, p) /\ p.szukania # Zegary
  BY DEF Zachowuje, Dobry, Panele
<1>2. CASE k \in {"dol", "enter"} /\ shift
  <2>1. OnSearchFieldChange(p0, k, shift, jestWynik) = Skup(OnSearchSelectShow(p), "filtr")
    BY <1>2 DEF OnSearchFieldChange
  <2> HIDE DEF p
  <2> DEFINE q == OnSearchSelectShow(p)
  <2>2. /\ q \in Panele /\ (Dobry(p) => Dobry(q))
        /\ q.chowania = p.chowania \ {p.hideTimeout} /\ q.hideTimeout = 0
    BY <1>1, OnSearchSelectShowPanel
  <2> HIDE DEF q
  <2>3. Zachowuje(q, Skup(q, "filtr"))
    BY <2>2, SkupZachowuje
  <2> QED
    BY <1>1, <2>1, <2>2, <2>3 DEF Zachowuje, Wpis, q
<1>3. CASE ~(k \in {"dol", "enter"} /\ shift) /\ k = "escape"
  <2> DEFINE q == Skup(p, "brak")
             s == [q EXCEPT !.okno = FALSE, !.lastSearchValue = ""]
  <2>1. OnSearchFieldChange(p0, k, shift, jestWynik) = Activate(s, FALSE)
    BY <1>3 DEF OnSearchFieldChange
  <2> HIDE DEF p
  <2>2. q \in Panele /\ Zachowuje(p, q) /\ q.fokus = "brak"
    BY <1>1, SkupZachowuje DEF Zachowuje
  <2> HIDE DEF q
  <2>3. /\ s \in Panele /\ s.fokus = "brak"
        /\ s.pole = q.pole /\ s.aktywny = q.aktywny /\ s.searchActive = q.searchActive
        /\ s.chowania = q.chowania /\ s.hideTimeout = q.hideTimeout
    BY <2>2, PoleAssumption DEF Panele
  <2> HIDE DEF s
  <2>4. Obudzony(s, Activate(s, FALSE))
    BY <2>3, ActivateUsypia
  <2> QED
    BY <1>1, <2>1, <2>2, <2>3, <2>4 DEF Zachowuje, Wpis, Obudzony, Prawie, Dobry
<1>4. CASE ~(k \in {"dol", "enter"} /\ shift) /\ k # "escape"
  <2> DEFINE q == IF k \in {"dol", "enter"} /\ jestWynik /\ p.okno
                  THEN Skup(p, "wyniki") ELSE p
  <2>1. OnSearchFieldChange(p0, k, shift, jestWynik) = Zmiana(q)
    BY <1>4 DEF OnSearchFieldChange
  <2> HIDE DEF p
  <2>2. q \in Panele /\ Zachowuje(p, q) /\ q.szukania # Zegary
    <3>1. Zachowuje(p, p)
      BY <1>1 DEF Zachowuje
    <3>2. Zachowuje(p, Skup(p, "wyniki"))
      BY <1>1, SkupZachowuje
    <3>3. Zachowuje(p, q)
      BY <3>1, <3>2
    <3> QED
      BY <1>1, <3>3 DEF Zachowuje, Panele
  <2> HIDE DEF q
  <2>3. Wpis(q, Zmiana(q))
    BY <2>2, ZmianaPanel
  <2> QED
    BY <1>1, <2>1, <2>2, <2>3 DEF Zachowuje, Wpis
<1> QED
  BY <1>2, <1>3, <1>4

-----------------------------------------------------------------------------
(* The invariant.  MenuPodMysza needs that no timer of the menu runs but   *)
(* the one known, or showing the menu would not stop them all.  Miejsce    *)
(* says that the room there is for a timer when a key goes down is still   *)
(* there when it is released.                                              *)

Miejsce == klawisz # "zaden" => panel.szukania # Zegary
JedenZegarMenu == panel.chowania \subseteq {panel.hideTimeout}
IInv == TypeOK /\ Uspiony /\ JedenZegarMenu /\ MenuPodMysza /\ Miejsce

\* The property and its form for any panel.
LEMMA UspionyDobry == Uspiony <=> Dobry(panel)
BY DEF Uspiony, Dobry

\* Events that leave the pointer and the timers of the menu alone.
LEMMA NiezmiennikPanelu ==
    ASSUME IInv, UNCHANGED mysz, Zachowuje(panel, panel'),
           ramka' \in Adresy, zdarzenia' \in 0 .. MaxZdarzen, zgubione' \in BOOLEAN,
           klawisz' \in {"zaden", "litera", "dol", "gora", "enter", "escape"},
           klawisz' # "zaden" => panel.szukania # Zegary
    PROVE  IInv'
<1>1. /\ panel' \in Panele /\ Dobry(panel') /\ panel'.szukania \subseteq panel.szukania
      /\ panel'.chowania = panel.chowania /\ panel'.hideTimeout = panel.hideTimeout
  BY UspionyDobry DEF IInv, Zachowuje
<1>2. panel \in Panele
  BY DEF IInv, TypeOK
<1>3. TypeOK'
  BY <1>1 DEF IInv, TypeOK
<1>4. Uspiony'
  BY <1>1 DEF Uspiony, Dobry
<1>5. JedenZegarMenu' /\ MenuPodMysza'
  BY <1>1 DEF IInv, JedenZegarMenu, MenuPodMysza
<1>6. Miejsce'
  BY <1>1, <1>2 DEF Miejsce, Panele
<1> QED
  BY <1>3, <1>4, <1>5, <1>6 DEF IInv

\* A key goes down.
LEMMA KlawiszNiezmiennik == ASSUME IInv, Klawisz PROVE IInv'
<1>1. /\ panel \in Panele /\ panel.szukania # Zegary
      /\ ramka' \in Adresy /\ zdarzenia' \in 0 .. MaxZdarzen /\ UNCHANGED mysz
      /\ zgubione' \in BOOLEAN
  BY Granica DEF IInv, TypeOK, Klawisz, Zdarzenie
<1>2. Zachowuje(panel, panel)
  BY <1>1 DEF Zachowuje
<1>3. Zachowuje(panel, panel')
  <2>1. CASE /\ panel.fokus = "pole"
             /\ \E t \in Wpisywane \ {panel.pole} : panel' = [panel EXCEPT !.pole = t]
    <3>1. PICK t \in Teksty : panel' = [panel EXCEPT !.pole = t]
      BY <2>1, PoleAssumption
    <3>2. Dobry(panel) => panel.aktywny
      BY <2>1, <1>1 DEF Dobry, Panele
    <3> QED
      BY <1>1, <3>1, <3>2 DEF Zachowuje, Dobry, Panele
  <2>2. CASE panel' = OnSearchSelectKey(panel, klawisz')
    BY <1>1, <2>2, OnSearchSelectKeyZachowuje
  <2>3. CASE panel' \in {panel, Skup(panel, "pole")}
    BY <1>1, <1>2, <2>3, SkupZachowuje
  <2>4. CASE /\ panel.fokus = "wyniki"
             /\ panel' = Skup(CloseResultsWindow([panel EXCEPT !.fokus = "brak"]), "pole")
    <3> DEFINE q == [panel EXCEPT !.fokus = "brak"]
               s == CloseResultsWindow(q)
    <3>1. q \in Panele /\ Zachowuje(panel, q) /\ q.fokus # "pole"
      BY <1>1, <2>4 DEF Zachowuje, Dobry, Panele
    <3> HIDE DEF q
    <3>2. s \in Panele /\ Zachowuje(q, s)
      BY <3>1, CloseResultsWindowZachowuje DEF Zachowuje
    <3> HIDE DEF s
    <3>3. Zachowuje(s, Skup(s, "pole"))
      BY <3>2, SkupZachowuje
    <3> QED
      BY <2>4, <3>1, <3>2, <3>3, Przechodnie DEF q, s
  <2> QED
    BY <2>1, <2>2, <2>3, <2>4 DEF Klawisz
<1>4. klawisz' \in {"zaden", "litera", "dol", "gora", "enter", "escape"}
  BY DEF Klawisz
<1> QED
  BY <1>1, <1>3, <1>4, NiezmiennikPanelu

\* A key is released.
LEMMA PuszczenieNiezmiennik == ASSUME IInv, Puszczenie PROVE IInv'
<1>1. /\ panel \in Panele /\ panel.szukania # Zegary /\ klawisz' = "zaden"
      /\ UNCHANGED <<ramka, mysz, zgubione, zdarzenia>>
  BY DEF IInv, TypeOK, Puszczenie, Miejsce
<1>2. CASE panel.fokus = "pole"
  <2>1. PICK shift \in BOOLEAN, jestWynik \in BOOLEAN :
           panel' = OnSearchFieldChange(panel, klawisz, shift, jestWynik)
    BY <1>2 DEF Puszczenie
  <2>2. Wpis(panel, panel')
    BY <1>1, <2>1, OnSearchFieldChangePanel
  <2>3. panel' \in Panele /\ Dobry(panel')
    BY <2>2, UspionyDobry DEF Wpis, IInv
  <2>4. TypeOK'
    BY <1>1, <2>3 DEF IInv, TypeOK
  <2>5. Uspiony'
    BY <2>3 DEF Uspiony, Dobry
  <2>6. JedenZegarMenu' /\ MenuPodMysza'
    BY <1>1, <2>2 DEF IInv, JedenZegarMenu, MenuPodMysza, Wpis
  <2> QED
    BY <1>1, <2>4, <2>5, <2>6 DEF IInv, Miejsce
<1>3. CASE panel.fokus # "pole"
  <2>1. Zachowuje(panel, panel')
    BY <1>1, <1>3 DEF Puszczenie, Zachowuje
  <2> QED
    BY <1>1, <2>1, NiezmiennikPanelu DEF IInv, TypeOK
<1> QED
  BY <1>2, <1>3

\* A click.
LEMMA KlikNiezmiennik == ASSUME IInv, Klik PROVE IInv'
<1>1. /\ panel \in Panele /\ UNCHANGED <<ramka, klawisz, mysz>> /\ panel.szukania # Zegary
      /\ zdarzenia' \in 0 .. MaxZdarzen /\ zgubione' \in BOOLEAN
  BY Granica DEF IInv, TypeOK, Klik, Zdarzenie
<1>2. Zachowuje(panel, panel')
  <2>1. CASE panel' \in {Skup(panel, "pole"), Skup(panel, "brak")}
    BY <1>1, <2>1, SkupZachowuje
  <2>2. CASE panel' = CloseResultsWindow(Skup(panel, "brak"))
    <3> DEFINE q == Skup(panel, "brak")
    <3>1. q \in Panele /\ Zachowuje(panel, q) /\ q.fokus # "pole"
      BY <1>1, SkupZachowuje DEF Zachowuje
    <3> HIDE DEF q
    <3>2. Zachowuje(q, CloseResultsWindow(q))
      BY <3>1, CloseResultsWindowZachowuje
    <3> QED
      BY <2>2, <3>1, <3>2, Przechodnie DEF q
  <2>3. ASSUME NEW id \in 0 .. Filtry - 1, panel' = OnSelectItem(Skup(panel, "filtr"), id)
        PROVE  Zachowuje(panel, panel')
    <3> DEFINE q == Skup(panel, "filtr")
    <3>1. q \in Panele /\ Zachowuje(panel, q)
      BY <1>1, SkupZachowuje DEF Zachowuje
    <3>2. id \in 0 .. Filtry
      BY FiltryLiczba
    <3> HIDE DEF q
    <3>3. Zachowuje(q, OnSelectItem(q, id))
      BY <3>1, <3>2, OnSelectItemZachowuje
    <3> QED
      BY <2>3, <3>1, <3>3, Przechodnie DEF q
  <2> QED
    BY <2>1, <2>2, <2>3 DEF Klik
<1> QED
  BY <1>1, <1>2, NiezmiennikPanelu DEF IInv, TypeOK

\* The pointer moves.
LEMMA RuchNiezmiennik == ASSUME IInv, Ruch PROVE IInv'
<1> DEFINE p == IF mysz = "poza" THEN panel ELSE OnSearchSelectHide(panel)
<1>1. /\ panel \in Panele /\ Dobry(panel) /\ UNCHANGED <<ramka, klawisz, zgubione>>
      /\ mysz' \in {"poza", "ikona", "menu"} /\ zdarzenia' \in 0 .. MaxZdarzen
      /\ ~(Zegary \subseteq panel.chowania \cup {panel.hideTimeout})
      /\ panel' = IF mysz' = "poza" THEN p ELSE OnSearchSelectShow(p)
  BY UspionyDobry, Granica DEF IInv, TypeOK, Ruch, Zdarzenie
<1>2. /\ p \in Panele /\ Dobry(p) /\ p.szukania = panel.szukania
      /\ p.chowania \subseteq {p.hideTimeout}
  <2>1. CASE mysz = "poza"
    BY <1>1, <2>1 DEF IInv, JedenZegarMenu
  <2>2. CASE mysz # "poza"
    <3>1. panel.chowania = {}
      BY <2>2 DEF IInv, MenuPodMysza
    <3>2. p = OnSearchSelectHide(panel)
      BY <2>2
    <3> HIDE DEF p
    <3> QED
      BY <1>1, <3>1, <3>2, OnSearchSelectHidePanel
  <2> QED
    BY <2>1, <2>2
<1> HIDE DEF p
<1>3. /\ panel' \in Panele /\ Dobry(panel') /\ panel'.szukania = panel.szukania
      /\ panel'.chowania \subseteq {panel'.hideTimeout}
      /\ mysz' # "poza" => panel'.chowania = {}
  <2>1. CASE mysz' = "poza"
    BY <1>1, <1>2, <2>1
  <2>2. CASE mysz' # "poza"
    BY <1>1, <1>2, <2>2, OnSearchSelectShowPanel
  <2> QED
    BY <2>1, <2>2
<1> QED
  BY <1>1, <1>3 DEF IInv, TypeOK, Uspiony, Dobry, JedenZegarMenu, MenuPodMysza, Miejsce

\* A timer of the search fires.
LEMMA ZegarSzukaniaNiezmiennik == ASSUME IInv, ZegarSzukania PROVE IInv'
<1>1. panel \in Panele /\ UNCHANGED <<ramka, klawisz, mysz, zgubione, zdarzenia>>
  BY DEF IInv, TypeOK, ZegarSzukania
<1>2. PICK z \in panel.szukania : panel' = Search([panel EXCEPT !.szukania = @ \ {z}])
  BY DEF ZegarSzukania
<1> DEFINE q == [panel EXCEPT !.szukania = @ \ {z}]
<1>3. q \in Panele /\ Zachowuje(panel, q)
  BY <1>1 DEF Zachowuje, Dobry, Panele
<1> HIDE DEF q
<1>4. Zachowuje(q, Search(q))
  BY <1>3, SearchZachowuje
<1>5. Zachowuje(panel, panel')
  BY <1>2, <1>3, <1>4, Przechodnie DEF q
<1> QED
  BY <1>1, <1>5, NiezmiennikPanelu DEF IInv, TypeOK, Miejsce

\* A timer of the menu fires.
LEMMA ZegarMenuNiezmiennik == ASSUME IInv, ZegarMenu PROVE IInv'
<1>1. panel \in Panele /\ Dobry(panel) /\ UNCHANGED <<ramka, klawisz, zgubione, zdarzenia>>
  BY UspionyDobry DEF IInv, TypeOK, ZegarMenu
<1>2. PICK z \in panel.chowania :
         panel' = CloseSelectionWindow([panel EXCEPT !.chowania = @ \ {z}])
  BY DEF ZegarMenu
<1>3. mysz = "poza" /\ mysz' = "poza"
  BY <1>2 DEF IInv, TypeOK, MenuPodMysza, ZegarMenu
<1> DEFINE q == [panel EXCEPT !.chowania = @ \ {z}]
<1>4. /\ q \in Panele /\ Dobry(q) /\ q.szukania = panel.szukania
      /\ q.chowania = panel.chowania \ {z} /\ q.hideTimeout = panel.hideTimeout
  BY <1>1 DEF Dobry, Panele
<1> HIDE DEF q
<1>5. Zachowuje(q, panel')
  BY <1>2, <1>4, CloseSelectionWindowZachowuje DEF q
<1>6. /\ panel' \in Panele /\ Dobry(panel') /\ panel'.szukania \subseteq panel.szukania
      /\ panel'.chowania = panel.chowania \ {z} /\ panel'.hideTimeout = panel.hideTimeout
  BY <1>4, <1>5 DEF Zachowuje
<1> QED
  BY <1>1, <1>3, <1>6
     DEF IInv, TypeOK, Uspiony, Dobry, JedenZegarMenu, MenuPodMysza, Miejsce, Panele

\* A page of results is loaded.
LEMMA WczytanieNiezmiennik == ASSUME IInv, Wczytanie PROVE IInv'
<1>1. panel \in Panele /\ UNCHANGED <<panel, klawisz, mysz, zgubione, zdarzenia>>
  BY DEF IInv, TypeOK, Wczytanie
<1>2. ramka' \in Adresy /\ Zachowuje(panel, panel')
  BY <1>1 DEF Wczytanie, Zachowuje, Panele
<1> QED
  BY <1>1, <1>2, NiezmiennikPanelu DEF IInv, TypeOK, Miejsce

\* The panel and the frame as they are made.
LEMMA SearchBoxPanel == SearchBox \in Panele /\ Pusta \in Adresy
<1>1. Pusta \in Adresy
  BY TekstyStale DEF Pusta, Adresy
<1>2. 0 \in 0 .. Filtry
  BY FiltryLiczba
<1> QED
  BY <1>1, <1>2, TekstyStale DEF SearchBox, Panele

\* The invariant holds when the page opens.
LEMMA PoczatekNiezmiennik == ASSUME Init PROVE IInv
<1>0. Pusta \in Adresy
  BY SearchBoxPanel
<1>1. SearchBox \in Panele
  BY SearchBoxPanel
<1>2. Dobry(SearchBox) /\ SearchBox.chowania = {} /\ SearchBox.hideTimeout = 0
  BY DEF SearchBox, Dobry
<1>3. Zachowuje(SearchBox, panel)
  BY <1>1, FiltryLiczba, OnSelectItemZachowuje DEF Init, init_search
<1>4. panel \in Panele /\ Dobry(panel) /\ panel.chowania = {} /\ panel.hideTimeout = 0
  BY <1>2, <1>3 DEF Zachowuje
<1>b. zgubione \in BOOLEAN
  BY DEF Init
<1>5. TypeOK
  BY <1>0, <1>4, <1>b, Granica DEF Init, TypeOK
<1> QED
  BY <1>4, <1>5
     DEF Init, IInv, Uspiony, Dobry, JedenZegarMenu, MenuPodMysza, Miejsce

\* The invariant holds in every state of the panel.
THEOREM Niezmiennik == Spec => []IInv
<1>1. IInv /\ [Next]_vars => IInv'
  <2> SUFFICES ASSUME IInv, [Next]_vars PROVE IInv'
    OBVIOUS
  <2>1. CASE UNCHANGED vars
    BY <2>1 DEF vars, IInv, TypeOK, Uspiony, JedenZegarMenu, MenuPodMysza, Miejsce
  <2> QED
    BY <2>1, KlawiszNiezmiennik, PuszczenieNiezmiennik, KlikNiezmiennik, RuchNiezmiennik,
       ZegarSzukaniaNiezmiennik, ZegarMenuNiezmiennik, WczytanieNiezmiennik
       DEF Next, Uzytkownik
<1> QED
  BY <1>1, PoczatekNiezmiennik, PTL DEF Spec

\* The fields keep their types, and a new timer is always free.
THEOREM Typowanie == Spec => []TypeOK
BY Niezmiennik, PTL DEF IInv

\* A panel at rest shows its label, has not the focus and will not search.
THEOREM PanelUspiony == Spec => []Uspiony
BY Niezmiennik, PTL DEF IInv

\* No timer closes the menu while the pointer is over it.
THEOREM MenuZostaje == Spec => []MenuPodMysza
BY Niezmiennik, PTL DEF IInv

-----------------------------------------------------------------------------
(* The results and the filter.  WynikiFiltru is kept by the choice of a    *)
(* filter because a choice that does not search again finds no results     *)
(* shown but those of the empty text or of the label (Pominiety).  That is *)
(* so in every state but one: while the key that changed the text is still *)
(* held, the results of the text before it are shown; a filter can then be *)
(* chosen only by a click, which takes the release away from the field     *)
(* (zgubione).                                                             *)

\* A text for which the choice of a filter need not search.
Blahy(t) == Zwarty[t] \in {"", Etykieta}

\* The results shown are of the filter marked, if any is.
Wyniki(p) ==
    p.okno /\ ~Blahy(p.lastSearchValue)
    => \A j \in p.znak : p.adres = Adres(j, p.lastSearchValue)

\* The label is that of a panel at rest, and no filter is marked but the one chosen.
Oznaczony(p) ==
    /\ Prawie(p)
    /\ p.aktywny => p.pole # Etykieta
    /\ p.znak \subseteq {p.searchIndex}

\* What holds of a panel wherever its focus is, before and after every handler.
Zgodny(p) == Oznaczony(p) /\ Wyniki(p)

\* The choice of a filter searches, or the results shown are of no interest.
Pominiety(p) ==
    p.okno /\ ~(Zwarty[p.pole] # "" /\ p.searchActive) => Blahy(p.lastSearchValue)

\* What a handler keeps: Zgodny, and with it Pominiety.
Trzyma(p, q) ==
    Zgodny(p) => Zgodny(q) /\ (Pominiety(p) => Pominiety(q))

\* Two handlers, one after the other.
LEMMA TrzymaPrzechodnie ==
    ASSUME NEW p, NEW q, NEW s, Trzyma(p, q), Trzyma(q, s)
    PROVE  Trzyma(p, s)
BY DEF Trzyma

\* What Zgodny and Pominiety speak of.
Tresc(p) == <<p.pole, p.lastSearchValue, p.searchIndex, p.searchActive, p.aktywny,
              p.okno, p.znak, p.adres>>

\* A handler that changes the focus, the menu and the timers only.
LEMMA TrzymaTresc ==
    ASSUME NEW p, NEW q, Tresc(p) = Tresc(q)
    PROVE  Trzyma(p, q)
BY DEF Tresc, Trzyma, Zgodny, Oznaczony, Prawie, Wyniki, Pominiety, Blahy

\* The empty text, the label, and a text without its leading spaces.
LEMMA BlaheTeksty ==
    /\ Blahy("") /\ Blahy(Etykieta) /\ Zwarty[""] = "" /\ Etykieta # ""
    /\ \A t \in Teksty : Przyciety[t] \in Teksty /\ Zwarty[Przyciety[t]] = Zwarty[t]
BY PoleAssumption DEF Blahy

\* The panel wakes up or falls asleep.
LEMMA ActivateTrzyma ==
    ASSUME NEW p \in Panele, NEW isActive \in BOOLEAN
    PROVE  Trzyma(p, Activate(p, isActive))
<1> DEFINE q == Activate(p, isActive)
<1> SUFFICES ASSUME Zgodny(p)
             PROVE  Zgodny(q) /\ (Pominiety(p) => Pominiety(q))
  BY DEF Trzyma
<1>1. CASE (isActive \/ p.okno) /\ p.aktywny
  <2>1. p.pole # Etykieta /\ p.searchActive = TRUE /\ p.aktywny = TRUE
    BY <1>1 DEF Zgodny, Oznaczony, Prawie, Panele
  <2>2. q = [p EXCEPT !.aktywny = TRUE, !.pole = p.pole, !.searchActive = TRUE]
    BY <1>1, <2>1 DEF Activate, Panele
  <2>3. Tresc(p) = Tresc(q)
    BY <2>1, <2>2 DEF Tresc, Panele
  <2> QED
    BY <2>3, TrzymaTresc DEF Trzyma
<1>2. CASE (isActive \/ p.okno) /\ ~p.aktywny
  <2>1. p.pole = Etykieta
    BY <1>2 DEF Zgodny, Oznaczony, Prawie
  <2>2. /\ q.aktywny = TRUE /\ q.pole = "" /\ q.searchActive = TRUE
        /\ q.okno = p.okno /\ q.lastSearchValue = p.lastSearchValue
        /\ q.znak = p.znak /\ q.adres = p.adres /\ q.searchIndex = p.searchIndex
    BY <1>2, <2>1 DEF Activate, Panele
  <2>3. p.searchActive = FALSE
    BY <1>2 DEF Zgodny, Oznaczony, Prawie, Panele
  <2> HIDE DEF q
  <2>4. Zgodny(q)
    <3>1. Oznaczony(q)
      BY <2>2, BlaheTeksty DEF Zgodny, Oznaczony, Prawie
    <3>2. Wyniki(q)
      BY <2>2 DEF Zgodny, Wyniki
    <3> QED
      BY <3>1, <3>2 DEF Zgodny
  <2>5. Pominiety(p) => Pominiety(q)
    BY <2>2, <2>3 DEF Pominiety
  <2> QED
    BY <2>4, <2>5
<1>3. CASE ~(isActive \/ p.okno)
  <2>1. /\ q.aktywny = FALSE /\ q.pole = Etykieta /\ q.searchActive = FALSE
        /\ q.okno = FALSE /\ q.znak = p.znak /\ q.searchIndex = p.searchIndex
    BY <1>3 DEF Activate, Panele
  <2> HIDE DEF q
  <2> QED
    BY <2>1 DEF Zgodny, Oznaczony, Prawie, Wyniki, Pominiety
<1> QED
  BY <1>1, <1>2, <1>3

\* A change of focus, with the handlers it calls.
LEMMA SkupTrzyma ==
    ASSUME NEW p \in Panele, NEW gdzie \in {"brak", "pole", "filtr", "wyniki"}
    PROVE  Trzyma(p, Skup(p, gdzie))
<1> DEFINE q == [p EXCEPT !.fokus = gdzie]
<1>1. q \in Panele /\ Tresc(p) = Tresc(q)
  BY DEF Panele, Tresc
<1>2. Skup(p, gdzie) \in {p, q, Activate(q, FALSE), Activate(q, TRUE)}
  BY DEF Skup, OnSearchFieldFocus
<1> HIDE DEF q
<1>3. Trzyma(p, q) /\ Trzyma(q, Activate(q, FALSE)) /\ Trzyma(q, Activate(q, TRUE))
  BY <1>1, TrzymaTresc, ActivateTrzyma
<1>4. Trzyma(p, p) /\ Trzyma(p, Activate(q, FALSE)) /\ Trzyma(p, Activate(q, TRUE))
  BY <1>3 DEF Trzyma
<1> QED
  BY <1>2, <1>3, <1>4

\* A search finds the results of the filter marked, if there is a filter to search with.
LEMMA SearchZnajduje ==
    ASSUME NEW p \in Panele, Oznaczony(p), Dziala(p)
    PROVE  Zgodny(Search(p)) /\ Pominiety(Search(p))
<1> DEFINE t == Przyciety[p.pole]
           a == Adres(p.searchIndex, t)
           q == Search(p)
<1>1. q = [p EXCEPT !.keyTimeout = 0, !.adres = a, !.okno = TRUE, !.lastSearchValue = t]
  BY DEF Search
<1>2. /\ q.adres = a /\ q.lastSearchValue = t /\ q.pole = p.pole /\ q.aktywny = p.aktywny
      /\ q.searchActive = p.searchActive /\ q.znak = p.znak /\ q.searchIndex = p.searchIndex
  BY <1>1 DEF Panele
<1>3. Zwarty[t] = Zwarty[p.pole]
  BY BlaheTeksty DEF Panele
<1>4. Zwarty[Etykieta] = Etykieta
  BY PoleAssumption
<1> HIDE DEF q, t
<1>5. Zgodny(q)
  BY <1>2 DEF Zgodny, Oznaczony, Prawie, Wyniki
<1>6. Pominiety(q)
  BY <1>2, <1>3, <1>4 DEF Oznaczony, Prawie, Pominiety, Blahy
<1> QED
  BY <1>5, <1>6 DEF q

\* Without one it changes nothing that matters here.
LEMMA SearchTrzyma ==
    ASSUME NEW p \in Panele
    PROVE  Trzyma(p, Search(p))
<1>1. CASE ~Dziala(p)
  <2>1. Tresc(p) = Tresc(Search(p))
    BY <1>1 DEF Search, Tresc, Panele
  <2> QED
    BY <2>1, TrzymaTresc
<1>2. CASE Dziala(p)
  BY <1>2, SearchZnajduje DEF Trzyma, Zgodny
<1> QED
  BY <1>1, <1>2

\* The choice of a filter: it searches, finds no filter to search with, or leaves
\* results that do not matter.
LEMMA OnSelectItemTrzyma ==
    ASSUME NEW p \in Panele, NEW id \in 0 .. Filtry, Zgodny(p), Pominiety(p)
    PROVE  Zgodny(OnSelectItem(p, id)) /\ Pominiety(OnSelectItem(p, id))
<1> DEFINE z == {j \in 0 .. Filtry - 1 : j = id}
           q == [p EXCEPT !.searchIndex = id, !.znak = z]
<1>1. SelectItemSet([p EXCEPT !.searchIndex = id], id) = q
  BY DEF SelectItemSet, SelectItemCount, Panele
<1>2. z \in SUBSET (0 .. Filtry - 1) /\ z \subseteq {id} /\ (~(id < Filtry) => z = {})
  BY FiltryLiczba
<1> HIDE DEF z
<1>3. /\ q \in Panele /\ q.searchIndex = id /\ q.znak = z
      /\ q.pole = p.pole /\ q.aktywny = p.aktywny /\ q.searchActive = p.searchActive
      /\ q.okno = p.okno /\ q.lastSearchValue = p.lastSearchValue /\ q.adres = p.adres
  BY <1>2 DEF Panele
<1>4. OnSelectItem(p, id) = IF Zwarty[q.pole] # "" /\ q.searchActive THEN Search(q) ELSE q
  BY <1>1 DEF OnSelectItem
<1> HIDE DEF q
<1>5. Oznaczony(q)
  BY <1>2, <1>3 DEF Zgodny, Oznaczony, Prawie
<1>6. Pominiety(q)
  BY <1>3 DEF Pominiety
<1>7. CASE Zwarty[q.pole] # "" /\ q.searchActive
  <2>1. CASE Dziala(q)
    BY <1>3, <1>4, <1>5, <1>7, <2>1, SearchZnajduje
  <2>2. CASE ~Dziala(q)
    <3>1. Wyniki(q)
      BY <1>2, <1>3, <2>2 DEF Dziala, SelectItemCount, Wyniki
    <3> QED
      BY <1>3, <1>4, <1>5, <1>6, <1>7, <3>1, SearchTrzyma DEF Trzyma, Zgodny
  <2> QED
    BY <2>1, <2>2
<1>8. CASE ~(Zwarty[q.pole] # "" /\ q.searchActive)
  <2>1. Wyniki(q)
    BY <1>6, <1>8 DEF Wyniki, Pominiety
  <2> QED
    BY <1>4, <1>5, <1>6, <1>8, <2>1 DEF Zgodny
<1> QED
  BY <1>7, <1>8

\* The filter menu closes.
LEMMA CloseSelectionWindowTrzyma ==
    ASSUME NEW p \in Panele
    PROVE  Trzyma(p, CloseSelectionWindow(p))
<1>1. Tresc(p) = Tresc(CloseSelectionWindow(p))
  BY DEF CloseSelectionWindow, Tresc, Panele
<1> QED
  BY <1>1, TrzymaTresc

\* The results are hidden; the last search may be forgotten.
LEMMA OknoTrzyma ==
    ASSUME NEW p \in Panele
    PROVE  /\ Trzyma(p, [p EXCEPT !.okno = FALSE])
           /\ Trzyma(p, [p EXCEPT !.okno = FALSE, !.lastSearchValue = ""])
           /\ Pominiety([p EXCEPT !.okno = FALSE, !.lastSearchValue = ""])
BY DEF Trzyma, Zgodny, Oznaczony, Prawie, Wyniki, Pominiety, Panele

\* The results close.
LEMMA CloseResultsWindowTrzyma ==
    ASSUME NEW p \in Panele
    PROVE  Trzyma(p, CloseResultsWindow(p))
<1> DEFINE q == [p EXCEPT !.okno = FALSE]
<1>1. q \in Panele
  BY DEF Panele
<1>2. CloseResultsWindow(p) = Activate(q, FALSE) /\ Trzyma(p, q)
  BY OknoTrzyma DEF CloseResultsWindow
<1> HIDE DEF q
<1> QED
  BY <1>1, <1>2, ActivateTrzyma, TrzymaPrzechodnie

\* A key in the filter menu.
LEMMA OnSearchSelectKeyTrzyma ==
    ASSUME NEW p \in Panele, NEW k, Zgodny(p), Pominiety(p)
    PROVE  Zgodny(OnSearchSelectKey(p, k)) /\ Pominiety(OnSearchSelectKey(p, k))
<1>1. p.searchIndex \in 0 .. Filtry
  BY DEF Panele
<1>2. CASE k = "dol" /\ p.searchIndex < SelectItemCount
  <2>1. p.searchIndex + 1 \in 0 .. Filtry
    BY <1>1, <1>2, FiltryLiczba DEF SelectItemCount
  <2> QED
    BY <1>2, <2>1, OnSelectItemTrzyma DEF OnSearchSelectKey
<1>3. CASE k = "gora" /\ p.searchIndex > 0
  <2>1. p.searchIndex - 1 \in 0 .. Filtry
    BY <1>1, <1>3, FiltryLiczba
  <2> QED
    BY <1>3, <2>1, OnSelectItemTrzyma DEF OnSearchSelectKey
<1>4. CASE k \in {"enter", "escape"}
  <2> DEFINE q == OnSelectItem(p, p.searchIndex)
             s == CloseSelectionWindow(q)
  <2>1. q \in Panele /\ Zgodny(q) /\ Pominiety(q)
    BY <1>1, OnSelectItemZachowuje, OnSelectItemTrzyma DEF Zachowuje
  <2>2. OnSearchSelectKey(p, k) \in {q, Skup(s, "pole")}
    BY <1>4 DEF OnSearchSelectKey
  <2> HIDE DEF q
  <2>3. s \in Panele /\ Trzyma(q, s)
    BY <2>1, CloseSelectionWindowZachowuje, CloseSelectionWindowTrzyma DEF Zachowuje
  <2> HIDE DEF s
  <2>4. Trzyma(s, Skup(s, "pole"))
    BY <2>3, SkupTrzyma
  <2> QED
    BY <2>1, <2>2, <2>3, <2>4 DEF Trzyma
<1>5. CASE /\ ~(k = "dol" /\ p.searchIndex < SelectItemCount)
           /\ ~(k = "gora" /\ p.searchIndex > 0)
           /\ k \notin {"enter", "escape"}
  BY <1>5 DEF OnSearchSelectKey
<1> QED
  BY <1>2, <1>3, <1>4, <1>5

\* A changed text: an empty one closes the results of the text before it.
LEMMA ZmianaTrzyma ==
    ASSUME NEW p \in Panele, Zgodny(p), p.aktywny
    PROVE  Zgodny(Zmiana(p)) /\ Pominiety(Zmiana(p))
<1>1. p.searchActive
  BY DEF Zgodny, Oznaczony, Prawie, Panele
<1>2. CASE Zwarty[p.pole] = p.lastSearchValue
  <2>1. Zwarty[p.pole] = "" => Blahy(p.lastSearchValue)
    BY <1>2, BlaheTeksty
  <2> QED
    BY <1>1, <1>2, <2>1 DEF Zmiana, Pominiety
<1>3. CASE Zwarty[p.pole] # p.lastSearchValue /\ Zwarty[p.pole] = ""
  BY <1>3, OknoTrzyma DEF Zmiana, Trzyma
<1>4. CASE Zwarty[p.pole] # p.lastSearchValue /\ Zwarty[p.pole] # ""
  <2>1. Tresc(p) = Tresc(Zmiana(p))
    BY <1>4 DEF Zmiana, Tresc, Panele
  <2>2. Pominiety(p)
    BY <1>1, <1>4 DEF Pominiety
  <2> QED
    BY <2>1, <2>2, TrzymaTresc DEF Trzyma
<1> QED
  BY <1>2, <1>3, <1>4

\* The release of a key in the field, whatever the text has become.
LEMMA OnSearchFieldChangeTrzyma ==
    ASSUME NEW p0 \in Panele, Zgodny(p0), Dobry(p0), p0.fokus = "pole", NEW k,
           k = "litera" \/ Pominiety(p0), NEW shift \in BOOLEAN, NEW jestWynik \in BOOLEAN
    PROVE  LET q == OnSearchFieldChange(p0, k, shift, jestWynik)
           IN  Zgodny(q) /\ Pominiety(q)
<1> DEFINE p == [p0 EXCEPT !.szukania = @ \ {p0.keyTimeout}, !.keyTimeout = 0]
           wynik == OnSearchFieldChange(p0, k, shift, jestWynik)
<1>1. /\ p \in Panele /\ Tresc(p0) = Tresc(p) /\ p.fokus = "pole" /\ p.aktywny
  BY DEF Tresc, Dobry, Panele
<1>2. Zgodny(p) /\ (k = "litera" \/ Pominiety(p))
  BY <1>1, TrzymaTresc DEF Trzyma
<1>3. CASE k \in {"dol", "enter"} /\ shift
  <2> DEFINE q == OnSearchSelectShow(p)
  <2>1. wynik = Skup(q, "filtr")
    BY <1>3 DEF OnSearchFieldChange
  <2> HIDE DEF p, wynik
  <2>2. q \in Panele /\ Tresc(p) = Tresc(q)
    BY <1>1 DEF OnSearchSelectShow, Tresc, Panele
  <2> HIDE DEF q
  <2>3. Trzyma(p, q) /\ Trzyma(q, Skup(q, "filtr"))
    BY <2>2, TrzymaTresc, SkupTrzyma
  <2> QED
    BY <1>2, <1>3, <2>1, <2>3 DEF Trzyma, wynik
<1>4. CASE ~(k \in {"dol", "enter"} /\ shift) /\ k = "escape"
  <2> DEFINE q == Skup(p, "brak")
             s == [q EXCEPT !.okno = FALSE, !.lastSearchValue = ""]
  <2>1. wynik = Activate(s, FALSE)
    BY <1>4 DEF OnSearchFieldChange
  <2> HIDE DEF p, wynik
  <2>2. q \in Panele /\ Zgodny(q)
    BY <1>1, <1>2, SkupZachowuje, SkupTrzyma DEF Zachowuje, Trzyma
  <2> HIDE DEF q
  <2>3. s \in Panele /\ Zgodny(s) /\ Pominiety(s)
    <3>1. s \in Panele
      BY <2>2, TekstyStale DEF Panele
    <3> QED
      BY <2>2, <3>1, OknoTrzyma DEF Trzyma
  <2> HIDE DEF s
  <2>4. Trzyma(s, Activate(s, FALSE))
    BY <2>3, ActivateTrzyma
  <2> QED
    BY <2>1, <2>3, <2>4 DEF Trzyma, wynik
<1>5. CASE ~(k \in {"dol", "enter"} /\ shift) /\ k # "escape"
  <2> DEFINE w == [p EXCEPT !.fokus = "wyniki"]
             q == IF k \in {"dol", "enter"} /\ jestWynik /\ p.okno
                  THEN Skup(p, "wyniki") ELSE p
  <2>1. wynik = Zmiana(q)
    BY <1>5 DEF OnSearchFieldChange
  <2> HIDE DEF p, wynik
  <2>2. q \in Panele /\ Zgodny(q)
    BY <1>1, <1>2, SkupZachowuje, SkupTrzyma DEF Zachowuje, Trzyma
  <2>3. p.okno => Skup(p, "wyniki").aktywny
    <3>1. w \in Panele /\ w.okno = p.okno
      BY <1>1 DEF Panele
    <3>2. Skup(p, "wyniki") = Activate(w, FALSE)
      BY <1>1 DEF Skup, OnSearchFieldFocus
    <3> HIDE DEF w
    <3> QED
      BY <3>1, <3>2 DEF Activate, Panele
  <2>4. q.aktywny
    BY <1>1, <2>3
  <2> HIDE DEF q
  <2> QED
    BY <2>1, <2>2, <2>4, ZmianaTrzyma DEF wynik
<1> QED
  BY <1>3, <1>4, <1>5

\* The invariant, as long as every letter was released in the field: while a changed
\* text waits for the release of its key, the focus is there.
FiltrOK ==
    /\ Zgodny(panel)
    /\ IF klawisz = "litera" THEN panel.fokus = "pole" ELSE Pominiety(panel)

\* A handler that keeps the results, and the focus of a field that is typed into.
LEMMA FiltrKrok ==
    ASSUME FiltrOK, UNCHANGED klawisz, Trzyma(panel, panel'),
           panel.fokus = "pole" => panel'.fokus = "pole"
    PROVE  FiltrOK'
BY DEF FiltrOK, Trzyma

\* A key goes down: it changes the text, or acts on a panel whose text is not new.
LEMMA KlawiszFiltr ==
    ASSUME IInv, FiltrOK, Klawisz, Etykieta \notin Wpisywane PROVE FiltrOK'
<1>1. panel \in Panele /\ Dobry(panel) /\ Zgodny(panel) /\ Pominiety(panel)
  BY UspionyDobry DEF IInv, TypeOK, Klawisz, FiltrOK
<1>2. CASE /\ panel.fokus = "pole" /\ klawisz' = "litera"
           /\ \E t \in Wpisywane \ {panel.pole} : panel' = [panel EXCEPT !.pole = t]
  <2>1. PICK t \in Wpisywane : panel' = [panel EXCEPT !.pole = t]
    BY <1>2
  <2>2. t # Etykieta /\ panel.aktywny
    BY <1>1, <1>2 DEF Dobry
  <2>3. /\ panel'.pole = t /\ panel'.aktywny = panel.aktywny /\ panel'.fokus = panel.fokus
        /\ panel'.searchActive = panel.searchActive /\ panel'.okno = panel.okno
        /\ panel'.lastSearchValue = panel.lastSearchValue /\ panel'.znak = panel.znak
        /\ panel'.adres = panel.adres /\ panel'.searchIndex = panel.searchIndex
    BY <1>1, <2>1 DEF Panele
  <2>4. Oznaczony(panel')
    BY <1>1, <2>2, <2>3 DEF Zgodny, Oznaczony, Prawie
  <2>5. Wyniki(panel')
    BY <1>1, <2>3 DEF Zgodny, Wyniki
  <2> QED
    BY <1>2, <2>3, <2>4, <2>5 DEF FiltrOK, Zgodny
<1>3. CASE klawisz' # "litera" /\ panel' \in {panel, Skup(panel, "pole"),
                                              OnSearchSelectKey(panel, klawisz')}
  <2>1. Trzyma(panel, panel) /\ Trzyma(panel, Skup(panel, "pole"))
    BY <1>1, SkupTrzyma DEF Trzyma
  <2>2. Zgodny(panel') /\ Pominiety(panel')
    BY <1>1, <1>3, <2>1, OnSearchSelectKeyTrzyma DEF Trzyma
  <2> QED
    BY <1>3, <2>2 DEF FiltrOK
<1>4. CASE /\ klawisz' = "escape"
           /\ panel' = Skup(CloseResultsWindow([panel EXCEPT !.fokus = "brak"]), "pole")
  <2> DEFINE q == [panel EXCEPT !.fokus = "brak"]
             s == CloseResultsWindow(q)
  <2>1. q \in Panele /\ q.fokus # "pole" /\ Tresc(panel) = Tresc(q)
    BY <1>1 DEF Tresc, Panele
  <2> HIDE DEF q
  <2>2. s \in Panele /\ Trzyma(q, s)
    BY <2>1, CloseResultsWindowZachowuje, CloseResultsWindowTrzyma DEF Zachowuje
  <2> HIDE DEF s
  <2>3. Trzyma(panel, q) /\ Trzyma(s, Skup(s, "pole"))
    BY <2>1, <2>2, TrzymaTresc, SkupTrzyma
  <2>4. panel' = Skup(s, "pole")
    BY <1>4 DEF q, s
  <2>5. Zgodny(panel') /\ Pominiety(panel')
    BY <1>1, <2>2, <2>3, <2>4 DEF Trzyma
  <2> QED
    BY <1>4, <2>5 DEF FiltrOK
<1>5. panel.fokus = "filtr" => klawisz' # "litera"
  BY DEF Klawisz
<1> QED
  BY <1>2, <1>3, <1>4, <1>5 DEF Klawisz

\* A click that does not take a release away from the field: none is to come, or the
\* focus stays there.
LEMMA KlikFiltr == ASSUME IInv, FiltrOK, Klik, ~zgubione' PROVE FiltrOK'
<1>1. panel \in Panele /\ Zgodny(panel) /\ UNCHANGED klawisz
  BY DEF IInv, TypeOK, Klik, FiltrOK
<1>2. \A g \in {"brak", "pole", "filtr"} :
         /\ Skup(panel, g) \in Panele /\ Zgodny(Skup(panel, g))
         /\ Pominiety(panel) => Pominiety(Skup(panel, g))
         /\ Skup(panel, g).fokus = g
  BY <1>1, SkupZachowuje, SkupTrzyma DEF Zachowuje, Trzyma
<1>3. CASE klawisz = "litera"
  <2>1. panel.fokus = "pole" /\ panel'.fokus = "pole"
    BY <1>3 DEF Klik, FiltrOK
  <2>2. CASE panel' \in {Skup(panel, "pole"), Skup(panel, "brak")}
    BY <1>1, <1>2, <1>3, <2>1, <2>2 DEF FiltrOK
  <2>3. panel' # CloseResultsWindow(Skup(panel, "brak"))
    <3> DEFINE q == Skup(panel, "brak")
               s == [q EXCEPT !.okno = FALSE]
    <3>1. q \in Panele /\ q.fokus = "brak"
      BY <1>2
    <3> HIDE DEF q
    <3>2. s \in Panele /\ s.fokus = "brak" /\ CloseResultsWindow(q) = Activate(s, FALSE)
      BY <3>1 DEF Panele, CloseResultsWindow
    <3> HIDE DEF s
    <3>3. CloseResultsWindow(q).fokus = "brak"
      BY <3>2, ActivateUsypia DEF Obudzony
    <3> QED
      BY <2>1, <3>3 DEF q
  <2>4. ASSUME NEW id \in 0 .. Filtry - 1
        PROVE  panel' # OnSelectItem(Skup(panel, "filtr"), id)
    <3> DEFINE q == Skup(panel, "filtr")
    <3>1. q \in Panele /\ q.fokus = "filtr"
      BY <1>2
    <3> HIDE DEF q
    <3>2. OnSelectItem(q, id).fokus = "filtr"
      BY <3>1 DEF OnSelectItem, SelectItemSet, Search, Panele
    <3> QED
      BY <2>1, <3>2 DEF q
  <2> QED
    BY <2>2, <2>3, <2>4 DEF Klik
<1>4. CASE klawisz # "litera"
  <2>1. Pominiety(panel) /\ \A g \in {"brak", "pole", "filtr"} : Pominiety(Skup(panel, g))
    BY <1>2, <1>4 DEF FiltrOK
  <2>2. CASE panel' \in {Skup(panel, "pole"), Skup(panel, "brak")}
    BY <1>1, <1>2, <1>4, <2>1, <2>2 DEF FiltrOK
  <2>3. CASE panel' = CloseResultsWindow(Skup(panel, "brak"))
    BY <1>1, <1>2, <1>4, <2>1, <2>3, CloseResultsWindowTrzyma DEF FiltrOK, Trzyma
  <2>4. ASSUME NEW id \in 0 .. Filtry - 1, panel' = OnSelectItem(Skup(panel, "filtr"), id)
        PROVE  FiltrOK'
    <3>1. id \in 0 .. Filtry
      BY FiltryLiczba
    <3> QED
      BY <1>1, <1>2, <1>4, <2>1, <2>4, <3>1, OnSelectItemTrzyma DEF FiltrOK
  <2> QED
    BY <2>2, <2>3, <2>4 DEF Klik
<1> QED
  BY <1>3, <1>4

\* The pointer moves.
LEMMA RuchFiltr == ASSUME IInv, FiltrOK, Ruch PROVE FiltrOK'
<1> DEFINE p == IF mysz = "poza" THEN panel ELSE OnSearchSelectHide(panel)
<1>1. /\ panel \in Panele /\ UNCHANGED klawisz
      /\ ~(Zegary \subseteq panel.chowania \cup {panel.hideTimeout})
      /\ panel' = IF mysz' = "poza" THEN p ELSE OnSearchSelectShow(p)
  BY DEF IInv, TypeOK, Ruch, Zdarzenie
<1>2. p \in Panele /\ Tresc(panel) = Tresc(p) /\ p.fokus = panel.fokus
  <2>1. LET q == OnSearchSelectHide(panel)
        IN  q \in Panele /\ Tresc(panel) = Tresc(q) /\ q.fokus = panel.fokus
    <3>1. OnSearchSelectHide(panel) \in Panele
      BY <1>1, OnSearchSelectHidePanel
    <3>2. Tresc(panel) = Tresc(OnSearchSelectHide(panel))
      BY <1>1 DEF OnSearchSelectHide, Tresc, Panele
    <3>3. OnSearchSelectHide(panel).fokus = panel.fokus
      BY <1>1 DEF OnSearchSelectHide, Panele
    <3> QED
      BY <3>1, <3>2, <3>3
  <2> QED
    BY <1>1, <2>1
<1> HIDE DEF p
<1>3. LET q == OnSearchSelectShow(p) IN Tresc(p) = Tresc(q) /\ q.fokus = p.fokus
  BY <1>2 DEF OnSearchSelectShow, Tresc, Panele
<1>4. Tresc(panel) = Tresc(panel') /\ panel'.fokus = panel.fokus
  BY <1>1, <1>2, <1>3
<1>5. Trzyma(panel, panel')
  BY <1>4, TrzymaTresc
<1> QED
  BY <1>1, <1>4, <1>5, FiltrKrok

\* A timer of the search fires.
LEMMA ZegarSzukaniaFiltr == ASSUME IInv, FiltrOK, ZegarSzukania PROVE FiltrOK'
<1>1. panel \in Panele /\ UNCHANGED klawisz
  BY DEF IInv, TypeOK, ZegarSzukania
<1>2. PICK z \in panel.szukania : panel' = Search([panel EXCEPT !.szukania = @ \ {z}])
  BY DEF ZegarSzukania
<1> DEFINE q == [panel EXCEPT !.szukania = @ \ {z}]
<1>3. q \in Panele /\ Tresc(panel) = Tresc(q) /\ q.fokus = panel.fokus
  BY <1>1 DEF Tresc, Panele
<1> HIDE DEF q
<1>4. Search(q).fokus = q.fokus
  BY <1>3 DEF Search, Panele
<1>5. Trzyma(panel, q) /\ Trzyma(q, Search(q))
  BY <1>3, TrzymaTresc, SearchTrzyma
<1>6. panel' = Search(q)
  BY <1>2 DEF q
<1>7. Trzyma(panel, panel')
  BY <1>5, <1>6, TrzymaPrzechodnie
<1> QED
  BY <1>1, <1>3, <1>4, <1>6, <1>7, FiltrKrok

\* A timer of the menu fires.
LEMMA ZegarMenuFiltr == ASSUME IInv, FiltrOK, ZegarMenu PROVE FiltrOK'
<1>1. panel \in Panele /\ UNCHANGED klawisz
  BY DEF IInv, TypeOK, ZegarMenu
<1>2. PICK z \in panel.chowania :
         panel' = CloseSelectionWindow([panel EXCEPT !.chowania = @ \ {z}])
  BY DEF ZegarMenu
<1>3. Tresc(panel) = Tresc(panel') /\ (panel.fokus = "pole" => panel'.fokus = "pole")
  BY <1>1, <1>2 DEF CloseSelectionWindow, Tresc, Panele
<1>4. Trzyma(panel, panel')
  BY <1>3, TrzymaTresc
<1> QED
  BY <1>1, <1>3, <1>4, FiltrKrok

\* A key is released.
LEMMA PuszczenieFiltr == ASSUME IInv, FiltrOK, Puszczenie PROVE FiltrOK'
<1>1. panel \in Panele /\ Dobry(panel) /\ klawisz' = "zaden"
  BY UspionyDobry DEF IInv, TypeOK, Puszczenie
<1>2. CASE panel.fokus = "pole"
  <2>1. PICK shift \in BOOLEAN, jestWynik \in BOOLEAN :
           panel' = OnSearchFieldChange(panel, klawisz, shift, jestWynik)
    BY <1>2 DEF Puszczenie
  <2>2. Zgodny(panel') /\ Pominiety(panel')
    BY <1>1, <1>2, <2>1, OnSearchFieldChangeTrzyma DEF FiltrOK
  <2> QED
    BY <1>1, <2>2 DEF FiltrOK
<1>3. CASE panel.fokus # "pole"
  BY <1>1, <1>3 DEF Puszczenie, FiltrOK
<1> QED
  BY <1>2, <1>3

\* The page opens without results.
LEMMA PoczatekFiltr == ASSUME Init PROVE FiltrOK
<1>1. SearchBox \in Panele
  BY SearchBoxPanel
<1>2. Zgodny(SearchBox) /\ Pominiety(SearchBox)
  BY DEF SearchBox, Zgodny, Oznaczony, Prawie, Wyniki, Pominiety
<1>3. 0 \in 0 .. Filtry
  BY FiltryLiczba
<1>4. Zgodny(panel) /\ Pominiety(panel)
  BY <1>1, <1>2, <1>3, OnSelectItemTrzyma DEF Init, init_search
<1> QED
  BY <1>4 DEF Init, FiltrOK

\* The results shown are those of the filter that is marked, if the label is not typed
\* and no letter was to be released outside the field.
THEOREM WynikiZawsze ==
    ASSUME Etykieta \notin Wpisywane
    PROVE  Spec => []WynikiFiltru
<1> DEFINE Filtr == ~zgubione => FiltrOK
<1>1. IInv /\ Filtr /\ [Next]_vars => Filtr'
  <2> SUFFICES ASSUME IInv, Filtr, [Next]_vars, ~zgubione' PROVE FiltrOK'
    OBVIOUS
  <2>1. ~zgubione
    BY DEF vars, Next, Uzytkownik, Klawisz, Klik, Ruch, Puszczenie, ZegarSzukania,
       ZegarMenu, Wczytanie, IInv, TypeOK
  <2>2. CASE UNCHANGED vars \/ Wczytanie
    BY <2>1, <2>2 DEF vars, Wczytanie, FiltrOK
  <2> QED
    BY <2>1, <2>2, KlawiszFiltr, PuszczenieFiltr, KlikFiltr, RuchFiltr, ZegarSzukaniaFiltr,
       ZegarMenuFiltr DEF Next, Uzytkownik
<1>2. Filtr => WynikiFiltru
  BY DEF FiltrOK, Zgodny, Wyniki, Blahy, WynikiFiltru
<1>3. Init => Filtr
  BY PoczatekFiltr
<1> HIDE DEF Filtr
<1> QED
  BY <1>1, <1>2, <1>3, Niezmiennik, PTL DEF Spec

-----------------------------------------------------------------------------
(* The table (DrzewoPlikow).  ZgodneStrzalki is inductive.  Folding takes  *)
(* away what is below a row: a row that goes has its parent gone, or is a  *)
(* child of the row that closes.  Unfolding shows rows whose children are  *)
(* not shown, because the rows themselves were not.                        *)

\* The variables keep their types; the part of the state the proofs need.
THEOREM TypowanieTabeli == SpecTabeli => []TypTabeli
<1>1. InitTabeli => TypTabeli
  BY DEF InitTabeli, TypTabeli, Foldery, updateStripes
<1>2. TypTabeli /\ [NextTabeli]_varsTabeli => TypTabeli'
  <2> SUFFICES ASSUME TypTabeli, [NextTabeli]_varsTabeli PROVE TypTabeli'
    OBVIOUS
  <2>1. ASSUME NEW r \in Tabela, toggleFolder(r) PROVE TypTabeli'
    BY <2>1 DEF TypTabeli, toggleFolder, Chowaj, Pokaz, Nizsze, Foldery, updateStripes
  <2>2. ASSUME NEW level \in Poziomy, toggleLevel(level) PROVE TypTabeli'
    BY <2>2 DEF TypTabeli, toggleLevel, Foldery, updateStripes
  <2>3. CASE UNCHANGED varsTabeli
    BY <2>3 DEF TypTabeli, varsTabeli
  <2> QED
    BY <2>1, <2>2, <2>3 DEF NextTabeli
<1> QED
  BY <1>1, <1>2, PTL DEF SpecTabeli

\* The row above a row of a lower level is a folder of the table, one level up.
LEMMA RodzicWTabeli ==
    ASSUME NEW r \in Tabela, Rodzic[r] # Brak
    PROVE  /\ Rodzic[r] \in Foldery
           /\ Rodzic[r] \in Tabela
           /\ Poziom[r] = Poziom[Rodzic[r]] + 1
           /\ Poziom[r] \in Nat /\ Poziom[Rodzic[r]] \in Nat
<1>1. Rodzic[r] \in Tabela
  BY DrzewoAssumption
<1>2. Rodzic[r] \in Foldery
  BY <1>1 DEF Foldery, Nizsze
<1> QED
  BY <1>1, <1>2, DrzewoAssumption

\* A row is not below its children.
LEMMA NieWKolko ==
    ASSUME NEW q \in Tabela, Rodzic[q] # Brak
    PROVE  Rodzic[q] \notin Pod[q]
BY RodzicWTabeli, DrzewoAssumption

\* The children of a folder go together, so the first one tells of all.
LEMMA DzieciRazem ==
    ASSUME ZgodneStrzalki, NEW f \in pokazane \cap Foldery, f \in Tabela, NEW r \in Nizsze(f)
    PROVE  r \in pokazane <=> f \in otwarte
<1>1. r \in Tabela /\ Rodzic[r] = f /\ f # Brak
  BY DrzewoAssumption DEF Nizsze
<1> QED
  BY <1>1 DEF ZgodneStrzalki

\* A folder has a first child.
LEMMA Pierwsze ==
    ASSUME NEW f \in Foldery
    PROVE  PierwszeDziecko(f) \in Nizsze(f)
<1> DEFINE Pozycje == {Poz[q] : q \in Nizsze(f)}
<1>1. Nizsze(f) \subseteq Tabela /\ Nizsze(f) # {}
  BY DEF Foldery, Nizsze
<1>2. Pozycje \subseteq Nat /\ Pozycje # {}
  BY <1>1, DrzewoAssumption
<1>3. PICK n \in Pozycje : \A m \in Pozycje : n <= m
  <2> HIDE DEF Pozycje
  <2> QED
    BY <1>2, Najmniejsza
<1>4. \A m \in Pozycje : n <= m
  BY <1>3
<1>5. PICK q \in Nizsze(f) : Poz[q] = n
  OBVIOUS
<1>6. \A s \in Nizsze(f) : Poz[q] <= Poz[s]
  BY <1>4, <1>5
<1> QED
  <2> HIDE DEF Pozycje
  <2> QED
    BY <1>5, <1>6 DEF PierwszeDziecko

\* Folding a row keeps rows and arrows together.
LEMMA SkladanieZgodne ==
    ASSUME ZgodneStrzalki, TypTabeli,
           NEW f \in Tabela, f \in pokazane \cap Foldery,
           otwarte' = otwarte \ {f}, Chowaj(f)
    PROVE  ZgodneStrzalki'
<1> SUFFICES ASSUME NEW r \in Tabela
             PROVE  r \in pokazane' <=> \/ Rodzic[r] = Brak
                                        \/ Rodzic[r] \in pokazane' \cap otwarte'
  BY DEF ZgodneStrzalki
<1>1. r \in pokazane <=> Rodzic[r] = Brak \/ Rodzic[r] \in pokazane \cap otwarte
  BY DEF ZgodneStrzalki
<1>2. CASE Rodzic[r] = Brak
  <2>1. r \in Pod[f] => r = f
    BY <1>2, DrzewoAssumption
  <2> QED
    BY <1>1, <1>2, <2>1 DEF Chowaj
<1>3. CASE Rodzic[r] # Brak
  <2>1. Rodzic[r] \in Tabela /\ Rodzic[r] # r
    BY <1>3, RodzicWTabeli
  <2>2. r \in Pod[f] <=> r = f \/ Rodzic[r] \in Pod[f]
    BY <1>3, DrzewoAssumption
  <2>3. f \in Pod[f]
    BY DrzewoAssumption
  <2>4. CASE r = f
    <3>1. Rodzic[r] \notin Pod[f]
      BY <1>3, <2>4, NieWKolko
    <3> QED
      BY <1>1, <1>3, <2>1, <2>4, <3>1 DEF Chowaj
  <2>5. CASE r # f /\ Rodzic[r] \in Pod[f]
    BY <1>3, <2>2, <2>5 DEF Chowaj
  <2>6. CASE r # f /\ Rodzic[r] \notin Pod[f]
    BY <1>1, <1>3, <2>2, <2>3, <2>6 DEF Chowaj
  <2> QED
    BY <2>4, <2>5, <2>6
<1> QED
  BY <1>2, <1>3

\* Unfolding too: the children come closed, and nothing below them was shown.
LEMMA RozkladanieZgodne ==
    ASSUME ZgodneStrzalki, TypTabeli,
           NEW f \in Tabela, f \in pokazane \cap Foldery, f \notin otwarte, Pokaz(f)
    PROVE  ZgodneStrzalki'
<1> SUFFICES ASSUME NEW r \in Tabela
             PROVE  r \in pokazane' <=> \/ Rodzic[r] = Brak
                                        \/ Rodzic[r] \in pokazane' \cap otwarte'
  BY DEF ZgodneStrzalki
<1>1. r \in pokazane <=> Rodzic[r] = Brak \/ Rodzic[r] \in pokazane \cap otwarte
  BY DEF ZgodneStrzalki
<1>2. f # Brak /\ f \notin Nizsze(f)
  BY RodzicWTabeli, DrzewoAssumption DEF Nizsze
<1>3. CASE r \in Nizsze(f)
  BY <1>2, <1>3 DEF Pokaz, Nizsze
<1>4. CASE r \notin Nizsze(f) /\ Rodzic[r] = Brak
  BY <1>1, <1>4 DEF Pokaz
<1>5. CASE r \notin Nizsze(f) /\ Rodzic[r] \in Nizsze(f)
  <2>1. Rodzic[r] \in Tabela /\ Rodzic[r] # Brak /\ Rodzic[Rodzic[r]] = f
    BY <1>5, DrzewoAssumption DEF Nizsze
  <2>2. Rodzic[r] \notin pokazane
    BY <1>2, <2>1 DEF ZgodneStrzalki
  <2>3. r \notin pokazane
    BY <1>1, <2>1, <2>2
  <2> QED
    BY <1>2, <1>5, <2>1, <2>3 DEF Pokaz, Nizsze
<1>6. CASE r \notin Nizsze(f) /\ Rodzic[r] # Brak /\ Rodzic[r] \notin Nizsze(f)
  <2>1. Rodzic[r] # f
    BY <1>6 DEF Nizsze
  <2> QED
    BY <1>1, <1>6, <2>1 DEF Pokaz
<1> QED
  BY <1>3, <1>4, <1>5, <1>6

\* After any clicks a row is displayed exactly when the row above it is and looks open.
THEOREM RzedyIStrzalki == SpecTabeli => []ZgodneStrzalki
<1>1. InitTabeli => ZgodneStrzalki
  BY RodzicWTabeli DEF InitTabeli, ZgodneStrzalki
<1>2. ZgodneStrzalki /\ TypTabeli /\ [NextTabeli]_varsTabeli => ZgodneStrzalki'
  <2> SUFFICES ASSUME ZgodneStrzalki, TypTabeli, [NextTabeli]_varsTabeli
               PROVE  ZgodneStrzalki'
    OBVIOUS
  <2>1. ASSUME NEW f \in Tabela, toggleFolder(f) PROVE ZgodneStrzalki'
    <3>1. f \in pokazane \cap Foldery
      BY <2>1 DEF toggleFolder
    <3>2. PierwszeDziecko(f) \in Nizsze(f)
      BY <3>1, Pierwsze
    <3>3. PierwszeDziecko(f) \in pokazane <=> f \in otwarte
      BY <3>1, <3>2, DzieciRazem
    <3>4. CASE f \in otwarte
      <4>1. otwarte' = otwarte \ {f} /\ Chowaj(f)
        BY <2>1, <3>3, <3>4 DEF toggleFolder
      <4> QED
        BY <3>1, <4>1, SkladanieZgodne
    <3>5. CASE f \notin otwarte
      <4>1. Pokaz(f)
        BY <2>1, <3>3, <3>5 DEF toggleFolder
      <4> QED
        BY <3>1, <3>5, <4>1, RozkladanieZgodne
    <3> QED
      BY <3>4, <3>5
  <2>2. ASSUME NEW level \in Poziomy, toggleLevel(level) PROVE ZgodneStrzalki'
    <3> SUFFICES ASSUME NEW r \in Tabela
                 PROVE  r \in pokazane' <=> \/ Rodzic[r] = Brak
                                            \/ Rodzic[r] \in pokazane' \cap otwarte'
      BY DEF ZgodneStrzalki
    <3>1. level \in Nat \ {0} /\ Poziom[r] \in Nat
      BY DrzewoAssumption
    <3>2. CASE Rodzic[r] = Brak
      BY <2>2, <3>1, <3>2, DrzewoAssumption DEF toggleLevel
    <3>3. CASE Rodzic[r] # Brak
      BY <2>2, <3>1, <3>3, RodzicWTabeli DEF toggleLevel
    <3> QED
      BY <3>2, <3>3
  <2>3. CASE UNCHANGED varsTabeli
    BY <2>3 DEF ZgodneStrzalki, varsTabeli
  <2> QED
    BY <2>1, <2>2, <2>3 DEF NextTabeli
<1> QED
  BY <1>1, <1>2, TypowanieTabeli, PTL DEF SpecTabeli
-----------------------------------------------------------------------------
(* The page of results (WynikiSzukania): its keys.  A keypress acts if     *)
(* repeatOn was set before, and that is only by a keypress after the same  *)
(* keydown, or left over from a release that the field of the parent page  *)
(* received; in the latter case the next keydown clears it, unless it is   *)
(* Enter, which is left to the browser.                                    *)

\* The smaller of a number and two.
LEMMA NajwyzejDwa ==
    ASSUME NEW n \in Nat
    PROVE  Min({n + 1, 2}) \in 1 .. 2
<1>1. \E x \in {n + 1, 2} : \A y \in {n + 1, 2} : x =< y
  <2>1. n + 1 =< 2 \/ 2 =< n + 1
    OBVIOUS
  <2> QED
    BY <2>1
<1>2. Min({n + 1, 2}) \in {n + 1, 2} /\ Min({n + 1, 2}) =< 2
  BY <1>1 DEF Min
<1> QED
  BY <1>2

\* The first keypress finds repeatOn cleared, if it is one that would act.
PrasaOK ==
    /\ nacisniecia \in Nat
    /\ nacisniecia = 0 /\ trzymany \notin {0, Enter} /\ fokus # Pole => ~repeatOn

\* The page is loaded with no key held.
LEMMA PrasaPoczatek == InitWynikow => PrasaOK
BY DEF InitWynikow, PrasaOK

\* A keydown in the results clears repeatOn; one in the field leaves the focus there.
LEMMA PrasaKrok == ASSUME PrasaOK, [NextWynikow]_varsWynikow PROVE PrasaOK'
<1>1. CASE Keydown
  <2>1. PICK k : /\ trzymany' = k
                 /\ IF fokus = Pole THEN UNCHANGED <<lastKey, repeatOn, fokus, rozwiniete>>
                    ELSE IF k = Enter
                    THEN /\ Len(fokus) = 1 /\ Dzieci(fokus[1]) > 0
                         /\ Toggle(fokus[1])
                         /\ UNCHANGED <<lastKey, repeatOn, fokus>>
                    ELSE ZdarzenieKlawisza("keydown", k)
    BY <1>1 DEF Keydown
  <2>2. nacisniecia' = 0
    BY <1>1 DEF Keydown
  <2>3. ZdarzenieKlawisza("keydown", k) /\ k # Enter => repeatOn' = FALSE
    BY DEF ZdarzenieKlawisza, ProcessKeys
  <2> QED
    BY <2>1, <2>2, <2>3 DEF PrasaOK
<1>2. CASE Keypress
  <2>1. nacisniecia' \in 1 .. 2
    BY <1>2, NajwyzejDwa DEF Keypress, PrasaOK
  <2> QED
    BY <2>1 DEF PrasaOK
<1>3. CASE Keyup
  BY <1>3 DEF Keyup, PrasaOK
<1>4. CASE KlikWynikow
  BY <1>4 DEF KlikWynikow, PrasaOK
<1>5. CASE WczytanieStrony
  BY <1>5 DEF WczytanieStrony, PrasaOK
<1>6. CASE UNCHANGED varsWynikow
  BY <1>6 DEF varsWynikow, PrasaOK
<1> QED
  BY <1>1, <1>2, <1>3, <1>4, <1>5, <1>6 DEF NextWynikow

\* One press of a key is one step.
LEMMA PrasaNieDziala ==
    ASSUME PrasaOK, Keypress, nacisniecia = 0
    PROVE  UNCHANGED <<fokus, rozwiniete>>
<1>1. trzymany # 0 /\ fokus # Pole /\ ZdarzenieKlawisza("keypress", trzymany)
  BY DEF Keypress
<1>2. CASE trzymany = Enter
  BY <1>1, <1>2 DEF ZdarzenieKlawisza
<1>3. CASE trzymany # Enter
  <2>1. ~repeatOn
    BY <1>1, <1>3 DEF PrasaOK
  <2> QED
    BY <1>1, <1>3, <2>1 DEF ZdarzenieKlawisza
<1> QED
  BY <1>2, <1>3

\* The first keypress after a keydown never acts.
THEOREM PierwszyZawsze == SpecWynikow => PierwszyNieDziala
<1>1. PrasaOK /\ [NextWynikow]_varsWynikow => PrasaOK'
  BY PrasaKrok
<1>2. PrasaOK /\ [NextWynikow]_varsWynikow
      => [Keypress /\ nacisniecia = 0 => UNCHANGED <<fokus, rozwiniete>>]_varsWynikow
  BY PrasaNieDziala
<1> QED
  BY <1>1, <1>2, PrasaPoczatek, PTL DEF SpecWynikow, PierwszyNieDziala

\* The page with the table and the results in front of it is a page of either kind: an
\* event of one is none of the other, or a click beside the results.
THEOREM StronaZlozona == SpecStrony => SpecTabeli /\ SpecWynikow
<1>1. InitStrony => InitTabeli /\ InitWynikow
  BY DEF InitStrony
<1>2. [NextStrony]_varsStrony => [NextTabeli]_varsTabeli
  BY DEF NextStrony, ZdarzenieTabeli, ZdarzenieWynikow, varsStrony
<1>3. [NextStrony]_varsStrony => [NextWynikow]_varsWynikow
  <2>1. ZdarzenieTabeli => KlikWynikow \/ UNCHANGED varsWynikow
    BY DEF ZdarzenieTabeli, KlikWynikow, varsWynikow
  <2> QED
    BY <2>1 DEF NextStrony, ZdarzenieWynikow, NextWynikow, varsStrony
<1> QED
  BY <1>1, <1>2, <1>3, PTL DEF SpecStrony, SpecTabeli, SpecWynikow

-----------------------------------------------------------------------------
(* The search (WynikiSzukania).  An id is the codes of the characters of a *)
(* name, one after another, and no code is the beginning of another one    *)
(* (Kody): so one id begins with another exactly if the names do.          *)
(* FlattenSeq is a recursive function; what it computes is shown by least  *)
(* numbers: the first place where something fails cannot exist.            *)

Kodowany(s) == [i \in DOMAIN s |-> Kod(s[i])]
Znaki == 0 .. 255

\* h is what has been written after each of the first k elements of q.
Sklejane(q, k, h) ==
    /\ h \in [0 .. k -> Seq(Nat)]
    /\ h[0] = <<>>
    /\ \A i \in 1 .. k : h[i] = h[i - 1] \o q[i]

\* A step by step claim holds at every place if it holds at the first and is handed on.
LEMMA OdPoczatku ==
    ASSUME NEW n \in Nat, NEW D \in SUBSET (0 .. n), 0 \in D,
           \A k \in 0 .. n : k < n /\ k \in D => k + 1 \in D
    PROVE  D = 0 .. n
<1> SUFFICES ASSUME (0 .. n) \ D # {} PROVE FALSE
  OBVIOUS
<1> DEFINE T == (0 .. n) \ D
<1>1. T \in SUBSET Nat /\ T # {}
  OBVIOUS
<1> HIDE DEF T
<1>2. PICK m \in T : \A k \in T : m <= k
  BY <1>1, Najmniejsza
<1>3. m \in 0 .. n /\ m \notin D /\ m # 0
  BY DEF T
<1>4. m - 1 \in 0 .. n /\ m - 1 < n /\ ~(m <= m - 1) /\ (m - 1) + 1 = m
  BY <1>3
<1>5. m - 1 \in D
  BY <1>2, <1>4 DEF T
<1> QED
  BY <1>3, <1>4, <1>5

\* One element more is written.
LEMMA SklejanieDalej ==
    ASSUME NEW q \in Seq(Seq(Nat)), NEW k \in Nat, k + 1 \in 1 .. Len(q),
           NEW h, Sklejane(q, k, h)
    PROVE  \E g : Sklejane(q, k + 1, g)
<1>1. q[k + 1] \in Seq(Nat) /\ h[k] \in Seq(Nat) /\ 0 \in 0 .. k /\ 0 # k + 1
  BY DEF Sklejane
<1>2. PICK w \in Seq(Nat) : w = h[k] \o q[k + 1]
  <2>1. h[k] \o q[k + 1] \in Seq(Nat)
    BY <1>1, ConcatProperties
  <2> QED
    BY <2>1
<1> DEFINE g == [i \in 0 .. k + 1 |-> IF i = k + 1 THEN w ELSE h[i]]
<1>3. k + 1 \in 0 .. k + 1 /\ \A i \in 0 .. k : i \in 0 .. k + 1 /\ i # k + 1
  OBVIOUS
<1>4. g[k + 1] = w /\ \A i \in 0 .. k : g[i] = h[i]
  BY <1>3
<1>5. g \in [0 .. k + 1 -> Seq(Nat)]
  <2>1. \A i \in 0 .. k + 1 : i # k + 1 => i \in 0 .. k
    OBVIOUS
  <2> QED
    BY <2>1 DEF Sklejane
<1> HIDE DEF g
<1>6. ASSUME NEW i \in 1 .. k + 1 PROVE g[i] = g[i - 1] \o q[i]
  <2>1. CASE i = k + 1
    <3>1. i - 1 = k /\ k \in 0 .. k
      BY <2>1
    <3> QED
      BY <1>2, <1>4, <2>1, <3>1
  <2>2. CASE i # k + 1
    <3>1. i \in 1 .. k /\ i \in 0 .. k /\ i - 1 \in 0 .. k
      BY <2>2
    <3>2. h[i] = h[i - 1] \o q[i]
      BY <3>1 DEF Sklejane
    <3> QED
      BY <1>4, <3>1, <3>2
  <2> QED
    BY <2>1, <2>2
<1>7. g[0] = <<>>
  BY <1>1, <1>4 DEF Sklejane
<1>8. Sklejane(q, k + 1, g)
  BY <1>5, <1>6, <1>7 DEF Sklejane
<1> QED
  BY <1>8

\* Any sequence of sequences can be written down element by element.
LEMMA SklejanieIstnieje ==
    ASSUME NEW q \in Seq(Seq(Nat))
    PROVE  \E h : Sklejane(q, Len(q), h)
<1> DEFINE D == {k \in 0 .. Len(q) : \E h : Sklejane(q, k, h)}
<1>1. Len(q) \in Nat
  OBVIOUS
<1>2. 0 \in D
  <2>1. Sklejane(q, 0, [i \in 0 .. 0 |-> <<>>])
    BY DEF Sklejane
  <2>2. 0 \in 0 .. Len(q)
    BY <1>1
  <2> QED
    BY <2>1, <2>2
<1>3. ASSUME NEW k \in 0 .. Len(q), k < Len(q), k \in D PROVE k + 1 \in D
  <2>1. k \in Nat /\ k + 1 \in 1 .. Len(q) /\ k + 1 \in 0 .. Len(q)
    BY <1>1, <1>3
  <2>2. PICK h : Sklejane(q, k, h)
    BY <1>3
  <2>3. \E g : Sklejane(q, k + 1, g)
    BY <2>1, <2>2, SklejanieDalej
  <2> QED
    BY <2>1, <2>3
<1>4. D \in SUBSET (0 .. Len(q)) /\ (Len(q) \in D => \E h : Sklejane(q, Len(q), h))
  OBVIOUS
<1> HIDE DEF D
<1>5. Len(q) \in D
  BY <1>1, <1>2, <1>3, <1>4, OdPoczatku
<1> QED
  BY <1>4, <1>5

\* FlattenSeq writes down the whole sequence.
LEMMA Sklejenie ==
    ASSUME NEW q \in Seq(Seq(Nat)), NEW h, Sklejane(q, Len(q), h)
    PROVE  FlattenSeq(q) = h[Len(q)]
<1>1. Len(q) \in Nat
  OBVIOUS
<1>2. CASE Len(q) = 0
  <2>1. q = <<>>
    BY <1>2, EmptySeq
  <2> QED
    BY <1>2, <2>1 DEF FlattenSeq, Sklejane
<1>3. CASE Len(q) # 0
  <2> DEFINE Rowna(f) == f = [i \in 1 .. Len(q) |-> IF i = 1 THEN q[i] ELSE f[i - 1] \o q[i]]
             f0 == CHOOSE f : Rowna(f)
             g == [i \in 1 .. Len(q) |-> h[i]]
  <2>1. \A i \in 1 .. Len(q) : i - 1 \in 0 .. Len(q) /\ q[i] \in Seq(Nat)
    OBVIOUS
  <2>2. 1 \in 1 .. Len(q) /\ 1 - 1 = 0 /\ q[1] \in Seq(Nat)
    BY <1>1, <1>3
  <2>3. h[1] = q[1]
    <3>1. h[1] = h[1 - 1] \o q[1]
      BY <2>2 DEF Sklejane
    <3>2. h[1] = <<>> \o q[1]
      BY <2>2, <3>1 DEF Sklejane
    <3> QED
      BY <2>2, <3>2
  <2>4. Rowna(g)
    <3>1. ASSUME NEW i \in 1 .. Len(q)
          PROVE  h[i] = IF i = 1 THEN q[i] ELSE g[i - 1] \o q[i]
      <4>1. CASE i = 1
        BY <2>3, <4>1
      <4>2. CASE i # 1
        <5>1. i - 1 \in 1 .. Len(q)
          BY <4>2
        <5> QED
          BY <4>2, <5>1 DEF Sklejane
      <4> QED
        BY <4>1, <4>2
    <3> HIDE DEF g
    <3>2. [i \in 1 .. Len(q) |-> h[i]]
          = [i \in 1 .. Len(q) |-> IF i = 1 THEN q[i] ELSE g[i - 1] \o q[i]]
      BY <3>1
    <3> QED
      BY <3>2 DEF g
  <2>5. Rowna(f0)
    <3> HIDE DEF Rowna, g
    <3> QED
      BY <2>4
  <2>6. FlattenSeq(q) = f0[Len(q)]
    BY <1>3 DEF FlattenSeq
  <2>7. f0[1] = q[1] /\ \A i \in 1 .. Len(q) : i # 1 => f0[i] = f0[i - 1] \o q[i]
    <3> HIDE DEF f0
    <3> QED
      BY <2>2, <2>5
  <2> HIDE DEF f0
  <2> DEFINE D == {k \in 0 .. Len(q) : k = 0 \/ f0[k] = h[k]}
  <2>8. ASSUME NEW k \in 0 .. Len(q), k < Len(q), k \in D PROVE k + 1 \in D
    <3>1. k + 1 \in 1 .. Len(q) /\ k + 1 \in 0 .. Len(q) /\ (k + 1) - 1 = k
      <4>1. k < Len(q) /\ k \in 0 .. Len(q)
        BY <2>8
      <4> HIDE DEF D
      <4> QED
        BY <1>1, <4>1
    <3>2. h[k + 1] = h[k] \o q[k + 1]
      BY <3>1 DEF Sklejane
    <3>3. CASE k = 0
      BY <2>3, <2>7, <3>1, <3>3
    <3>4. CASE k # 0
      <4>1. f0[k] = h[k] /\ k + 1 # 1
        BY <2>8, <3>4
      <4>2. f0[k + 1] = f0[k] \o q[k + 1]
        BY <2>7, <3>1, <4>1
      <4>3. f0[k + 1] = h[k + 1]
        BY <3>2, <4>1, <4>2
      <4> QED
        BY <3>1, <4>3
    <3> QED
      BY <3>3, <3>4
  <2>9. D \in SUBSET (0 .. Len(q)) /\ 0 \in D /\ (Len(q) \in D => f0[Len(q)] = h[Len(q)])
    BY <1>1, <1>3
  <2> HIDE DEF D
  <2>10. Len(q) \in D
    BY <1>1, <2>8, <2>9, OdPoczatku
  <2> QED
    BY <2>6, <2>9, <2>10
<1> QED
  BY <1>2, <1>3

\* The digits of a code are letters and digits, and different ones are different.
LEMMA Cyfry ==
    ASSUME NEW a \in 0 .. 15, NEW b \in 0 .. 15
    PROVE  Cyfra(a) \in Nat /\ (Cyfra(a) = Cyfra(b) => a = b)
BY DEF Cyfra

\* The halves of a character below 128 that needs a code.
LEMMA Polowy ==
    ASSUME NEW c \in 0 .. 255
    PROVE  c \div 16 \in 0 .. 15 /\ c % 16 \in 0 .. 15 /\ c = 16 * (c \div 16) + (c % 16)
OBVIOUS

\* The code of a character: itself, or an underscore, which no character is for itself,
\* and two digits.
LEMMA Kody ==
    ASSUME NEW c \in Znaki
    PROVE  /\ Zwykly(c) => c # Podkreslenie /\ Kod(c) = <<c>>
           /\ ~Zwykly(c) => Kod(c) = <<Podkreslenie, Cyfra(c \div 16), Cyfra(c % 16)>>
           /\ Kod(c) \in Seq(Nat) /\ Len(Kod(c)) \in Nat \ {0}
<1>1. c \in 0 .. 255 /\ Cyfra(c \div 16) \in Nat /\ Cyfra(c % 16) \in Nat
  BY Polowy, Cyfry DEF Znaki
<1>2. Zwykly(c) => c # Podkreslenie /\ Kod(c) = <<c>>
  BY <1>1 DEF Zwykly, Kod, Podkreslenie
<1>3. ~Zwykly(c) => Kod(c) = <<Podkreslenie, Cyfra(c \div 16), Cyfra(c % 16)>>
  <2>1. CASE c < 16
    <3>1. c \div 16 = 0 /\ c % 16 = c /\ Cyfra(0) = 48
      BY <1>1, <2>1 DEF Cyfra
    <3>2. ~Zwykly(c) => Kod(c) = <<Podkreslenie, 48>> \o <<Cyfra(c)>>
      BY <2>1 DEF Kod, Szesnastkowo
    <3> QED
      BY <3>1, <3>2
  <2>2. CASE ~(c < 16)
    <3>1. ~Zwykly(c) => Kod(c) = <<Podkreslenie>> \o <<Cyfra(c \div 16), Cyfra(c % 16)>>
      BY <2>2 DEF Kod, Szesnastkowo
    <3> QED
      BY <3>1
  <2> QED
    BY <2>1, <2>2
<1>4. <<c>> \in Seq(Nat) /\ Len(<<c>>) = 1
  BY <1>1
<1>5. /\ <<Podkreslenie, Cyfra(c \div 16), Cyfra(c % 16)>> \in Seq(Nat)
      /\ Len(<<Podkreslenie, Cyfra(c \div 16), Cyfra(c % 16)>>) = 3
  BY <1>1 DEF Podkreslenie
<1>6. Kod(c) \in Seq(Nat) /\ Len(Kod(c)) \in {1, 3}
  BY <1>2, <1>3, <1>4, <1>5
<1> QED
  BY <1>2, <1>3, <1>6

\* No code is the beginning of another one.
LEMMA KodyRozne ==
    ASSUME NEW a \in Znaki, NEW b \in Znaki,
           \A j \in Nat : j \in 1 .. Len(Kod(a)) /\ j \in 1 .. Len(Kod(b))
                          => Kod(a)[j] = Kod(b)[j]
    PROVE  a = b
<1>1. Kod(a)[1] = Kod(b)[1]
  BY Kody
<1>2. CASE Zwykly(a) /\ Zwykly(b)
  BY <1>1, <1>2, Kody
<1>3. CASE Zwykly(a) /\ ~Zwykly(b)
  <2>1. Kod(a)[1] = a /\ Kod(b)[1] = Podkreslenie /\ a # Podkreslenie
    BY <1>3, Kody
  <2> QED
    BY <1>1, <2>1
<1>4. CASE ~Zwykly(a) /\ Zwykly(b)
  <2>1. Kod(b)[1] = b /\ Kod(a)[1] = Podkreslenie /\ b # Podkreslenie
    BY <1>4, Kody
  <2> QED
    BY <1>1, <2>1
<1>5. CASE ~Zwykly(a) /\ ~Zwykly(b)
  <2>1. /\ Kod(a) = <<Podkreslenie, Cyfra(a \div 16), Cyfra(a % 16)>>
        /\ Kod(b) = <<Podkreslenie, Cyfra(b \div 16), Cyfra(b % 16)>>
    BY <1>5, Kody
  <2>2. /\ 2 \in 1 .. Len(Kod(a)) /\ 2 \in 1 .. Len(Kod(b))
        /\ 3 \in 1 .. Len(Kod(a)) /\ 3 \in 1 .. Len(Kod(b))
    BY <2>1
  <2>3. Kod(a)[2] = Kod(b)[2] /\ Kod(a)[3] = Kod(b)[3]
    BY <2>2
  <2>4. Cyfra(a \div 16) = Cyfra(b \div 16) /\ Cyfra(a % 16) = Cyfra(b % 16)
    BY <2>1, <2>3
  <2>5. /\ a \div 16 \in 0 .. 15 /\ a % 16 \in 0 .. 15 /\ a = 16 * (a \div 16) + (a % 16)
        /\ b \div 16 \in 0 .. 15 /\ b % 16 \in 0 .. 15 /\ b = 16 * (b \div 16) + (b % 16)
    BY Polowy DEF Znaki
  <2>6. a \div 16 = b \div 16 /\ a % 16 = b % 16
    BY <2>4, <2>5, Cyfry
  <2> QED
    BY <2>5, <2>6
<1> QED
  BY <1>2, <1>3, <1>4, <1>5

\* The list generator writes the same codes as the page.
LEMMA TenSamKod == \A c \in Znaki : KodGeneratora(c) = Kod(c)
BY Kody DEF KodGeneratora

\* s is the beginning of t.
Poczatek(s, t) == Len(s) <= Len(t) /\ \A i \in 1 .. Len(s) : s[i] = t[i]

\* IsPrefix says so, element by element.
LEMMA PrefiksPoczatek ==
    ASSUME NEW s \in Seq(Nat), NEW t \in Seq(Nat)
    PROVE  IsPrefix(s, t) <=> Poczatek(s, t)
<1>1. SubSeq(s, 1, Len(s)) = s
  OBVIOUS
<1>2. CASE Len(s) <= Len(t)
  <2> DEFINE p == SubSeq(t, 1, Len(s))
  <2>1. p \in Seq(Nat) /\ Len(p) = Len(s) /\ \A i \in 1 .. Len(s) : p[i] = t[i]
    BY <1>2
  <2>2. s = p <=> \A i \in 1 .. Len(s) : s[i] = t[i]
    <3> HIDE DEF p
    <3>1. (\A i \in 1 .. Len(s) : s[i] = p[i]) => s = p
      BY <2>1, SeqEqual
    <3> QED
      BY <2>1, <3>1
  <2> QED
    BY <1>1, <1>2, <2>2 DEF IsPrefix, Poczatek
<1>3. CASE ~(Len(s) <= Len(t))
  BY <1>3 DEF IsPrefix, Poczatek
<1> QED
  BY <1>2, <1>3

\* The beginning of a beginning.
LEMMA PoczatekPrzechodni ==
    ASSUME NEW s \in Seq(Nat), NEW t \in Seq(Nat), NEW u \in Seq(Nat),
           Poczatek(s, t), Poczatek(t, u)
    PROVE  Poczatek(s, u)
<1>1. \A i \in 1 .. Len(s) : i \in 1 .. Len(t)
  BY DEF Poczatek
<1> QED
  BY <1>1 DEF Poczatek

\* What is added leaves the beginning.
LEMMA PoczatekZlaczenia ==
    ASSUME NEW s \in Seq(Nat), NEW t \in Seq(Nat)
    PROVE  /\ s \o t \in Seq(Nat) /\ Len(s \o t) = Len(s) + Len(t) /\ Poczatek(s, s \o t)
           /\ \A j \in 1 .. Len(t) : (s \o t)[Len(s) + j] = t[j]
BY ConcatProperties DEF Poczatek

\* What is written after some elements is the beginning of what is written in the end.
LEMMA Rosnie ==
    ASSUME NEW q \in Seq(Seq(Nat)), NEW n \in Nat, n <= Len(q), NEW h, Sklejane(q, n, h)
    PROVE  \A k \in 0 .. n : h[k] \in Seq(Nat) /\ Poczatek(h[k], h[n])
<1>1. \A k \in 0 .. n : h[k] \in Seq(Nat) /\ Len(h[k]) \in Nat
  BY DEF Sklejane
<1>2. n \in 0 .. n
  OBVIOUS
<1> DEFINE D == {d \in 0 .. n : Poczatek(h[n - d], h[n])}
<1>3. 0 \in D /\ D \in SUBSET (0 .. n)
  <2>1. Poczatek(h[n], h[n]) /\ n - 0 = n
    BY <1>1, <1>2 DEF Poczatek
  <2> QED
    BY <1>2, <2>1
<1>4. ASSUME NEW d \in 0 .. n, d < n, d \in D PROVE d + 1 \in D
  <2>1. Poczatek(h[n - d], h[n])
    BY <1>4
  <2> HIDE DEF D
  <2>2. PICK m \in 1 .. n : m = n - d
    BY <1>4
  <2>3. m - 1 \in 0 .. n /\ m \in 0 .. n /\ m - 1 = n - (d + 1) /\ d + 1 \in 0 .. n
    BY <1>4, <2>2
  <2>4. q[m] \in Seq(Nat)
    BY <2>2
  <2>5. h[m] = h[m - 1] \o q[m]
    BY DEF Sklejane
  <2>6. h[m] \in Seq(Nat) /\ h[m - 1] \in Seq(Nat) /\ h[n] \in Seq(Nat)
    BY <1>1, <1>2, <2>3
  <2>7. Poczatek(h[m - 1], h[m])
    BY <2>4, <2>5, <2>6, PoczatekZlaczenia
  <2>8. Poczatek(h[m], h[n])
    BY <2>1, <2>2
  <2>9. Poczatek(h[m - 1], h[n])
    BY <2>6, <2>7, <2>8, PoczatekPrzechodni
  <2>10. Poczatek(h[n - (d + 1)], h[n])
    BY <2>3, <2>9
  <2> QED
    BY <2>3, <2>10 DEF D
<1>5. D = 0 .. n
  <2> HIDE DEF D
  <2> QED
    BY <1>3, <1>4, OdPoczatku
<1>6. ASSUME NEW k \in 0 .. n PROVE Poczatek(h[k], h[n])
  <2>1. n - k \in 0 .. n /\ n - (n - k) = k
    OBVIOUS
  <2>2. Poczatek(h[n - (n - k)], h[n])
    BY <1>5, <2>1
  <2> QED
    BY <2>1, <2>2
<1> QED
  BY <1>1, <1>6

\* After the same elements the same is written.
LEMMA Wspolne ==
    ASSUME NEW q \in Seq(Seq(Nat)), NEW h, Sklejane(q, Len(q), h),
           NEW r \in Seq(Seq(Nat)), NEW g, Sklejane(r, Len(r), g),
           NEW n \in Nat, n <= Len(q), n <= Len(r), \A i \in 1 .. n : q[i] = r[i]
    PROVE  h[n] = g[n]
<1> DEFINE D == {k \in 0 .. n : h[k] = g[k]}
<1>1. D \in SUBSET (0 .. n) /\ 0 \in D
  BY DEF Sklejane
<1>2. ASSUME NEW k \in 0 .. n, k < n, k \in D PROVE k + 1 \in D
  <2>1. k + 1 \in 1 .. n /\ k + 1 \in 0 .. n /\ (k + 1) - 1 = k
        /\ k + 1 \in 1 .. Len(q) /\ k + 1 \in 1 .. Len(r)
    BY <1>2
  <2>2. h[k + 1] = h[k] \o q[k + 1] /\ g[k + 1] = g[k] \o r[k + 1]
    BY <2>1 DEF Sklejane
  <2>3. h[k] = g[k] /\ q[k + 1] = r[k + 1]
    BY <1>2, <2>1
  <2>4. h[k + 1] = g[k + 1]
    BY <2>2, <2>3
  <2> QED
    BY <2>1, <2>4
<1>3. (n \in D => h[n] = g[n]) /\ n \in 0 .. n
  OBVIOUS
<1> HIDE DEF D
<1>4. D = 0 .. n
  BY <1>1, <1>2, OdPoczatku
<1> QED
  BY <1>3, <1>4

\* The codes of a text, one after another.
LEMMA Kodowanie ==
    ASSUME NEW s \in Seq(Znaki)
    PROVE  /\ Kodowany(s) \in Seq(Seq(Nat)) /\ Len(Kodowany(s)) = Len(s)
           /\ \A i \in 1 .. Len(s) : s[i] \in Znaki /\ Kodowany(s)[i] = Kod(s[i])
           /\ convertToId(s) = FlattenSeq(Kodowany(s))
<1>1. Len(s) \in Nat /\ DOMAIN s = 1 .. Len(s) /\ \A i \in 1 .. Len(s) : s[i] \in Znaki
  OBVIOUS
<1>2. \A i \in 1 .. Len(s) : Kod(s[i]) \in Seq(Nat)
  BY <1>1, Kody
<1>3. Kodowany(s) = [i \in 1 .. Len(s) |-> Kod(s[i])]
  BY <1>1 DEF Kodowany
<1>4. Kodowany(s) \in Seq(Seq(Nat)) /\ Len(Kodowany(s)) = Len(s)
  BY <1>1, <1>2, <1>3
<1>5. convertToId(s) = FlattenSeq(Kodowany(s))
  BY DEF convertToId, Kodowany
<1> QED
  BY <1>1, <1>3, <1>4, <1>5

\* If the id of s is the beginning of the id of u, so is s of u: the first character in
\* which they differ would have different codes.
LEMMA KodPrefiksWprost ==
    ASSUME NEW s \in Seq(Znaki), NEW u \in Seq(Znaki),
           NEW h, Sklejane(Kodowany(s), Len(s), h), NEW g, Sklejane(Kodowany(u), Len(u), g),
           Poczatek(h[Len(s)], g[Len(u)])
    PROVE  Poczatek(s, u)
<1> DEFINE q == Kodowany(s)
           r == Kodowany(u)
<1>1. PICK n \in Nat, m \in Nat : n = Len(s) /\ m = Len(u)
  OBVIOUS
<1>2. /\ q \in Seq(Seq(Nat)) /\ Len(q) = n /\ \A i \in 1 .. n : s[i] \in Znaki /\ q[i] = Kod(s[i])
      /\ r \in Seq(Seq(Nat)) /\ Len(r) = m /\ \A i \in 1 .. m : u[i] \in Znaki /\ r[i] = Kod(u[i])
      /\ Sklejane(q, n, h) /\ Sklejane(r, m, g) /\ Poczatek(h[n], g[m])
  BY <1>1, Kodowanie
<1> HIDE DEF q, r
<1>3. \A k \in 0 .. n : h[k] \in Seq(Nat) /\ Poczatek(h[k], h[n])
  BY <1>2, Rosnie
<1>4. \A k \in 0 .. m : g[k] \in Seq(Nat) /\ Poczatek(g[k], g[m])
  <2>1. r \in Seq(Seq(Nat)) /\ m <= Len(r) /\ Sklejane(r, m, g)
    BY <1>2
  <2> QED
    BY <2>1, Rosnie
<1> DEFINE D == {k \in 0 .. n : k <= m /\ \A i \in 1 .. k : s[i] = u[i]}
<1>5. D \in SUBSET (0 .. n) /\ 0 \in D
  OBVIOUS
<1>6. ASSUME NEW k \in 0 .. n, k < n, k \in D PROVE k + 1 \in D
  <2>1. k <= m /\ \A i \in 1 .. k : s[i] = u[i]
    BY <1>6
  <2> HIDE DEF D
  <2>2. /\ k \in Nat /\ k \in 0 .. m /\ k + 1 \in 0 .. n /\ k + 1 \in 1 .. n /\ (k + 1) - 1 = k
        /\ n \in 0 .. n /\ m \in 0 .. m
    BY <1>6, <2>1
  <2>3. h[k] = g[k]
    <3>1. \A i \in 1 .. k : i \in 1 .. n /\ i \in 1 .. m
      BY <1>6, <2>1
    <3>2. \A i \in 1 .. k : q[i] = r[i]
      BY <1>2, <2>1, <3>1
    <3> QED
      BY <1>2, <2>1, <2>2, <3>2, Wspolne
  <2>4. PICK w \in Seq(Nat) : w = h[k]
    BY <1>3
  <2>5. s[k + 1] \in Znaki /\ q[k + 1] = Kod(s[k + 1])
    BY <1>2, <2>2
  <2>6. h[k + 1] = w \o Kod(s[k + 1])
    BY <1>2, <2>2, <2>4, <2>5 DEF Sklejane
  <2>7. Poczatek(h[k + 1], g[m])
    BY <1>2, <1>3, <1>4, <2>2, PoczatekPrzechodni
  <2>8. Kod(s[k + 1]) \in Seq(Nat) /\ Len(Kod(s[k + 1])) \in Nat \ {0}
    BY <2>5, Kody
  <2>9. /\ Len(h[k + 1]) = Len(w) + Len(Kod(s[k + 1])) /\ Len(w) \in Nat
        /\ \A j \in 1 .. Len(Kod(s[k + 1])) : h[k + 1][Len(w) + j] = Kod(s[k + 1])[j]
    BY <2>6, <2>8, PoczatekZlaczenia
  <2>10. k # m
    <3> SUFFICES ASSUME k = m PROVE FALSE
      OBVIOUS
    <3>1. Len(h[k + 1]) <= Len(w)
      BY <2>3, <2>4, <2>7 DEF Poczatek
    <3> QED
      BY <2>8, <2>9, <3>1
  <2>11. k + 1 \in 1 .. m /\ k + 1 \in 0 .. m
    BY <2>1, <2>2, <2>10
  <2>12. u[k + 1] \in Znaki /\ r[k + 1] = Kod(u[k + 1])
    BY <1>2, <2>11
  <2>13. g[k + 1] = w \o Kod(u[k + 1])
    BY <1>2, <2>2, <2>3, <2>4, <2>11, <2>12 DEF Sklejane
  <2>14. Kod(u[k + 1]) \in Seq(Nat) /\ Len(Kod(u[k + 1])) \in Nat \ {0}
    BY <2>12, Kody
  <2>15. /\ Len(g[k + 1]) = Len(w) + Len(Kod(u[k + 1]))
         /\ \A j \in 1 .. Len(Kod(u[k + 1])) : g[k + 1][Len(w) + j] = Kod(u[k + 1])[j]
    BY <2>13, <2>14, PoczatekZlaczenia
  <2>16. Poczatek(g[k + 1], g[m])
    BY <1>4, <2>11
  <2>17. ASSUME NEW j \in Nat, j \in 1 .. Len(Kod(s[k + 1])), j \in 1 .. Len(Kod(u[k + 1]))
         PROVE  Kod(s[k + 1])[j] = Kod(u[k + 1])[j]
    <3>1. Len(w) + j \in 1 .. Len(h[k + 1]) /\ Len(w) + j \in 1 .. Len(g[k + 1])
      BY <2>8, <2>9, <2>14, <2>15, <2>17
    <3>2. /\ h[k + 1][Len(w) + j] = g[m][Len(w) + j]
          /\ g[k + 1][Len(w) + j] = g[m][Len(w) + j]
      BY <2>7, <2>16, <3>1 DEF Poczatek
    <3> QED
      BY <2>9, <2>15, <2>17, <3>2
  <2>18. s[k + 1] = u[k + 1]
    BY <2>5, <2>12, <2>17, KodyRozne
  <2>19. k + 1 <= m /\ \A i \in 1 .. k + 1 : s[i] = u[i]
    <3>1. \A i \in 1 .. k + 1 : i \in 1 .. k \/ i = k + 1
      BY <2>2
    <3> QED
      BY <2>1, <2>11, <2>18, <3>1
  <2> QED
    BY <2>2, <2>19 DEF D
<1>7. (n \in D => n <= m /\ \A i \in 1 .. n : s[i] = u[i]) /\ n \in 0 .. n
  OBVIOUS
<1> HIDE DEF D
<1>8. D = 0 .. n
  BY <1>5, <1>6, OdPoczatku
<1> QED
  BY <1>1, <1>7, <1>8 DEF Poczatek

\* One id is the beginning of another exactly if the texts are.
LEMMA KodPrefiks ==
    ASSUME NEW s \in Seq(Znaki), NEW u \in Seq(Znaki)
    PROVE  IsPrefix(convertToId(s), convertToId(u)) <=> IsPrefix(s, u)
<1> DEFINE q == Kodowany(s)
           r == Kodowany(u)
<1>1. PICK n \in Nat, m \in Nat : n = Len(s) /\ m = Len(u)
  OBVIOUS
<1>2. /\ q \in Seq(Seq(Nat)) /\ Len(q) = n /\ \A i \in 1 .. n : s[i] \in Znaki /\ q[i] = Kod(s[i])
      /\ r \in Seq(Seq(Nat)) /\ Len(r) = m /\ \A i \in 1 .. m : u[i] \in Znaki /\ r[i] = Kod(u[i])
      /\ convertToId(s) = FlattenSeq(q) /\ convertToId(u) = FlattenSeq(r)
  BY <1>1, Kodowanie
<1> HIDE DEF q, r
<1>3. PICK h : Sklejane(q, n, h)
  BY <1>2, SklejanieIstnieje
<1>4. PICK g : Sklejane(r, m, g)
  BY <1>2, SklejanieIstnieje
<1>5. convertToId(s) = h[n] /\ convertToId(u) = g[m]
  BY <1>2, <1>3, <1>4, Sklejenie
<1>6. \A k \in 0 .. m : g[k] \in Seq(Nat) /\ Poczatek(g[k], g[m])
  <2>1. r \in Seq(Seq(Nat)) /\ m <= Len(r) /\ Sklejane(r, m, g)
    BY <1>2, <1>4
  <2> QED
    BY <2>1, Rosnie
<1>7. h[n] \in Seq(Nat) /\ g[m] \in Seq(Nat)
  BY <1>3, <1>4 DEF Sklejane
<1>8. IsPrefix(convertToId(s), convertToId(u)) <=> Poczatek(h[n], g[m])
  BY <1>5, <1>7, PrefiksPoczatek
<1>9. s \in Seq(Nat) /\ u \in Seq(Nat)
  <2>1. \A c \in Znaki : c \in Nat
    BY DEF Znaki
  <2>2. \A i \in 1 .. Len(s) : s[i] \in Znaki
    OBVIOUS
  <2>3. \A i \in 1 .. Len(u) : u[i] \in Znaki
    OBVIOUS
  <2> QED
    BY <2>1, <2>2, <2>3
<1>10. IsPrefix(s, u) <=> Poczatek(s, u)
  BY <1>9, PrefiksPoczatek
<1>11. Poczatek(h[n], g[m]) => Poczatek(s, u)
  BY <1>1, <1>3, <1>4, KodPrefiksWprost DEF q, r
<1>12. ASSUME Poczatek(s, u) PROVE Poczatek(h[n], g[m])
  <2>1. n <= m /\ \A i \in 1 .. n : s[i] = u[i]
    BY <1>1, <1>12 DEF Poczatek
  <2>2. \A i \in 1 .. n : i \in 1 .. m
    BY <2>1
  <2>3. \A i \in 1 .. n : q[i] = r[i]
    BY <1>2, <2>1, <2>2
  <2>4. h[n] = g[n]
    <3>1. q \in Seq(Seq(Nat)) /\ Sklejane(q, Len(q), h) /\ n <= Len(q)
      BY <1>2, <1>3
    <3>2. r \in Seq(Seq(Nat)) /\ Sklejane(r, Len(r), g) /\ n <= Len(r)
      BY <1>2, <1>4, <2>1
    <3> QED
      BY <2>3, <3>1, <3>2, Wspolne
  <2>5. n \in 0 .. m
    BY <2>1
  <2> QED
    BY <1>6, <2>4, <2>5
<1> QED
  BY <1>8, <1>10, <1>11, <1>12

\* Small letters for capital ones.
LEMMA MaleLitery ==
    ASSUME NEW s \in Seq(Znaki)
    PROVE  toLowerCase(s) \in Seq(Znaki)
<1>1. \A c \in Znaki : Mala(c) \in Znaki
  BY DEF Znaki, Mala
<1>2. DOMAIN s = 1 .. Len(s) /\ Len(s) \in Nat /\ \A i \in 1 .. Len(s) : s[i] \in Znaki
  OBVIOUS
<1>3. toLowerCase(s) = [i \in 1 .. Len(s) |-> Mala(s[i])]
  BY <1>2 DEF toLowerCase
<1>4. \A i \in 1 .. Len(s) : Mala(s[i]) \in Znaki
  BY <1>1, <1>2
<1> QED
  BY <1>2, <1>3, <1>4

\* The first and the last of some places.
LEMMA PierwszeIOstatnie ==
    ASSUME NEW n \in Nat, NEW z \in SUBSET (1 .. n), z # {}
    PROVE  Min(z) \in z /\ Max(z) \in z
<1>1. \E x \in z : \A y \in z : x =< y
  BY Najmniejsza
<1>2. \E x \in z : \A y \in z : x >= y
  <2> DEFINE T == {n - y : y \in z}
  <2>1. T \in SUBSET Nat /\ T # {}
    <3>1. \A y \in z : n - y \in Nat
      OBVIOUS
    <3> QED
      BY <3>1
  <2>2. PICK d \in T : \A e \in T : d <= e
    <3> HIDE DEF T
    <3> QED
      BY <2>1, Najmniejsza
  <2>3. PICK x \in z : d = n - x
    BY <2>2
  <2>4. ASSUME NEW y \in z PROVE x >= y
    <3>1. n - x <= n - y
      BY <2>2, <2>3
    <3>2. x \in 1 .. n /\ y \in 1 .. n
      OBVIOUS
    <3> QED
      BY <3>1, <3>2
  <2> QED
    BY <2>4
<1> QED
  BY <1>1, <1>2 DEF Min, Max

\* A text without the spaces around it.
LEMMA ObcietyTekst ==
    ASSUME NEW s \in Seq(Znaki)
    PROVE  Obciety(s) \in Seq(Znaki)
<1> DEFINE z == {i \in DOMAIN s : s[i] # Spacja}
<1>1. Len(s) \in Nat /\ z \in SUBSET (1 .. Len(s))
  OBVIOUS
<1>2. Obciety(s) = IF z = {} THEN <<>> ELSE SubSeq(s, Min(z), Max(z))
  BY DEF Obciety
<1> HIDE DEF z
<1>3. CASE z = {}
  BY <1>2, <1>3
<1>4. CASE z # {}
  <2>1. Min(z) \in 1 .. Len(s) /\ Max(z) \in 1 .. Len(s)
    BY <1>1, <1>4, PierwszeIOstatnie
  <2>2. PICK a \in 1 .. Len(s), b \in 1 .. Len(s) : a = Min(z) /\ b = Max(z)
    BY <2>1
  <2>3. SubSeq(s, a, b) \in Seq(Znaki)
    BY <1>1, SubSeqProperties
  <2> QED
    BY <1>2, <1>4, <2>2, <2>3
<1> QED
  BY <1>3, <1>4

\* The name of a row, in small letters, and its id.
Nazwa(i) == toLowerCase(searchData[i + 1].nazwa)

\* The list holds the ids the page would make of the names.
LEMMA IdyNazw ==
    ASSUME NEW i \in Wiersze
    PROVE  Nazwa(i) \in Seq(Znaki) /\ Id[i] = convertToId(Nazwa(i))
<1>1. i + 1 \in 1 .. Len(searchData)
  BY WynikiAssumption DEF Wiersze
<1>2. searchData[i + 1].nazwa \in Seq(Znaki)
  <2> DEFINE Dane == [nazwa : Seq(0 .. 255), dzieci : Nat]
  <2>1. searchData \in Seq(Dane)
    BY WynikiAssumption
  <2>2. searchData[i + 1] \in Dane
    <3> HIDE DEF Dane
    <3> QED
      BY <1>1, <2>1
  <2> QED
    BY <2>2 DEF Znaki
<1>3. Nazwa(i) \in Seq(Znaki)
  BY <1>2, MaleLitery DEF Nazwa
<1> DEFINE s == Nazwa(i)
<1>4. Id[i] = FlattenSeq([j \in DOMAIN s |-> KodGeneratora(s[j])])
  BY DEF Id, Nazwa
<1> HIDE DEF s
<1>5. \A j \in DOMAIN s : s[j] \in Znaki
  BY <1>3 DEF s
<1>6. [j \in DOMAIN s |-> KodGeneratora(s[j])] = [j \in DOMAIN s |-> Kod(s[j])]
  BY <1>5, TenSamKod
<1>7. convertToId(s) = FlattenSeq([j \in DOMAIN s |-> Kod(s[j])])
  BY DEF convertToId
<1> QED
  BY <1>3, <1>4, <1>6, <1>7 DEF s

\* What a search finds.
LEMMA SearchDopasowuje ==
    ASSUME NEW t \in Zapytania
    PROVE  LET w == SearchWynikow[t]
           IN  /\ w.tekst = t
               /\ w.widoczne = {i \in Wiersze : IsPrefix(toLowerCase(Obciety(t)), Nazwa(i))}
               /\ w.lastMatchCount = Cardinality(w.widoczne)
               /\ w.noMatches = (w.widoczne = {})
<1> DEFINE szukany == toLowerCase(Obciety(t))
           trafienia == {i \in Wiersze : IsPrefix(convertToId(szukany), Id[i])}
<1>1. SearchWynikow[t] = [tekst |-> t, widoczne |-> trafienia,
                          lastMatchCount |-> Cardinality(trafienia),
                          noMatches |-> trafienia = {}]
  BY DEF SearchWynikow
<1>2. szukany \in Seq(Znaki)
  BY ObcietyTekst, MaleLitery, WynikiAssumption DEF Znaki
<1>3. \A i \in Wiersze : IsPrefix(convertToId(szukany), Id[i]) <=> IsPrefix(szukany, Nazwa(i))
  <2> HIDE DEF szukany
  <2> QED
    BY <1>2, IdyNazw, KodPrefiks
<1>4. trafienia = {i \in Wiersze : IsPrefix(szukany, Nazwa(i))}
  <2> HIDE DEF szukany
  <2> QED
    BY <1>3
<1> HIDE DEF trafienia
<1> QED
  BY <1>1, <1>4

\* The page shows what a search found: the comparison of encoded ids finds exactly the
\* rows whose name begins with the text.
THEOREM DopasowaneZawsze == SpecWynikow => []Dopasowane
<1> DEFINE Znalezione == \E t \in Zapytania : strona = SearchWynikow[t]
<1>1. InitWynikow => Znalezione
  BY DEF InitWynikow
<1>2. Znalezione /\ [NextWynikow]_varsWynikow => Znalezione'
  BY DEF NextWynikow, varsWynikow, Keydown, Keypress, Keyup, KlikWynikow, WczytanieStrony
<1>3. Znalezione => Dopasowane
  <2> SUFFICES ASSUME NEW t \in Zapytania, strona = SearchWynikow[t] PROVE Dopasowane
    OBVIOUS
  <2> QED
    BY SearchDopasowuje DEF Dopasowane, widoczne, Nazwa
<1> QED
  BY <1>1, <1>2, <1>3, PTL DEF SpecWynikow

-----------------------------------------------------------------------------
(* The arrows (WynikiSzukania).  When the rows found lie together and no   *)
(* row but the first of its id has children (StronaAssumption), Down       *)
(* leads to an element after which all those below come (Nastepnik), and   *)
(* Up leads back.                                                          *)

\* What the lists and a search give the proof: rows that lie together.
Razem ==
    /\ widoczne \subseteq Wiersze
    /\ \A i, k \in widoczne : i .. k \subseteq widoczne

Rozwiniety(i) == i \in rozwiniete /\ Dzieci(i) > 0

\* Rows and numbers of children are natural numbers.
LEMMA WierszeLiczby == \A i \in Wiersze : i \in Nat /\ Dzieci(i) \in Nat
<1> SUFFICES ASSUME NEW i \in Wiersze PROVE i \in Nat /\ Dzieci(i) \in Nat
  OBVIOUS
<1> DEFINE Dane == [nazwa : Seq(0 .. 255), dzieci : Nat]
<1>1. searchData \in Seq(Dane) /\ i \in Nat /\ i + 1 \in 1 .. Len(searchData)
  BY WynikiAssumption DEF Wiersze
<1>2. searchData[i + 1] \in Dane
  <2> HIDE DEF Dane
  <2> QED
    BY <1>1
<1> QED
  BY <1>1, <1>2 DEF Dzieci

\* The children a row with children finds are its own.
LEMMA WlasneDzieci ==
    ASSUME NEW i \in Wiersze, Dzieci(i) > 0
    PROVE  Otwarty(i) <=> Rozwiniety(i)
<1>1. FindChildElement(i) = {i}
  BY StronaAssumption DEF FindChildElement
<1> QED
  BY <1>1 DEF Otwarty, Rozwiniety

\* The row found next to a row.
LEMMA SasiedniWiersz ==
    ASSUME Razem, NEW i \in widoczne
    PROVE  /\ NavNext(i + 1) = IF i + 1 \in widoczne THEN <<i + 1>> ELSE Nic
           /\ NavPrev(i - 1) = IF i - 1 \in widoczne THEN <<i - 1>> ELSE Nic
<1>1. i \in Nat /\ \A j \in widoczne : j \in Nat
  BY WierszeLiczby DEF Razem
<1> DEFINE nad == {j \in widoczne : j <= i - 1}
           pod == {j \in widoczne : j >= i + 1}
<1>2. ASSUME NEW j \in pod PROVE i + 1 \in widoczne
  <2>1. i + 1 \in i .. j
    BY <1>1
  <2> QED
    BY <2>1 DEF Razem
<1>3. ASSUME NEW j \in nad PROVE i - 1 \in widoczne
  <2>1. i - 1 \in j .. i
    BY <1>1
  <2> QED
    BY <2>1 DEF Razem
<1>4. i + 1 \in widoczne => Min(pod) = i + 1
  <2> SUFFICES ASSUME i + 1 \in widoczne PROVE Min(pod) = i + 1
    OBVIOUS
  <2>1. i + 1 \in pod /\ \A y \in pod : i + 1 =< y
    BY <1>1
  <2>2. \A x \in pod : (\A y \in pod : x =< y) => x = i + 1
    BY <1>1, <2>1
  <2> HIDE DEF pod
  <2> QED
    BY <2>1, <2>2 DEF Min
<1>5. i - 1 \in widoczne => Max(nad) = i - 1
  <2> SUFFICES ASSUME i - 1 \in widoczne PROVE Max(nad) = i - 1
    OBVIOUS
  <2>1. i - 1 \in nad /\ \A y \in nad : i - 1 >= y
    BY <1>1
  <2>2. \A x \in nad : (\A y \in nad : x >= y) => x = i - 1
    BY <1>1, <2>1
  <2> HIDE DEF nad
  <2> QED
    BY <2>1, <2>2 DEF Max
<1>6. (pod = {} <=> i + 1 \notin widoczne) /\ (nad = {} <=> i - 1 \notin widoczne)
  <2>1. i + 1 \in widoczne => i + 1 \in pod
    BY <1>1
  <2>2. i - 1 \in widoczne => i - 1 \in nad
    BY <1>1
  <2> QED
    BY <1>2, <1>3, <2>1, <2>2
<1>7. NavNext(i + 1) = IF pod = {} THEN Nic ELSE <<Min(pod)>>
  BY DEF NavNext
<1>8. NavPrev(i - 1) = IF nad = {} THEN Nic ELSE <<Max(nad)>>
  BY DEF NavPrev
<1> HIDE DEF nad, pod
<1> QED
  BY <1>4, <1>5, <1>6, <1>7, <1>8

\* The keys, in terms of what is shown.
LEMMA KlawiszeStrzalek ==
    ASSUME Razem, NEW i \in widoczne
    PROVE  /\ Rozwiniety(i) => NavDol(i) = <<i, 0>>
           /\ ~Rozwiniety(i) /\ i + 1 \in widoczne => NavDol(i) = <<i + 1>>
           /\ ~Rozwiniety(i) /\ i + 1 \notin widoczne => NavDol(i) = Nic
           /\ i - 1 \notin widoczne => NavGora(i) = Pole
           /\ i - 1 \in widoczne /\ Rozwiniety(i - 1)
              => NavGora(i) = <<i - 1, Dzieci(i - 1) - 1>>
           /\ i - 1 \in widoczne /\ ~Rozwiniety(i - 1) => NavGora(i) = <<i - 1>>
<1>1. i \in Wiersze /\ i \in Nat /\ (i - 1 \in widoczne => i - 1 \in Wiersze)
  BY WierszeLiczby DEF Razem
<1>2. Otwarty(i) /\ Dzieci(i) > 0 <=> Rozwiniety(i)
  BY <1>1, WlasneDzieci DEF Rozwiniety
<1>3. NavDol(i) = IF Rozwiniety(i) THEN <<i, 0>> ELSE NavNext(i + 1)
  BY <1>2 DEF NavDol
<1>4. i - 1 \in widoczne => (Otwarty(i - 1) /\ Dzieci(i - 1) > 0 <=> Rozwiniety(i - 1))
  BY <1>1, WlasneDzieci DEF Rozwiniety
<1>5. i - 1 \notin widoczne => NavGora(i) = Pole
  BY SasiedniWiersz DEF NavGora
<1>6. i - 1 \in widoczne
      => NavGora(i) = IF Rozwiniety(i - 1) THEN <<i - 1, Dzieci(i - 1) - 1>> ELSE <<i - 1>>
  <2> SUFFICES ASSUME i - 1 \in widoczne
               PROVE  NavGora(i) = IF Rozwiniety(i - 1) THEN <<i - 1, Dzieci(i - 1) - 1>>
                                   ELSE <<i - 1>>
    OBVIOUS
  <2>1. NavPrev(i - 1) = <<i - 1>> /\ <<i - 1>>[1] = i - 1
    BY SasiedniWiersz
  <2>2. <<i - 1>> # Nic
    BY <1>1, WierszeLiczby DEF Nic
  <2> QED
    BY <1>4, <2>1, <2>2 DEF NavGora
<1> QED
  BY <1>3, <1>5, <1>6, SasiedniWiersz

\* An element shown: the row it belongs to, and its place among the children.
LEMMA KsztaltElementu ==
    ASSUME Razem, NEW g \in Pokazane
    PROVE  \/ \E j \in widoczne : g = <<j>>
           \/ \E j \in widoczne : \E e \in 0 .. Dzieci(j) - 1 : Rozwiniety(j) /\ g = <<j, e>>
<1>1. CASE g \in {<<i>> : i \in widoczne}
  BY <1>1
<1>2. CASE g \in UNION {{<<i, c>> : c \in 0 .. Dzieci(i) - 1} : i \in widoczne \cap rozwiniete}
  <2>1. PICK j \in widoczne \cap rozwiniete : g \in {<<j, c>> : c \in 0 .. Dzieci(j) - 1}
    BY <1>2
  <2>2. PICK e \in 0 .. Dzieci(j) - 1 : g = <<j, e>>
    BY <2>1
  <2>3. Dzieci(j) \in Nat
    BY WierszeLiczby DEF Razem
  <2>4. Rozwiniety(j)
    BY <2>3 DEF Rozwiniety
  <2> QED
    BY <2>2, <2>4
<1> QED
  BY <1>1, <1>2 DEF Pokazane

\* A row shown, and a child of a row opened, are elements shown.
LEMMA ElementPokazany ==
    /\ \A j \in widoczne : <<j>> \in Pokazane
    /\ \A j \in widoczne : \A e \in 0 .. Dzieci(j) - 1 : Rozwiniety(j) => <<j, e>> \in Pokazane
<1>1. ASSUME NEW j \in widoczne, NEW e \in 0 .. Dzieci(j) - 1, Rozwiniety(j)
      PROVE  <<j, e>> \in Pokazane
  <2>1. j \in widoczne \cap rozwiniete
    BY <1>1 DEF Rozwiniety
  <2>2. <<j, e>> \in {<<j, c>> : c \in 0 .. Dzieci(j) - 1}
    OBVIOUS
  <2> QED
    BY <2>1, <2>2 DEF Pokazane
<1> QED
  BY <1>1 DEF Pokazane

\* The order of the screen.
LEMMA PorzadekEkranu ==
    ASSUME NEW i, NEW j, NEW c, NEW e
    PROVE  /\ Przed(<<i>>, <<j>>) <=> i < j
           /\ Przed(<<i>>, <<j, e>>) <=> i < j \/ i = j
           /\ Przed(<<i, c>>, <<j>>) <=> i < j
           /\ Przed(<<i, c>>, <<j, e>>) <=> i < j \/ (i = j /\ c < e)
BY DEF Przed

\* The element right below another one: all the others below come after it.
Nastepnik(f, s) ==
    /\ s \in Pokazane
    /\ Przed(f, s)
    /\ \A g \in Pokazane : Przed(f, g) => g = s \/ Przed(s, g)

NicPonizej(f) == \A g \in Pokazane : ~Przed(f, g)

\* Down from a row, and Up again.
LEMMA DolZWiersza ==
    ASSUME Razem, NEW i \in widoczne
    PROVE  \/ NavDol(i) = Nic /\ NicPonizej(<<i>>)
           \/ \E s : NavDol(i) = s /\ StrzalkaGora(s) = <<i>> /\ Nastepnik(<<i>>, s)
<1>1. \A j \in widoczne : j \in Nat /\ Dzieci(j) \in Nat
  BY WierszeLiczby DEF Razem
<1>2. \A j \in widoczne : i < j => i + 1 \in widoczne
  <2> SUFFICES ASSUME NEW j \in widoczne, i < j PROVE i + 1 \in widoczne
    OBVIOUS
  <2>1. i + 1 \in i .. j
    BY <1>1
  <2> QED
    BY <2>1 DEF Razem
<1>3. CASE Rozwiniety(i)
  <2> DEFINE s == <<i, 0>>
  <2>1. NavDol(i) = s
    BY <1>3, KlawiszeStrzalek
  <2>2. StrzalkaGora(s) = <<i>>
    BY DEF StrzalkaGora, NavChildGora
  <2>3. s \in Pokazane
    <3>1. 0 \in 0 .. Dzieci(i) - 1
      BY <1>1, <1>3 DEF Rozwiniety
    <3> QED
      BY <1>3, <3>1, ElementPokazany
  <2>4. Przed(<<i>>, s)
    BY PorzadekEkranu
  <2>5. ASSUME NEW g \in Pokazane, Przed(<<i>>, g) PROVE g = s \/ Przed(s, g)
    <3>1. CASE \E j \in widoczne : g = <<j>>
      BY <2>5, <3>1, PorzadekEkranu
    <3>2. CASE \E j \in widoczne : \E e \in 0 .. Dzieci(j) - 1 : g = <<j, e>>
      <4>1. PICK j \in widoczne, e \in Int : e \in 0 .. Dzieci(j) - 1 /\ g = <<j, e>>
        BY <1>1, <3>2
      <4>2. i < j \/ i = j
        BY <2>5, <4>1, PorzadekEkranu
      <4>3. e = 0 \/ 0 < e
        BY <1>1, <4>1
      <4> QED
        BY <4>1, <4>2, <4>3, PorzadekEkranu
    <3> QED
      BY <3>1, <3>2, KsztaltElementu
  <2> QED
    BY <2>1, <2>2, <2>3, <2>4, <2>5 DEF Nastepnik
<1>4. CASE ~Rozwiniety(i) /\ i + 1 \in widoczne
  <2> DEFINE s == <<i + 1>>
  <2>1. NavDol(i) = s
    BY <1>4, KlawiszeStrzalek
  <2>2. StrzalkaGora(s) = <<i>>
    <3>1. (i + 1) - 1 = i
      BY <1>1
    <3>2. NavGora(i + 1) = <<i>>
      BY <1>4, <3>1, KlawiszeStrzalek
    <3> QED
      BY <3>2 DEF StrzalkaGora
  <2>3. s \in Pokazane
    BY <1>4, ElementPokazany
  <2>4. Przed(<<i>>, s)
    <3>1. i < i + 1
      BY <1>1
    <3> QED
      BY <3>1, PorzadekEkranu
  <2>5. ASSUME NEW g \in Pokazane, Przed(<<i>>, g) PROVE g = s \/ Przed(s, g)
    <3>1. CASE \E j \in widoczne : g = <<j>>
      <4>1. PICK j \in widoczne : g = <<j>>
        BY <3>1
      <4>2. i < j
        BY <2>5, <4>1, PorzadekEkranu
      <4>3. j = i + 1 \/ i + 1 < j
        BY <1>1, <4>2
      <4> QED
        BY <4>1, <4>3, PorzadekEkranu
    <3>2. CASE \E j \in widoczne : \E e \in 0 .. Dzieci(j) - 1 : Rozwiniety(j) /\ g = <<j, e>>
      <4>1. PICK j \in widoczne, e \in Int : e \in 0 .. Dzieci(j) - 1 /\ Rozwiniety(j) /\ g = <<j, e>>
        BY <1>1, <3>2
      <4>2. i < j
        BY <1>4, <2>5, <4>1, PorzadekEkranu
      <4>3. i + 1 = j \/ i + 1 < j
        BY <1>1, <4>2
      <4> QED
        BY <4>1, <4>3, PorzadekEkranu
    <3> QED
      BY <3>1, <3>2, KsztaltElementu
  <2> QED
    BY <2>1, <2>2, <2>3, <2>4, <2>5 DEF Nastepnik
<1>5. CASE ~Rozwiniety(i) /\ i + 1 \notin widoczne
  <2>1. NavDol(i) = Nic
    BY <1>5, KlawiszeStrzalek
  <2>2. ASSUME NEW g \in Pokazane, Przed(<<i>>, g) PROVE FALSE
    <3>1. CASE \E j \in widoczne : g = <<j>>
      BY <1>2, <1>5, <2>2, <3>1, PorzadekEkranu
    <3>2. CASE \E j \in widoczne : \E e \in 0 .. Dzieci(j) - 1 : Rozwiniety(j) /\ g = <<j, e>>
      BY <1>2, <1>5, <2>2, <3>2, PorzadekEkranu
    <3> QED
      BY <3>1, <3>2, KsztaltElementu
  <2> QED
    BY <2>1, <2>2 DEF NicPonizej
<1> QED
  BY <1>3, <1>4, <1>5

\* Down from a child, and Up again.
LEMMA DolZDziecka ==
    ASSUME Razem, NEW i \in widoczne, NEW c \in 0 .. Dzieci(i) - 1, Rozwiniety(i)
    PROVE  \/ NavChildDol(i, c) = Nic /\ NicPonizej(<<i, c>>)
           \/ \E s : /\ NavChildDol(i, c) = s
                     /\ StrzalkaGora(s) = <<i, c>>
                     /\ Nastepnik(<<i, c>>, s)
<1>1. \A j \in widoczne : j \in Nat /\ Dzieci(j) \in Nat
  BY WierszeLiczby DEF Razem
<1>2. \A j \in widoczne : i < j => i + 1 \in widoczne
  <2> SUFFICES ASSUME NEW j \in widoczne, i < j PROVE i + 1 \in widoczne
    OBVIOUS
  <2>1. i + 1 \in i .. j
    BY <1>1
  <2> QED
    BY <2>1 DEF Razem
<1>3. CASE c + 1 < Dzieci(i)
  <2> DEFINE s == <<i, c + 1>>
  <2>1. NavChildDol(i, c) = s
    BY <1>3 DEF NavChildDol
  <2>2. StrzalkaGora(s) = <<i, c>>
    <3>1. c + 1 > 0 /\ (c + 1) - 1 = c
      BY <1>1
    <3> QED
      BY <3>1 DEF StrzalkaGora, NavChildGora
  <2>3. s \in Pokazane
    <3>1. c + 1 \in 0 .. Dzieci(i) - 1
      BY <1>1, <1>3
    <3> QED
      BY <3>1, ElementPokazany
  <2>4. Przed(<<i, c>>, s)
    <3>1. c < c + 1
      BY <1>1
    <3> QED
      BY <3>1, PorzadekEkranu
  <2>5. ASSUME NEW g \in Pokazane, Przed(<<i, c>>, g) PROVE g = s \/ Przed(s, g)
    <3>1. CASE \E j \in widoczne : g = <<j>>
      BY <2>5, <3>1, PorzadekEkranu
    <3>2. CASE \E j \in widoczne : \E e \in 0 .. Dzieci(j) - 1 : g = <<j, e>>
      <4>1. PICK j \in widoczne, e \in Int : e \in 0 .. Dzieci(j) - 1 /\ g = <<j, e>>
        BY <1>1, <3>2
      <4>2. i < j \/ (i = j /\ c < e)
        BY <2>5, <4>1, PorzadekEkranu
      <4>3. c < e => e = c + 1 \/ c + 1 < e
        BY <1>1
      <4> QED
        BY <4>1, <4>2, <4>3, PorzadekEkranu
    <3> QED
      BY <3>1, <3>2, KsztaltElementu
  <2> QED
    BY <2>1, <2>2, <2>3, <2>4, <2>5 DEF Nastepnik
<1>4. ASSUME ~(c + 1 < Dzieci(i)) PROVE NavChildDol(i, c) = NavNext(i + 1) /\ c = Dzieci(i) - 1
  BY <1>1, <1>4 DEF NavChildDol
<1>5. ASSUME ~(c + 1 < Dzieci(i)), NEW g \in Pokazane, Przed(<<i, c>>, g)
      PROVE  \/ \E j \in widoczne : i < j /\ g = <<j>>
             \/ \E j \in widoczne : \E e \in 0 .. Dzieci(j) - 1 : i < j /\ g = <<j, e>>
  <2>1. CASE \E j \in widoczne : g = <<j>>
    BY <1>5, <2>1, PorzadekEkranu
  <2>2. CASE \E j \in widoczne : \E e \in 0 .. Dzieci(j) - 1 : g = <<j, e>>
    <3>1. PICK j \in widoczne, e \in Int : e \in 0 .. Dzieci(j) - 1 /\ g = <<j, e>>
      BY <1>1, <2>2
    <3>2. i < j \/ (i = j /\ c < e)
      BY <1>5, <3>1, PorzadekEkranu
    <3>3. i = j => ~(c < e)
      BY <1>1, <1>4, <1>5, <3>1
    <3> QED
      BY <3>1, <3>2, <3>3
  <2> QED
    BY <2>1, <2>2, KsztaltElementu
<1>6. CASE ~(c + 1 < Dzieci(i)) /\ i + 1 \in widoczne
  <2> DEFINE s == <<i + 1>>
  <2>1. NavChildDol(i, c) = s
    BY <1>4, <1>6, SasiedniWiersz
  <2>2. StrzalkaGora(s) = <<i, c>>
    <3>1. (i + 1) - 1 = i
      BY <1>1
    <3>2. NavGora(i + 1) = <<i, Dzieci(i) - 1>>
      BY <1>6, <3>1, KlawiszeStrzalek
    <3> QED
      BY <1>4, <1>6, <3>2 DEF StrzalkaGora
  <2>3. s \in Pokazane
    BY <1>6, ElementPokazany
  <2>4. Przed(<<i, c>>, s)
    <3>1. i < i + 1
      BY <1>1
    <3> QED
      BY <3>1, PorzadekEkranu
  <2>5. ASSUME NEW g \in Pokazane, Przed(<<i, c>>, g) PROVE g = s \/ Przed(s, g)
    <3>1. \A j \in widoczne : i < j => j = i + 1 \/ i + 1 < j
      BY <1>1
    <3>2. CASE \E j \in widoczne : i < j /\ g = <<j>>
      <4>1. PICK j \in widoczne : i < j /\ g = <<j>>
        BY <3>2
      <4>2. j = i + 1 \/ i + 1 < j
        BY <3>1, <4>1
      <4> QED
        BY <4>1, <4>2, PorzadekEkranu
    <3>3. CASE \E j \in widoczne : \E e \in 0 .. Dzieci(j) - 1 : i < j /\ g = <<j, e>>
      <4>1. PICK j \in widoczne : \E e \in 0 .. Dzieci(j) - 1 : i < j /\ g = <<j, e>>
        BY <3>3
      <4>2. PICK e \in 0 .. Dzieci(j) - 1 : i < j /\ g = <<j, e>>
        BY <4>1
      <4>3. j = i + 1 \/ i + 1 < j
        BY <3>1, <4>2
      <4> QED
        BY <4>2, <4>3, PorzadekEkranu
    <3> QED
      BY <1>5, <1>6, <2>5, <3>2, <3>3
  <2> QED
    BY <2>1, <2>2, <2>3, <2>4, <2>5 DEF Nastepnik
<1>7. CASE ~(c + 1 < Dzieci(i)) /\ i + 1 \notin widoczne
  <2>1. NavChildDol(i, c) = Nic
    BY <1>4, <1>7, SasiedniWiersz
  <2>2. NicPonizej(<<i, c>>)
    BY <1>2, <1>5, <1>7 DEF NicPonizej
  <2> QED
    BY <2>1, <2>2
<1> QED
  BY <1>3, <1>6, <1>7

\* The order of the screen is strict.
LEMMA PorzadekScisly ==
    ASSUME Razem, NEW g \in Pokazane, NEW h \in Pokazane
    PROVE  ~Przed(g, g) /\ ~(Przed(g, h) /\ Przed(h, g))
<1> DEFINE Wiersz(x) == \E j \in Nat : x = <<j>>
           Dziecko(x) == \E j \in Nat : \E e \in Int : x = <<j, e>>
<1>1. ASSUME NEW x \in Pokazane PROVE Wiersz(x) \/ Dziecko(x)
  <2>1. \A j \in widoczne : j \in Nat
    BY WierszeLiczby DEF Razem
  <2>2. \A j \in widoczne : \A e \in 0 .. Dzieci(j) - 1 : e \in Int
    OBVIOUS
  <2> QED
    BY <2>1, <2>2, KsztaltElementu
<1>2. Wiersz(g) \/ Dziecko(g)
  BY <1>1
<1>3. Wiersz(h) \/ Dziecko(h)
  BY <1>1
<1>4. CASE Wiersz(g) /\ Wiersz(h)
  <2>1. PICK i \in Nat : g = <<i>>
    BY <1>4
  <2>2. PICK j \in Nat : h = <<j>>
    BY <1>4
  <2> QED
    BY <2>1, <2>2 DEF Przed
<1>5. CASE Wiersz(g) /\ Dziecko(h)
  <2>1. PICK i \in Nat : g = <<i>>
    BY <1>5
  <2>2. PICK j \in Nat, e \in Int : h = <<j, e>>
    BY <1>5
  <2> QED
    BY <2>1, <2>2 DEF Przed
<1>6. CASE Dziecko(g) /\ Wiersz(h)
  <2>1. PICK i \in Nat, c \in Int : g = <<i, c>>
    BY <1>6
  <2>2. PICK j \in Nat : h = <<j>>
    BY <1>6
  <2> QED
    BY <2>1, <2>2 DEF Przed
<1>7. CASE Dziecko(g) /\ Dziecko(h)
  <2>1. PICK i \in Nat, c \in Int : g = <<i, c>>
    BY <1>7
  <2>2. PICK j \in Nat, e \in Int : h = <<j, e>>
    BY <1>7
  <2> QED
    BY <2>1, <2>2 DEF Przed
<1> QED
  BY <1>2, <1>3, <1>4, <1>5, <1>6, <1>7

\* Down from any element shown, and Up again.
LEMMA DolOdElementu ==
    ASSUME Razem, NEW f \in Pokazane
    PROVE  \/ StrzalkaDol(f) = Nic /\ NicPonizej(f)
           \/ \E s : StrzalkaDol(f) = s /\ StrzalkaGora(s) = f /\ Nastepnik(f, s)
<1>1. CASE \E j \in widoczne : f = <<j>>
  <2>1. PICK j \in widoczne : f = <<j>>
    BY <1>1
  <2>2. StrzalkaDol(f) = NavDol(j)
    BY <2>1 DEF StrzalkaDol
  <2> QED
    BY <2>1, <2>2, DolZWiersza
<1>2. CASE \E j \in widoczne : \E e \in 0 .. Dzieci(j) - 1 : Rozwiniety(j) /\ f = <<j, e>>
  <2>1. PICK j \in widoczne : \E e \in 0 .. Dzieci(j) - 1 : Rozwiniety(j) /\ f = <<j, e>>
    BY <1>2
  <2>2. PICK e \in 0 .. Dzieci(j) - 1 : Rozwiniety(j) /\ f = <<j, e>>
    BY <2>1
  <2>3. StrzalkaDol(f) = NavChildDol(j, e)
    BY <2>2 DEF StrzalkaDol
  <2> QED
    BY <2>2, <2>3, DolZDziecka
<1> QED
  BY <1>1, <1>2, KsztaltElementu

\* Up from the first element leads to the field.
LEMMA GoraZPierwszego ==
    ASSUME Razem, NEW f \in Pokazane, \A g \in Pokazane : ~Przed(g, f)
    PROVE  StrzalkaGora(f) = Pole
<1>1. CASE \E j \in widoczne : f = <<j>>
  <2>1. PICK j \in widoczne : f = <<j>>
    BY <1>1
  <2>2. ASSUME j - 1 \in widoczne PROVE FALSE
    <3>1. <<j - 1>> \in Pokazane
      BY <2>2, ElementPokazany
    <3>2. j - 1 < j
      BY WierszeLiczby DEF Razem
    <3>3. Przed(<<j - 1>>, f)
      BY <2>1, <3>2, PorzadekEkranu
    <3> QED
      BY <3>1, <3>3
  <2>3. NavGora(j) = Pole
    BY <2>2, KlawiszeStrzalek
  <2> QED
    BY <2>1, <2>3 DEF StrzalkaGora
<1>2. CASE \E j \in widoczne : \E e \in 0 .. Dzieci(j) - 1 : f = <<j, e>>
  <2>1. PICK j \in widoczne : \E e \in 0 .. Dzieci(j) - 1 : f = <<j, e>>
    BY <1>2
  <2>2. <<j>> \in Pokazane /\ Przed(<<j>>, f)
    BY <2>1, ElementPokazany, PorzadekEkranu
  <2> QED
    BY <2>2
<1> QED
  BY <1>1, <1>2, KsztaltElementu

\* The arrows walk in the order of the screen when the rows found lie together.
LEMMA StrzalkiGdyRazem == Razem => Strzalki
<1> SUFFICES ASSUME Razem, NEW f \in Pokazane
             PROVE  /\ Nastepne(f) \subseteq {StrzalkaDol(f)}
                    /\ \A g \in Nastepne(f) : StrzalkaGora(g) = f
                    /\ Nastepne(f) = {} => StrzalkaDol(f) = Nic
                    /\ (\A g \in Pokazane : ~Przed(g, f)) => StrzalkaGora(f) = Pole
  BY DEF Strzalki
<1>1. CASE StrzalkaDol(f) = Nic /\ NicPonizej(f)
  <2>1. Nastepne(f) = {}
    BY <1>1 DEF NicPonizej, Nastepne
  <2> QED
    BY <1>1, <2>1, GoraZPierwszego
<1>2. CASE \E s : StrzalkaDol(f) = s /\ StrzalkaGora(s) = f /\ Nastepnik(f, s)
  <2>1. PICK s : StrzalkaDol(f) = s /\ StrzalkaGora(s) = f /\ Nastepnik(f, s)
    BY <1>2
  <2>2. s \in Nastepne(f)
    BY <2>1, PorzadekScisly DEF Nastepne, Nastepnik
  <2>3. \A g \in Nastepne(f) : g = s
    BY <2>1 DEF Nastepne, Nastepnik
  <2> QED
    BY <2>1, <2>2, <2>3, GoraZPierwszego
<1> QED
  BY <1>1, <1>2, DolOdElementu

\* On the page as the generator makes it, Down leads to the next element shown, Up back,
\* and Up from the first one to the field, whatever is searched for and opened.
THEOREM StrzalkiZawsze == SpecStrony => []Strzalki
<1> DEFINE Znalezione == \E t \in Zapytania : strona = SearchWynikow[t]
<1>1. InitWynikow => Znalezione
  BY DEF InitWynikow
<1>2. Znalezione /\ [NextWynikow]_varsWynikow => Znalezione'
  BY DEF NextWynikow, varsWynikow, Keydown, Keypress, Keyup, KlikWynikow, WczytanieStrony
<1>3. Znalezione => Strzalki
  <2> SUFFICES ASSUME NEW t \in Zapytania, strona = SearchWynikow[t] PROVE Strzalki
    OBVIOUS
  <2>1. widoczne \subseteq Wiersze
    BY SearchDopasowuje DEF widoczne
  <2>2. \A i, k \in widoczne : i .. k \subseteq widoczne
    BY StronaAssumption DEF widoczne
  <2> QED
    BY <2>1, <2>2, StrzalkiGdyRazem DEF Razem
<1>4. SpecWynikow => []Strzalki
  BY <1>1, <1>2, <1>3, PTL DEF SpecWynikow
<1> QED
  BY <1>4, StronaZlozona, PTL
=============================================================================
