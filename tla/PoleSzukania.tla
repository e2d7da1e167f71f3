---------------------------- MODULE PoleSzukania ----------------------------
(***************************************************************************)
(* The search panel of the documentation of the player library: class      *)
(* SearchBox of docs/html/search/search.js, with the events index.html and *)
(* menu.js bind to it.                                                     *)
(*                                                                         *)
(* panel holds the fields of the object and what its handlers read and     *)
(* change of the document: the text of the field, the displayed windows,   *)
(* the location of the frame, the focus and the timers that run.  A        *)
(* handler is an operator from a panel to a panel, so that one event runs  *)
(* all the handlers it causes.  A text stands for a class of texts; what   *)
(* is stripped from it is a constant.  The close button is shown and       *)
(* hidden with the results window, and lastResultsPage is never read: both *)
(* are left out, as are positions.                                         *)
(***************************************************************************)
EXTENDS Integers, FiniteSets

CONSTANTS
    Teksty,         \* what the field may contain, "" and Etykieta among it
    Wpisywane,      \* what is typed into it
    Etykieta,       \* searchLabel ("Search")
    Zwarty,         \* a text without its spaces
    Przyciety,      \* a text without its leading spaces
    Filtry,         \* number of entries of the filter menu
    Strona,         \* results page for a filter and a text; "nomatches"
    Zegary,         \* identifiers of timers; bound: timers of a kind that run
    MaxZdarzen      \* bound: events of the user

ASSUME PoleAssumption ==
    /\ {"", Etykieta} \subseteq Teksty /\ Etykieta # ""
    /\ Wpisywane \subseteq Teksty
    /\ Zwarty \in [Teksty -> Teksty] /\ Przyciety \in [Teksty -> Teksty]
    /\ Zwarty[""] = "" /\ Zwarty[Etykieta] = Etykieta
    /\ \A t \in Teksty : Zwarty[Przyciety[t]] = Zwarty[t]
    /\ Filtry \in Nat \ {0}
    /\ DOMAIN Strona = (0 .. Filtry - 1) \X Teksty
    /\ Zegary \subseteq Nat \ {0} /\ Zegary # {}
    /\ MaxZdarzen \in Nat

VARIABLES
    panel,          \* see above
    ramka,          \* the page loaded in the frame; panel.adres is its location
    klawisz,        \* the key held down; its release goes to where the focus is then
    mysz,           \* where the pointer is
    zgubione,       \* history: a letter was to be released outside the field
    zdarzenia       \* bound: events of the user so far

vars == <<panel, ramka, klawisz, mysz, zgubione, zdarzenia>>

Adres(i, t) ==
    [strona |-> Strona[i, t], tekst |-> IF Strona[i, t] = "nomatches" THEN "" ELSE t]
Pusta == [strona |-> "brak", tekst |-> ""]

\* The constructor and the document.
SearchBox ==
    [pole |-> Etykieta, keyTimeout |-> 0, hideTimeout |-> 0, lastSearchValue |-> "",
     searchIndex |-> 0, searchActive |-> FALSE, aktywny |-> FALSE, okno |-> FALSE,
     menu |-> FALSE, znak |-> {}, adres |-> Pusta, fokus |-> "brak",
     szukania |-> {}, chowania |-> {}]

-----------------------------------------------------------------------------
(* The methods. *)

\* Fault: a panel that is put to sleep keeps searchActive.
ActivateBezFlagi(p, isActive) ==
    IF isActive \/ p.okno
    THEN [p EXCEPT !.aktywny = TRUE,
                   !.pole = IF @ = Etykieta THEN "" ELSE @,
                   !.searchActive = @ \/ p.pole = Etykieta]
    ELSE [p EXCEPT !.aktywny = FALSE, !.pole = Etykieta, !.lastSearchValue = ""]

\* Activate: with the results shown the panel stays active whatever is asked.
Activate(p, isActive) ==
    IF isActive \/ p.okno
    THEN [p EXCEPT !.aktywny = TRUE,
                   !.pole = IF @ = Etykieta THEN "" ELSE @,
                   !.searchActive = @ \/ p.pole = Etykieta]
    ELSE [p EXCEPT !.aktywny = FALSE, !.pole = Etykieta, !.searchActive = FALSE,
                   !.lastSearchValue = ""]

OnSearchFieldFocus(p, isActive) == Activate(p, isActive)

\* The browser moves the focus: onblur and onfocus of the field call
\* OnSearchFieldFocus, which calls Activate.
Skup(p, gdzie) ==
    LET q == [p EXCEPT !.fokus = gdzie]
    IN  IF p.fokus = gdzie THEN p
        ELSE IF p.fokus = "pole" THEN OnSearchFieldFocus(q, FALSE)
        ELSE IF gdzie = "pole" THEN OnSearchFieldFocus(q, TRUE)
        ELSE q

\* Search: an index behind the last filter makes it fail after its first line.
\* Otherwise the frame gets its location and the results are shown.
SelectItemCount == Filtry
Dziala(p) == p.searchIndex < SelectItemCount

Search(p) ==
    LET t == Przyciety[p.pole]
    IN  IF ~Dziala(p) THEN [p EXCEPT !.keyTimeout = 0]
        ELSE [p EXCEPT !.keyTimeout = 0, !.adres = Adres(p.searchIndex, t), !.okno = TRUE,
                       !.lastSearchValue = t]

CloseResultsWindow(p) == Activate([p EXCEPT !.okno = FALSE], FALSE)

\* The focus of a hidden entry is lost.
CloseSelectionWindow(p) ==
    [p EXCEPT !.menu = FALSE, !.fokus = IF @ = "filtr" THEN "brak" ELSE @]

\* Fault: the timer that hides the menu is left running.
ShowBezZegara(p) == [p EXCEPT !.menu = TRUE]

\* OnSearchSelectShow: the timer it knows of is cleared.
OnSearchSelectShow(p) ==
    [p EXCEPT !.menu = TRUE, !.chowania = @ \ {p.hideTimeout}, !.hideTimeout = 0]

Nowy(zajete) == CHOOSE z \in Zegary \ zajete : TRUE

OnSearchSelectHide(p) ==
    LET z == Nowy(p.chowania \cup {p.hideTimeout})
    IN  [p EXCEPT !.hideTimeout = z, !.chowania = @ \cup {z}]

\* SelectItemSet: the bullet is at one entry of the menu, or at none.
SelectItemSet(p, id) == [p EXCEPT !.znak = {j \in 0 .. SelectItemCount - 1 : j = id}]

\* Fault: the results of the old filter stay.
OnSelectItemBezSzukania(p, id) == SelectItemSet([p EXCEPT !.searchIndex = id], id)

\* OnSelectItem: what was typed is searched for with the new filter.  A running timer
\* of a search is neither cleared nor, after Search, known any more.
OnSelectItem(p, id) ==
    LET q == SelectItemSet([p EXCEPT !.searchIndex = id], id)
    IN  IF Zwarty[q.pole] # "" /\ q.searchActive THEN Search(q) ELSE q

\* Fault: Down knows no last filter.
SelectKeyBezKonca(p, k) ==
    IF k = "dol" THEN OnSelectItem(p, p.searchIndex + 1)
    ELSE IF k = "gora" /\ p.searchIndex > 0 THEN OnSelectItem(p, p.searchIndex - 1)
    ELSE p

\* OnSearchSelectKey: keys in the menu.  When Search fails, what follows it does not
\* happen.
OnSearchSelectKey(p, k) ==
    IF k = "dol" /\ p.searchIndex < SelectItemCount
    THEN OnSelectItem(p, p.searchIndex + 1)
    ELSE IF k = "gora" /\ p.searchIndex > 0
    THEN OnSelectItem(p, p.searchIndex - 1)
    ELSE IF k \in {"enter", "escape"}
    THEN LET q == OnSelectItem(p, p.searchIndex)
         IN  IF Zwarty[p.pole] # "" /\ p.searchActive /\ ~Dziala(p) THEN q
             ELSE Skup(CloseSelectionWindow(q), "pole")
    ELSE p

\* The end of OnSearchFieldChange: a changed value starts the timer, an empty field
\* closes the results.
\* Fault: only a longer wait, no new timer, when one was cleared.
ZmianaBezZegara(p) ==
    IF Zwarty[p.pole] = p.lastSearchValue THEN p
    ELSE IF Zwarty[p.pole] = "" THEN [p EXCEPT !.okno = FALSE, !.lastSearchValue = ""]
    ELSE p

Zmiana(p) ==
    IF Zwarty[p.pole] = p.lastSearchValue THEN p
    ELSE IF Zwarty[p.pole] = "" THEN [p EXCEPT !.okno = FALSE, !.lastSearchValue = ""]
    ELSE LET z == Nowy(p.szukania)
         IN  [p EXCEPT !.keyTimeout = z, !.szukania = @ \cup {z}]

\* OnSearchFieldChange: a key is released in the field.  The running timer is cleared
\* first; Shift with Down or Enter opens the menu, without Shift the first result, if
\* the frame has one, gets the focus; Escape closes everything.
OnSearchFieldChange(p0, k, shift, jestWynik) ==
    LET p == [p0 EXCEPT !.szukania = @ \ {p0.keyTimeout}, !.keyTimeout = 0]
    IN  IF k \in {"dol", "enter"} /\ shift
        THEN Skup(OnSearchSelectShow(p), "filtr")
        ELSE IF k = "escape"
        THEN LET q == [Skup(p, "brak") EXCEPT !.okno = FALSE, !.lastSearchValue = ""]
             IN  Activate(q, FALSE)
        ELSE Zmiana(IF k \in {"dol", "enter"} /\ jestWynik /\ p.okno
                    THEN Skup(p, "wyniki") ELSE p)

\* init_search fills the menu and selects the first filter.
init_search(p) == OnSelectItem(p, 0)

Init ==
    /\ panel = init_search(SearchBox)
    /\ ramka = Pusta
    /\ klawisz = "zaden"
    /\ mysz = "poza"
    /\ zgubione = FALSE
    /\ zdarzenia = 0

-----------------------------------------------------------------------------
(* Events.  There is room for one timer more of each kind. *)

Zdarzenie ==
    /\ zdarzenia < MaxZdarzen
    /\ zdarzenia' = zdarzenia + 1
    /\ panel.szukania # Zegary
    /\ ~(Zegary \subseteq panel.chowania \cup {panel.hideTimeout})

\* A key goes down in the field, in the menu or in the results (of which only what
\* touches the panel is here: Up at the first one and Escape).
Klawisz ==
    /\ Zdarzenie
    /\ klawisz = "zaden"
    /\ \/ /\ panel.fokus = "pole"
          /\ klawisz' = "litera"
          /\ \E t \in Wpisywane \ {panel.pole} : panel' = [panel EXCEPT !.pole = t]
       \/ /\ panel.fokus = "pole"
          /\ klawisz' \in {"dol", "enter", "escape"}
          /\ panel' = panel
       \/ /\ panel.fokus = "filtr"
          /\ klawisz' \in {"dol", "gora", "enter", "escape"}
          /\ panel' = OnSearchSelectKey(panel, klawisz')
       \/ /\ panel.fokus = "wyniki"
          /\ klawisz' = "gora"
          /\ panel' \in {panel, Skup(panel, "pole")}
       \/ /\ panel.fokus = "wyniki"
          /\ klawisz' = "escape"
          /\ panel' = Skup(CloseResultsWindow([panel EXCEPT !.fokus = "brak"]), "pole")
    /\ UNCHANGED <<ramka, mysz, zgubione>>

\* It is released, maybe somewhere else.
Puszczenie ==
    /\ klawisz # "zaden"
    /\ klawisz' = "zaden"
    /\ IF panel.fokus = "pole"
       THEN \E shift \in BOOLEAN, jestWynik \in {FALSE, ramka.strona \notin {"brak", "nomatches"}} :
               panel' = OnSearchFieldChange(panel, klawisz, shift, jestWynik)
       ELSE panel' = panel
    /\ UNCHANGED <<ramka, mysz, zgubione, zdarzenia>>

\* A click: into the field, beside everything, on the close button, on a filter.  A key
\* may be held meanwhile: that of a letter is then to be released outside the field.
Klik ==
    /\ Zdarzenie
    /\ panel' \in {Skup(panel, "pole"), Skup(panel, "brak")}
                  \cup (IF panel.okno THEN {CloseResultsWindow(Skup(panel, "brak"))} ELSE {})
                  \cup (IF panel.menu
                        THEN {OnSelectItem(Skup(panel, "filtr"), id) : id \in 0 .. Filtry - 1}
                        ELSE {})
    /\ zgubione' = (zgubione \/ (klawisz = "litera" /\ panel'.fokus # "pole"))
    /\ UNCHANGED <<ramka, klawisz, mysz>>

\* The pointer goes from one place to another: onmouseout of the old one comes first.
\* A menu that is not shown cannot be entered.
Ruch ==
    /\ Zdarzenie
    /\ mysz' \in {"poza", "ikona", "menu"} \ {mysz}
    /\ mysz' = "menu" => panel.menu
    /\ LET p == IF mysz = "poza" THEN panel ELSE OnSearchSelectHide(panel)
       IN  panel' = IF mysz' = "poza" THEN p ELSE OnSearchSelectShow(p)
    /\ UNCHANGED <<ramka, klawisz, zgubione>>

\* A timer of a search fires.
ZegarSzukania ==
    /\ \E z \in panel.szukania :
          panel' = Search([panel EXCEPT !.szukania = @ \ {z}])
    /\ UNCHANGED <<ramka, klawisz, mysz, zgubione, zdarzenia>>

\* A timer of the menu fires; hideTimeout keeps its identifier.
ZegarMenu ==
    /\ \E z \in panel.chowania :
          panel' = CloseSelectionWindow([panel EXCEPT !.chowania = @ \ {z}])
    /\ mysz' = IF mysz = "menu" THEN "poza" ELSE mysz
    /\ UNCHANGED <<ramka, klawisz, zgubione, zdarzenia>>

\* The frame loads the page its location names.
Wczytanie ==
    /\ ramka # panel.adres
    /\ ramka' = panel.adres
    /\ UNCHANGED <<panel, klawisz, mysz, zgubione, zdarzenia>>

Uzytkownik == Klawisz \/ Klik \/ Ruch

Next == Uzytkownik \/ Puszczenie \/ ZegarSzukania \/ ZegarMenu \/ Wczytanie

Spec == Init /\ [][Next]_vars

\* Timers fire, keys are released, and pages are loaded.
SpecZywa ==
    Spec /\ WF_vars(Puszczenie) /\ WF_vars(ZegarSzukania) /\ WF_vars(ZegarMenu)
         /\ WF_vars(Wczytanie)

-----------------------------------------------------------------------------
(* Properties. *)

Adresy == [strona : {Strona[x] : x \in DOMAIN Strona} \cup {"brak"}, tekst : Teksty]
Panele ==
    [pole : Teksty, keyTimeout : Zegary \cup {0}, hideTimeout : Zegary \cup {0},
     lastSearchValue : Teksty, searchIndex : 0 .. Filtry, searchActive : BOOLEAN,
     aktywny : BOOLEAN, okno : BOOLEAN, menu : BOOLEAN, znak : SUBSET (0 .. Filtry - 1),
     adres : Adresy, fokus : {"brak", "pole", "filtr", "wyniki"},
     szukania : SUBSET Zegary, chowania : SUBSET Zegary]

\* The fields keep their types; searchIndex may be one behind the last filter.
TypeOK ==
    /\ panel \in Panele
    /\ ramka \in Adresy
    /\ klawisz \in {"zaden", "litera", "dol", "gora", "enter", "escape"}
    /\ mysz \in {"poza", "ikona", "menu"}
    /\ zgubione \in BOOLEAN
    /\ zdarzenia \in 0 .. MaxZdarzen

\* A panel at rest shows its label, has not the focus, and will not search when a
\* filter is chosen; whatever order focus, closing and timers come in, it is ready to
\* be woken up exactly when it looks so.
Uspiony ==
    /\ panel.aktywny = panel.searchActive
    /\ ~panel.aktywny => panel.pole = Etykieta /\ panel.fokus # "pole"

\* While the pointer is over the icon or the menu no timer can close the menu, however
\* it came there and whatever opened the menu before.
MenuPodMysza == mysz # "poza" => panel.chowania = {}

\* The results shown are those of the filter that is marked, whether the filter or the
\* text was chosen last and whatever has become of the text since.  Two texts are
\* excepted, which a timer left running may search for and the choice of a filter does
\* not: the empty one and the label of a panel at rest.  So is a panel to whose field
\* the release of a letter never came: it may hold such a text over other results.
WynikiFiltru ==
    ~zgubione /\ panel.okno /\ Zwarty[panel.lastSearchValue] \notin {"", Etykieta}
    => \A j \in panel.znak : panel.adres = Adres(j, panel.lastSearchValue)

\* What is typed is searched for in the end, unless it is changed before, the menu is
\* opened with Shift (which clears the timer and sets no other), the panel is closed,
\* no filter is selected, or the field loses the focus before the key is released (the
\* release is then another element's, and nothing is searched for).
TekstSzukany ==
    \A t \in Wpisywane \ {"", Etykieta} :
        (klawisz = "litera" /\ panel.pole = t /\ Zwarty[t] \notin {"", panel.lastSearchValue})
        ~> \/ panel.lastSearchValue = Przyciety[t]
           \/ panel.pole # t \/ panel.menu \/ ~Dziala(panel)
           \/ klawisz = "litera" /\ panel.fokus # "pole"
=============================================================================
