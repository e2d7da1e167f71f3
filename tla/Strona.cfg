SPECIFICATION SpecStrony
CONSTANTS
    searchData <- MCsearchData
    Zapytania <- MCZapytania
    Tabela <- MCWiersze
    Poz <- MCPoz
    Rodzic <- MCRodzic
    Brak = 0
    Poziom <- MCPoziom
    Pod <- MCPod
    Poziomy = {1, 2, 3}
INVARIANTS Dopasowane Strzalki ZgodneStrzalki
PROPERTIES PierwszyNieDziala
