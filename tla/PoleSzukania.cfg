SPECIFICATION SpecZywa
CONSTANTS
    Teksty <- MCTeksty
    Wpisywane <- MCWpisywane
    Etykieta = "Search"
    Zwarty <- MCZwarty
    Przyciety <- MCPrzyciety
    Filtry = 2
    Strona <- MCStrona
    Zegary = {1, 2}
    MaxZdarzen = 8
CHECK_DEADLOCK FALSE
INVARIANTS TypeOK Uspiony MenuPodMysza WynikiFiltru
PROPERTIES TekstSzukany
