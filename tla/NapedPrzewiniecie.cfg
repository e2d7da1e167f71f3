SPECIFICATION SpecZywa
CONSTANTS
    MsImpuls = 3
    Zakres = 8
    MaxPrzebieg = 2
    Koniec = 8
    KoniecPolecen = 8
    Odleglosci <- MCOdleglosci
    Pakiety <- MCPakietyMale
    Wejscia = {"dane"}
PROPERTIES BezPolecenStaje
