SPECIFICATION Spec
CONSTANTS
    MsImpuls = 3
    MsCzasPomiaru = 2
    Zakres = 30
    MaxPrzebieg = 1
    Koniec = 10
    KoniecPolecen = 10
    ZasiegMin = 20
    ZasiegMax = 2000
    Pakiety <- MCPakiety
    Wejscia = {"dane"}
    Przeszkody <- MCPrzeszkody
    Echo <- MCEcho
INVARIANTS HamujePrzedPrzeszkoda
