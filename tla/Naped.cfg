SPECIFICATION SpecZywa
CONSTANTS
    MsImpuls = 3
    Zakres = 20
    MaxPrzebieg = 2
    Koniec = 12
    KoniecPolecen = 7
    Odleglosci <- MCOdleglosci
    Pakiety <- MCPakiety
    Wejscia = {"dane", "parametry", "us"}
INVARIANTS RuchOgraniczony PrzodGasnie
PROPERTIES PelnyImpuls ZawszeStaje
