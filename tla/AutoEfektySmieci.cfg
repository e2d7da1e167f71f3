SPECIFICATION SpecZywa
CONSTANTS
    PrzerwaBaza = 1
    PrzerwaLos = 2
    NudaCzekaj = 2
    MaxPrzebieg = 1
    Koniec = 8
    KoniecZdarzen = 3
    Odleglosci <- MCOdleglosci
    StanyZyroskopu = {"BRAK", "RUCH", "PRZECHYL"}
    Smieci = {0, 1}
PROPERTIES MinimalnaPrzerwa
