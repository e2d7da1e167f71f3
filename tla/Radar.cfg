SPECIFICATION SpecZCzujnikiem
CONSTANTS
    MsCzasPomiaru = 2
    Zakres = 80
    MaxPrzebieg = 3
    Koniec = 70
    ZasiegMin = 20
    ZasiegMax = 2000
    Czasy <- MCCzasy
    KatMax = 4
    MsKrok = 1
    KoniecPolecen = 6
    Starty <- MCStarty
    Katy <- MCKaty
    Brak = Brak
INVARIANTS OdczytSwiezy NudaOdwlekana
PROPERTIES ZawszeWraca PelnyRuch RuchSieKonczy
