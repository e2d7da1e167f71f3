SPECIFICATION SpecZywa
CONSTANTS
    a1 = a1
    a2 = a2
    a3 = a3
    p1 = p1
    p2 = p2
    Brak = Brak
    Polecenia <- MCPolecenia
    Adresy <- MCAdresy
    MsCzekaj = 2
    Zakres = 20
    MaxPrzebieg = 2
    Koniec = 14
    KoniecPolecen = 4
INVARIANTS BezWycieku
PROPERTIES JestKolejka PrzerwaZachowana Oprozniana
