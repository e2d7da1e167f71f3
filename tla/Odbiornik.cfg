SPECIFICATION SpecZywa
CONSTANTS
    Uchwyty = {1, 2}
    Brak = 0
    TxMax = 2
    TxRozmiar = 1
    RxRozmiar = 2
    RozmiarT = 4
    MaxPolaczen = 2
    Komunikaty = {"DANE_PROSZE", "PAPA", "dlugi"}
    Znaki <- MCZnaki
    EndMarker = "n"
    NumChars = 2
    Odpowiedz <- MCOdpowiedz
    MaxWyslanych = 2
INVARIANTS TypeOK KopieWGranicach PortWraca JedenZapis WierszWierny
PROPERTIES Strumien KazdeRaz RxOprozniana TxOprozniana
