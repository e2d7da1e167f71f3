SPECIFICATION SpecZywa
CONSTANTS
    IloscUtworow = 2
    IloscEfektow = 2
    Polecenia <- MCPolecenia
    AutoEfekty = {2}
    MaxZadan = 3
    Zaklocenia = {"brakOdpowiedzi", "brakPliku"}
INVARIANTS MuzykaWraca MuzykaGra UtworZgodny PowrotPrzedNami
PROPERTIES MuzykaWracaKiedys
