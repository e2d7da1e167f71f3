SPECIFICATION Spec
CONSTANTS
    IloscUtworow = 2
    IloscEfektow = 2
    Polecenia <- MCPoleceniaGlosne
    AutoEfekty = {}
    MaxZadan = 3
    Zaklocenia = {}
INVARIANTS PoprzedniaGlosnosc
