SPECIFICATION Spec
CONSTANTS
    Printsvr = printsvr
    Moni = moniclient
    NoName = NoName
    Nobody = Nobody
    NoNum = NoNum
    Conn = {c1, c2, c3}
    Name = {moniclient, other}
    Num = {k1, k2, k3, k4}
    Faults = {}
SYMMETRY Alike
INVARIANTS
    NoDangling
    NoUseAfterFree
    Listening
PROPERTIES
    OnlyNamesakeEvicted
    IsDirectory
