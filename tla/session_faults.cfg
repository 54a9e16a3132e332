SPECIFICATION Spec
CONSTANTS
    Printsvr = printsvr
    Moni = moniclient
    NoName = NoName
    Nobody = Nobody
    NoNum = NoNum
    Conn = {c1, c2}
    Name = {moniclient, other}
    Num = {k1, k2, k3}
    Faults = {"reauth", "partialauth", "badinit", "ownsend", "refusal"}
SYMMETRY Alike
INVARIANTS
    TypeOK
    ConnQueued
    PrintsvrQueued
    PingOnlyOpen
