SPECIFICATION Spec
CONSTANTS
    Printsvr = printsvr
    Moni = moniclient
    NoName = NoName
    Nobody = Nobody
    NoNum = NoNum
    Conn = {c1, c2, c3}
    Name = {moniclient}
    Num = {k1, k2, k3}
    Faults = {"reauth"}
SYMMETRY Alike
PROPERTIES
    AuthKeepsItself
