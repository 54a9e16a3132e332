SPECIFICATION ThereSpec
CONSTANTS
    Printsvr = printsvr
    Moni = moniclient
    NoName = NoName
    Nobody = Nobody
    NoNum = NoNum
    Conn = {c1}
    Name = {moniclient}
    Num = {k1, k2}
    Faults = {"badinit", "refusal"}
PROPERTIES
    DeadFreed
    PrintsvrReturns
