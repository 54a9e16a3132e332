CONSTANTS
  Client = {c}
  printsvr = p
  ZombieAge = 8
  ScanWait = 2
  PingWait = 2
  MioHold = 3
  ComHold = 2
  SendGap = 5
  AnswerTime = 5
SPECIFICATION Spec
INVARIANTS TypeOK NoLivelyZombie SilenceBounded
