CONSTANTS
  Sizes = {1, 2, 3}
  RESONSE_MTU = 3
  MaxHeld = 2
SPECIFICATION Spec
INVARIANTS TypeOK PoolBounded InOneQueue
PROPERTY Allocates
