SPECIFICATION Spec
CONSTANTS
    a = a  b = b  c = c  m1 = m1  m2 = m2
    Block = {a, b, c}
    Salt = {m1, m2}
    HashOf <- MCHashOf
    Size <- MCSize
    PoolBytes = 2
    SpillBytes = 2
    MaxFiles = 1
    MaxLives = 2
INVARIANTS RevivedIsOwn IndexMatchesDisk
PROPERTIES NeverLosesAHit BudgetAfterWrite ShutdownDrains
CHECK_DEADLOCK FALSE
