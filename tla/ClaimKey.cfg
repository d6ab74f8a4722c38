SPECIFICATION Spec
CONSTANTS
    MaxCalls = 3
    caja = caja
    banco = banco
    billetera = billetera
    k1 = k1
    k2 = k2
    Registers = {caja}
    Banks = {banco}
    Wallets = {billetera}
    Keys = {k1, k2}
    NoKey = NoKey
    Nowhere = Nowhere
    NoShape = NoShape
    Shapes <- MCShapes
    Opening = 2
    Base = 1
    MaxRetries = 1
INVARIANTS
    KeyClosesOnce
\* Every call ends.
CHECK_DEADLOCK FALSE
