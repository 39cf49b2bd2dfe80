SPECIFICATION Spec
CONSTANTS
    User = {u1}
    Message = {m1}
    Job = {j1, j2}
    Avatar = {j2}
    Worker = {w1, w2}
    Amount = {1}
    MaxAttempts = 2
    Opening = 2
    MaxSpend = 1
    MaxDeaths = 1
    MaxLost = 1
    MaxRefused = 1
    MaxFailed = 1
    Nil = Nil
    NoWallet = NoWallet
CHECK_DEADLOCK FALSE
SYMMETRY Symmetry
INVARIANTS TypeOK NothingForgotten DeliveredOrRefunded StatusIsTrue WalletIsLedger
PROPERTIES ChargesAreCovered
