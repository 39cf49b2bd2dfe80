SPECIFICATION FairSpec
CONSTANTS
    User = {u1}
    Session = {s1}
    Order = {o1, o2}
    PaymentId = {y1}
    Package = {k1}
    Request = {p1, p2}
    Amount = {1}
    Opening = 1
    MaxSpend = 0
    MaxCrashes = 1
    Nil = Nil
    NoWallet = NoWallet
INVARIANTS PaymentSettlesOneOrder
PROPERTIES PaidIsCredited RequestsFinish ImplementsSettlement ReceiptsAreFinal
