SPECIFICATION Spec
CONSTANTS
    User = {u1, u2}
    Session = {s1}
    Order = {o1}
    PaymentId = {y1}
    Package = {k1}
    Request = {p1, p2}
    Amount = {1, 2}
    Opening = 1
    MaxSpend = 1
    MaxCrashes = 1
    Nil = Nil
    NoWallet = NoWallet
SYMMETRY Symmetry
INVARIANTS TypeOK AtMostOnce GrantedAsSold AckedIsCredited WalletIsLedger
