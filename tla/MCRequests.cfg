SPECIFICATION Spec
CONSTANTS
    Slot = {q1, q2}
    Key = {k1, k2}
    Email = {e1}
    Name = {n1, n2}
    Token = {t1, t2}
    Link = {l1}
    Password = {"secret"}
    Bonus = 10
    MaxAttempts = 2
    Admin = {k1, k2}
    Opening = 2
    Amount = {1}
    MaxMoves = 1
    Title = {"mine"}
    Price = {4}
    Featured = {}
    MaxRequests = 4
    MaxAsked = 4
    Nil = Nil
    NoWallet = NoWallet
CHECK_DEADLOCK FALSE
SYMMETRY Symmetry
INVARIANTS TypeOK LinkAdmitsOnce AccountIsWhole InactiveIsOut LockoutNeedsARace RevokedIsDead
PROPERTIES OnlyAskedChanges
