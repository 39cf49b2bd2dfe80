SPECIFICATION Spec
CONSTANTS
    Account = a
    Socket = {s1, s2}
    Chat = {c1}
    Existing = {c1}
    MaxModels = 1
    Kind = {"send", "edit", "regenerate"}
    Need = {1}
    Cost = {1, 3}
    Opening = 2
    MaxTurns = 2
    MaxSpend = 1
    MaxFailed = 0
    MaxDeaths = 0
    MaxSpoken = 0
    Nil = Nil
    NoWallet = NoWallet
CHECK_DEADLOCK FALSE
SYMMETRY Symmetry
INVARIANTS InterruptedOnlyIfAsked RepliesFollowPrompt OverdraftIsBounded
