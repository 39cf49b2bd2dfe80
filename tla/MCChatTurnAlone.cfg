SPECIFICATION Spec
CONSTANTS
    Account = a
    Socket = {s1}
    Chat = {c1, c2}
    Existing = {}
    MaxModels = 2
    Kind = {"send", "edit", "regenerate"}
    Need = {1, 2}
    Cost = {1, 2}
    Opening = 2
    MaxTurns = 2
    MaxSpend = 0
    MaxFailed = 1
    MaxDeaths = 1
    MaxSpoken = 1
    Nil = Nil
    NoWallet = NoWallet
CHECK_DEADLOCK FALSE
SYMMETRY Symmetry
INVARIANTS TypeOK ChargedIsStored
PROPERTIES IsConversation
