SPECIFICATION LiveSpec
CONSTANTS
    Account = a
    Socket = {s1}
    Chat = {c1, c2}
    Existing = {}
    MaxModels = 2
    Kind = {"send", "edit", "regenerate"}
    Need = {1}
    Cost = {1}
    Opening = 2
    MaxTurns = 2
    MaxSpend = 0
    MaxFailed = 0
    MaxDeaths = 0
    MaxSpoken = 0
    Nil = Nil
    NoWallet = NoWallet
CHECK_DEADLOCK FALSE
PROPERTIES TurnEnds
