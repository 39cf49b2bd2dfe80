SPECIFICATION Spec
CONSTANTS
    Models = {m1, m2}
    Text = {x1, x2}
    File = {"f1"}
    Limit = 3
    MaxTurns = 3
    MaxMoved = 1
    Asked = {"auto", "gpt-5.2", "gpt-9-ultra"}
    Chars = {0, 149, 150, 4000, 4001}
    MaxScore = 2
    Slots <- OneEachAndTwo
    Histories = {1001}
    Texts = {0, 1001}
    Balances <- AtTheMinimum
    Counts = {0, 900}
    Shown = {0, 30000}
    Fallbacks <- ClaudeFallbacks
    Chunk = 6000
    MaxMessages = 5
    MaxFiles = 2
    Blanks = {0, 1, 15}
    Bodies = {0, 1, 224, 225, 226, 3375, 4080, 4081, 4095, 4096, 4097, 9000}
CHECK_DEADLOCK FALSE
SYMMETRY Symmetry
INVARIANTS TypeOK GivenIsConversation HighestScoreWins BillIsInBounds OneConversation
INVARIANTS ChargedIsDelivered ShownIsAble
