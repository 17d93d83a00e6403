CONSTANTS
    Threads = {t1, t2}
    Detached = FALSE
    Clients = {a, b}
    MaxPackets = 3
    MaxKills = 1
    Quits = TRUE
SPECIFICATION FairSpec
CHECK_DEADLOCK FALSE
INVARIANTS ConversationsStayWhole NobodySleepsOnAJob
PROPERTY EverybodyIsAnswered
