SPECIFICATION FairSpec
CONSTANTS
    Events = {"a", "b", "c"}
    Messages = {"a sms", "b sms", "c sms", "c mail", "c app", "c chat"}
    Of <- MCOf
    ChannelOf <- MCChannel
    Reachable = {"a sms", "b sms", "c mail", "c app", "c chat"}
    Workers = {w1, w2}
    Editors = {admin}
    MaxAttempts = 2
    Credit = 1
    Bounds <- MCBounds
INVARIANTS
    BalanceIsTheLedgerButForSettings
    PaidForWhatWasTaken
    TakenOnceUnlessInDoubt
PROPERTIES
    EveryMessageEnds
CHECK_DEADLOCK FALSE
