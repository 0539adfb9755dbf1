CONSTANTS
    r = r
    s = s
    w = w
    Users = {r, w}
    RingSize = 2
    SeqMod = 2
    MaxLen = 3
    Payload <- MCPayload
    Faulty = {r, w}
    Signalled = {w}
    Calls <- TransferCalls
SPECIFICATION Spec
INVARIANT TypeOK
PROPERTIES ResultTellsProgress OnlyFaultsLoseWakeups ImplementsFifo
