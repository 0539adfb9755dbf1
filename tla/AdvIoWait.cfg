CONSTANTS
    r = r
    s = s
    w = w
    Users = {r, s, w}
    RingSize = 2
    SeqMod = 1
    MaxLen = 1
    Payload <- MCPayload
    Faulty = {}
    Signalled = {r}
    Calls <- WaitCalls
SPECIFICATION Spec
INVARIANTS NoLostReaderWakeup NoLostWriterWakeup NoStaleSubscriber DrainedSubscriberIsTold
