CONSTANTS
    me = me
    Users = {me}
    RingSize = 2
    SeqMod = 3
    MaxLen = 1
    Target = 3
    Payload <- MCPayload
    Faulty = {}
    Signalled = {}
    Calls <- MCCalls
SPECIFICATION ClientSpec
PROPERTIES ClientFinishes
