CONSTANTS
    Setups <- AllSetups
    Sizes = {1, 2}
    Preset = 1
    Buffers = {11, 12, 13}
SPECIFICATION FairSpec
INVARIANTS GreetTypeOK BuffersAccounted BuffersBounded
PROPERTIES KeepsToXdgShell LatestSizeShown EndsWhenTold PingsAnswered
