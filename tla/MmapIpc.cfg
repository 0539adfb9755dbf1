CONSTANTS
    Drivers = {"hello", "mmap", "adv_io"}
    Users = {"parent", "child"}
    Rounds = 5
    WriteEvery = 5
    ReadEvery = 3
    MaxLag = 2
SPECIFICATION IpcSpec
INVARIANTS UndoIsExact HeldInOrder NoUseAfterFree LoadedIsComplete AppTypeOK RoundNotTorn FirstReadSeesARound DumpSeesLastRound
PROPERTIES AppStepsRunOut UnloadCompletes AppEnds
