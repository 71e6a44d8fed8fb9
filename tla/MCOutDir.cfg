SPECIFICATION FairSpec
CONSTANTS
    p1 = p1
    p2 = p2
    NoOne = NoOne
    Free = Free
    Abandoned = Abandoned
    Proc = {p1, p2}
    Seeded = {p1}
    MaxNumFiles = 6
    MaxLeft = 1
CONSTRAINT FewLeft
INVARIANTS TypeOK Exclusive Accounted FilesReady
PROPERTIES ForeignFilesUntouched OwnsSlots FullOnlyByLeftovers TestEnds
