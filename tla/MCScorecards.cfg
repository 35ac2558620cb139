SPECIFICATION ScoresSpec
CONSTANTS
    ab = ab
    AB = AB
    cd = cd
    sp = sp
    no = no
    thing = thing
    place = place
    t = t
    tt = tt
    note = note
    Canon <- CanonOf
    NoName = no
    Blank = sp
    NoType = no
    Bodies <- BodiesOf
    StopNames = {}
    Fold <- FoldOf
    Ids = {1, 2, 3, 4}
    Ghost = 9
    Kinds <- KindsOf
    Wires <- WiresOf
    Scaffold <- ScaffoldOf
    MaxLost = 1
    MaxDrawn <- MaxDrawnOf
    Gold <- GoldOf
    Unit = 12
    MaxNodes = 3
    Seeds <- SeedsOf
    Sizes = {1, 2}
    Top = 1
    Limits = {1, 2}
    Ontologies <- OntologiesOf
INVARIANTS
    ReadingsAgree
    GapsAreReal
    AliasesScored
    OntologyAccounts
CHECK_DEADLOCK FALSE
