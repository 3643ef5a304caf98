SPECIFICATION Spec
CONSTANTS
    Size = 4
    Sections = 3
    Projects <- AllProjects
    MaxAsks = 2
    Queries <- Asked
    Rebuilt <- UnitProjects
    MaxBuilds = 2
    Alphabet <- Order
    NoShard = NoShard
    Defines = {"D"}
INVARIANTS DeliveryOrderIsInvisible BodiesIgnoreHistory OnlyTakenBranchesShow OutlineHidesOnlyBodies
CHECK_DEADLOCK FALSE
