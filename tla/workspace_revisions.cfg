SPECIFICATION Spec
CONSTANTS
    prj = prj
    lib = lib
    absent = absent
    noFile = noFile
    noName = noName
    unresolved = unresolved
    def = def
    Absent = absent
    NoFile = noFile
    NoName = noName
    Unresolved = unresolved
    Workspace = Workspace
    NoProject = NoProject
    Names <- MCNames
    Dotted <- MCDotted
    ConfigFile <- Toml
    TextsOf <- MCTexts
    FirstDisk <- MCFirstDisk
    RecursionLimit = 7
    MaxEdits = 1
INVARIANTS EqualFingerprintEqualIndex WalkIsComplete
