CONSTANTS
    main = main
    one = one
    two = two
    s = s
    t = t
    Absent = Absent
    Partial = Partial
    Files = {main, one, two}
    Entry = main
    Texts = {s, t}
    DiskMayFill = FALSE
    RemovalMayFail = FALSE
    MaxCommands = 3
    MaxEdits = 1
SPECIFICATION Spec
SYMMETRY Interchangeable
INVARIANTS
    LibraryIsExact
    ReportsAreTrue
    RunsWhatWasBuilt
