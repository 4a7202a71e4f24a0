\* Every history of the rates of two pairs over four blocks, two crashes anywhere, one
\* skipped fetch.
CONSTANTS
    Pairs = {p1, p2}
    Rates = {r1, r2}
    MaxHead = 4
    FirstHead = 2
    Flags <- DaemonOrRange
    MaxCrashes = 2
    MaxSkips = 1
    Unset = Unset
SPECIFICATION Spec
INVARIANTS
    GroupsAreSeamless
    TypeOK
    RowsAreRight
    CompletedIsCovered
PROPERTIES
    EventuallyCovered
