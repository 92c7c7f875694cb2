SPECIFICATION Spec
CONSTANTS
    Programs = {p1, p2}
    Containers = {a, b}
    MaxEntries = 2
    MaxAdds = 4
    MaxFaults = 1
SYMMETRY Symmetry
INVARIANT NewestFirst
INVARIANT WithinLimit
PROPERTY ImplementsLog
