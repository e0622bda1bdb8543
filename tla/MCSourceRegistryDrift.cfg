SPECIFICATION Spec
CONSTANTS
    yard = yard
    shed = shed
    h1 = h1
    h2 = h2
    None = None
    Names <- MCNames
    Handlers <- MCHandlers
    MaxRevs = 3
INVARIANT NeverDrift
SYMMETRY Symmetry
