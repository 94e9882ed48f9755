SPECIFICATION Spec
CONSTANTS
    old = old
    new = new
    reader = reader
    Writer = {old, new}
    Reader = {reader}
    MarkFails = FALSE
    MaxSaves = 3
INVARIANT TrustedIsCurrent
