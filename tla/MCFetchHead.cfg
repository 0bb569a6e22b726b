CONSTANTS
    None = None
    Other = Other
    p1 = p1
    p2 = p2
    Patches = {p1, p2}
    Limits <- OneFetch
SPECIFICATION Spec
INVARIANTS
    AnchoredInBase
