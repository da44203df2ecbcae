CONSTANTS
    Nibble = 4
    U32 = 3
    Words = 2
    DiffOne = 61440
    None = None
    Nesting = 3
    Doubles <- SomeDoubles
    One = 10
    Limit = 100
    Units <- TensTo4
    ExponentRead = FALSE
    Inputs <- AllInputs
SPECIFICATION Spec
INVARIANTS BytesKept ShareIsBlock KeyIsWork BlockIsShare JSONKept PartRefused
