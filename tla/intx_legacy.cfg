SPECIFICATION Spec
CONSTANTS
    Fd = {e1, e2}
    None = None
    Pci23 = FALSE
    Serial = TRUE
INVARIANTS
    TypeOK
    HandlerHasTrigger
    NoSilentMask
