SPECIFICATION FairSpec
CONSTANTS
    Fd = {e1, e2}
    None = None
    Pci23 = TRUE
    Serial = TRUE
INVARIANTS
    MaskObeyed
PROPERTIES
    InterruptDelivered
