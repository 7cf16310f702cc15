SPECIFICATION Spec
CONSTANTS
    PAGE = 2
    Mem = 10
    NBar = 2
    Thread = {t1, t2}
    Layouts <- SomeLayouts
    MaxMaps = 2
INVARIANTS
    TypeOK
    MappingsConfined
    RegionsTracked
    SparseExact
