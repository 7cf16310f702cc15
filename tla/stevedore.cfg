SPECIFICATION Spec
CONSTANTS
    e1 = e1  e2 = e2  e3 = e3  a = a  b = b  c = c  None = None
    EntryPoint = {e1, e2, e3}
    Name = {a, b, c}
    NameOf <- SomeNames
    NameLists <- SomeLists
    TestLists <- SomeTests
    MaxManagers = 2
INVARIANTS
    TypeOK
    ListAccounted
    NamesHonoured
    MapFair
CHECK_DEADLOCK FALSE
