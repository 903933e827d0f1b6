CONSTANTS
    PAGE_SIZE = 4
    ALLOC_HEADER_SIZE = 2
    WORD = 64
    HeapPages = 9
    DmaBase = 17
    DmaEnd = 21
    Sizes <- MCSizes
SPECIFICATION Spec
INVARIANTS
    TypeOK
    BitmapExact
    BlockUsable
PROPERTIES
    FirstFit
