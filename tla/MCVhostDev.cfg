CONSTANTS
    Sections <- MCSections
    RamBase <- MCRamBase
    Logging <- MCLogging
    NQ = 1
    RingPage <- MCRingPage
    PagesPerChunk = 2
    LogSlack = 1
    AddrTop = 7
    CtlFail = TRUE
    NoSec = NoSec
    NoHva = NoHva
SPECIFICATION Spec
INVARIANTS
    TypeOK
    KernelLogInBounds
    NoMappedBitDropped
    RegionTableExact
    MergeMaximal
    
    KernelView
PROPERTY
    DirtyBitsReported
