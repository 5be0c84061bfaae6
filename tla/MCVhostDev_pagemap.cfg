CONSTANTS
    Sections <- MCSectionsTable
    RamBase <- MCRamBase
    Logging <- MCLogging
    NQ = 1
    RingPage <- MCRingPage
    PagesPerChunk = 2
    LogSlack = 1
    AddrTop = 7
    CtlFail = FALSE
    NoSec = NoSec
    NoHva = NoHva
SPECIFICATION Spec
PROPERTY
    PageMapRefined
