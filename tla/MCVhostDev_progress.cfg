CONSTANTS
    Sections <- MCSectionsQueues
    RamBase <- MCRamBase
    Logging <- MCLogging
    NQ = 2
    RingPage <- MCRingPage2
    PagesPerChunk = 2
    LogSlack = 1
    AddrTop = 7
    CtlFail = FALSE
    NoSec = NoSec
    NoHva = NoHva
SPECIFICATION FairSpec
PROPERTY
    HandlerCompletes
