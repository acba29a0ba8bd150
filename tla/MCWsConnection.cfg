CONSTANTS
    Kinds = {"library", "foreignClient", "foreignServer"}
    Proxies = {TRUE}
    MaxSend = 1
    MaxForeign = 2
    ForeignUnits <- MCForeignUnits
    MaxFaults = 1
    Senders = {"library"}
    Pingers = {"foreignServer"}
    Pausers = {"foreignServer"}
    CloseCodes <- MCCloseCodes
SPECIFICATION FairSpec
INVARIANTS
    
    AssertionsHold
    WriteFlagExact
    
PROPERTIES
    QuietAfterClose
    
CHECK_DEADLOCK FALSE
