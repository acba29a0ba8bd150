CONSTANTS
    Kinds = {"foreignClient"}
    Proxies = {TRUE}
    MaxSend = 1
    MaxForeign = 2
    ForeignUnits <- MCForeignUnits
    MaxFaults = 0
    Senders = {"library"}
    Pingers = {"foreignServer"}
    Pausers = {"foreignServer"}
    CloseCodes <- MCCloseCodes
SPECIFICATION Spec
INVARIANT ServiceSurvives
CHECK_DEADLOCK FALSE
