\* Stock, registers and attendance, each service's requests beside each
\* other, with one fault.
SPECIFICATION Spec
CONSTANTS
    Null = Null
    Request = {1, 2, 3}
    MaxOpen = 2
    MaxFaults = 1
    References <- OperationsReferences
    Uniques = {}
    ItemTitle = {"new"}
    Quantity = {0, 1, 2}
    CloseRegisterDto <- MCCloseRegisterDto
    CashManagementDto <- MCCashManagementDto
    LastMillisecond = 5
    ClockOut = {"five"}
    Value = {"new"}
    Area <- MCArea
    Rows <- MCRows
    Photos <- MCPhotos
    Among <- MCAmong
INVARIANTS
    TypeOK
    OverwrittenOnlyByOverlap
    LedgerMatchesPurchases
    PhotoLostExplained
    ProcessEndsExplained
