\* Attendances, one request at a time and no fault.
SPECIFICATION Spec
CONSTANTS
    Null = Null
    Request = {1, 2}
    MaxOpen = 1
    MaxFaults = 0
    References <- OperationsReferences
    Uniques = {}
    ItemTitle = {"new"}
    Quantity = {1}
    CloseRegisterDto <- MCCloseRegisterDto
    CashManagementDto <- MCCashManagementDto
    LastMillisecond = 5
    ClockOut = {"five"}
    Value = {"new"}
    Area = {"attendance"}
    Rows <- MCRows
    Photos <- MCPhotos
    Among <- MCAmong
INVARIANT PhotosApart
