\* Every version checked out, runs, reverts and synchronisations in any order.
SPECIFICATION Spec
CONSTANTS
    Existing <- MCExisting
    Version <- MCVersion
    MaxDeaths = 1
INVARIANTS
    TypeOK
    BuiltAsRecorded
    FoundTablesKept
PROPERTIES
    AttendanceBlocks
    SyncFreezesRecord
