\* Users and their sessions, customers, suppliers, and the addresses they
\* share, every request beside every other, with one fault.
SPECIFICATION Spec
CONSTANTS
    Null = Null
    Request = {1, 2, 3}
    MaxOpen = 2
    MaxFaults = 1
    References <- PeopleReferences
    Uniques <- AccountUniques
    UserDto <- MCUserDto
    PersonDto <- MCPersonDto
    PersonEdit <- MCPersonEdit
    Area <- MCArea
    Rows <- MCRows
    SignedIn <- MCSignedIn
    Among <- MCAmong
INVARIANTS
    TypeOK
    OneContactEach
    OverwrittenOnlyByOverlap
    ContactTwiceOnlyByOverlap
    
    LoggedOutStaysOut
