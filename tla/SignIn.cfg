\* A customer, then a user who signs up and signs in, one at a time.
SPECIFICATION Spec
CONSTANTS
    Null = Null
    Request = {1, 2, 3}
    MaxOpen = 1
    MaxFaults = 0
    References <- PeopleReferences
    Uniques <- AccountUniques
    UserDto <- MCUserDto
    PersonDto <- FirstPersonDto
    PersonEdit <- MCPersonEdit
    Area <- FirstArea
    Rows <- FirstRows
    SignedIn <- FirstSignedIn
    Among <- FirstAmong
INVARIANT SignInFindsPerson
