\* Every request of a service beside every other, with one fault.
SPECIFICATION Spec
CONSTANTS
    Null = Null
    s1 = s1  s2 = s2  d1 = d1  d2 = d2  l1 = l1  l2 = l2  h1 = h1
    c1 = c1  c2 = c2  p1 = p1  p2 = p2  g1 = g1  o1 = o1
    Request = {1, 2, 3}
    MaxOpen = 2
    MaxFaults = 1
    References <- CatalogueReferences
    Uniques <- CatalogueUniques
    Code = {"A", "B"}
    DiscountDto <- MCDiscountDto
    StatusBody = {"expired"}
    StoreName = {"north", "south", "west"}
    Day = {"mon", "tue"}
    Slots = {"am"}
    Title = {"new"}
    GroupDto <- MCGroupDto
    GroupEdit <- MCGroupEdit
    Area <- MCArea
    Rows <- MCRows
    Among <- MCAmong
INVARIANTS
    TypeOK
    OverwrittenOnlyByOverlap
    ClashOnlyByOverlap
    DeletedTakesChildren
    DayTwiceOnlyByOverlap
