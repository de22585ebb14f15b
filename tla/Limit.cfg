\* Two places, one kept for the club, a line of one, and the unsigned places released at a deadline.
SPECIFICATION Spec
CONSTANTS
    None = None
    StartAt = 3
    CloseAt = 2
    WindowOpens = 0
    WindowDeadline = 1
    ReleaseUnsigned = TRUE
    HoldTime = 1
    OfferTime = 2
    Person <- Three
    Relative <- Nobody
    Invitee <- Nobody
    Desk <- One
    EventForms <- NoForms
    FirstEvent <- KeptShortLine
    EditorMayLower = FALSE
    EmailsQueue = FALSE
    LinkTime = 1
    InviteTime = 1
    LongestClubHold = 2
    MaxCapacity = 3
    MaxTime = 2
\* The bounded clock ends every behaviour: the last state may have no step.
CHECK_DEADLOCK FALSE
INVARIANTS
    LineWithinItsLimit
    DoorNeverAdmitsInVain
PROPERTIES
    KeptPlacesStayWithTheClub
    FreePlacesAreTheClubs
