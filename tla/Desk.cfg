\* One place, three people, one of whom the staff decide about.
SPECIFICATION Spec
CONSTANTS
    None = None
    StartAt = 4
    CloseAt = 3
    WindowOpens = None
    WindowDeadline = None
    ReleaseUnsigned = FALSE
    HoldTime = 1
    OfferTime = 1
    Person <- Three
    Relative <- Nobody
    Invitee <- Nobody
    Desk <- One
    EventForms <- NoForms
    FirstEvent <- OnePlace
    EditorMayLower = FALSE
    EmailsQueue = FALSE
    LinkTime = 1
    InviteTime = 1
    LongestClubHold = 2
    MaxCapacity = 2
    MaxTime = 4
\* The bounded clock ends every behaviour: the last state may have no step.
CHECK_DEADLOCK FALSE
INVARIANTS
    NoOverbooking
PROPERTIES
    LineNotOvertaken
    LongestWaitingServedFirst
    NoHoldReleasedInVain
