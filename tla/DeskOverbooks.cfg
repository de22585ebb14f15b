\* A lapsed offer, a capacity lowered to the count without it, and the desk.
SPECIFICATION Spec
CONSTANTS
    None = None
    StartAt = 4
    CloseAt = 3
    WindowOpens = None
    WindowDeadline = None
    ReleaseUnsigned = FALSE
    HoldTime = 1
    OfferTime = 1
    Person <- Three
    Relative <- Nobody
    Invitee <- Nobody
    Desk <- One
    EventForms <- OneOrTwoPlaces
    FirstEvent <- TwoPlaces
    EditorMayLower = TRUE
    EmailsQueue = FALSE
    LinkTime = 1
    InviteTime = 1
    LongestClubHold = 2
    MaxCapacity = 2
    MaxTime = 4
\* The bounded clock ends every behaviour: the last state may have no step.
CHECK_DEADLOCK FALSE
PROPERTIES
    NoOverbookingFromTheDesk
