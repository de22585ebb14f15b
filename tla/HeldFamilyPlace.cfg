\* A place a sitting holds for a person whose own form is still to be confirmed.
SPECIFICATION Spec
CONSTANTS
    None = None
    StartAt = 4
    CloseAt = 3
    WindowOpens = None
    WindowDeadline = None
    ReleaseUnsigned = FALSE
    HoldTime = 1
    OfferTime = 1
    Person <- Two
    Relative <- One
    Invitee <- Nobody
    Desk <- Nobody
    EventForms <- NoForms
    FirstEvent <- OnePlace
    EditorMayLower = FALSE
    EmailsQueue = FALSE
    LinkTime = 1
    InviteTime = 1
    LongestClubHold = 2
    MaxCapacity = 2
    MaxTime = 4
\* The bounded clock ends every behaviour: the last state may have no step.
CHECK_DEADLOCK FALSE
PROPERTIES
    HeldFamilyPlaceHonoured
