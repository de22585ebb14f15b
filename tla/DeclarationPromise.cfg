\* A declaration email accepted by the mail server before its deadline is moved.
SPECIFICATION Spec
CONSTANTS
    None = None
    StartAt = 4
    CloseAt = 3
    WindowOpens = None
    WindowDeadline = None
    ReleaseUnsigned = FALSE
    HoldTime = 1
    OfferTime = 1
    Person <- Two
    Relative <- Nobody
    Invitee <- Nobody
    Desk <- Nobody
    EventForms <- NoForms
    FirstEvent <- OnePlace
    EditorMayLower = FALSE
    EmailsQueue = TRUE
    LinkTime = 1
    InviteTime = 1
    LongestClubHold = 2
    MaxCapacity = 2
    MaxTime = 4
\* The bounded clock ends every behaviour: the last state may have no step.
CHECK_DEADLOCK FALSE
PROPERTIES
    DeclarationPromiseKept
