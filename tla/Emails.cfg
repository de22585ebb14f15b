\* First emails that wait in the queue, are retried, lost, or leave late.
SPECIFICATION Spec
CONSTANTS
    None = None
    StartAt = 3
    CloseAt = 2
    WindowOpens = None
    WindowDeadline = None
    ReleaseUnsigned = FALSE
    HoldTime = 1
    OfferTime = 1
    Person <- Two
    Relative <- Nobody
    Invitee <- Nobody
    Desk <- Nobody
    EventForms <- NoForms
    FirstEvent <- OnePlace
    EditorMayLower = FALSE
    EmailsQueue = TRUE
    LinkTime = 3
    InviteTime = 1
    LongestClubHold = 2
    MaxCapacity = 2
    MaxTime = 3
\* The bounded clock ends every behaviour: the last state may have no step.
CHECK_DEADLOCK FALSE
INVARIANTS
    TypeOK
PROPERTIES
    PlaceWaitsForItsEmail
    OfferPromiseKept
