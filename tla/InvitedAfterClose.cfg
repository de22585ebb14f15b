\* An invited person who confirms their own form after the registration closed.
SPECIFICATION Spec
CONSTANTS
    None = None
    StartAt = 4
    CloseAt = 3
    WindowOpens = None
    WindowDeadline = None
    ReleaseUnsigned = FALSE
    HoldTime = 1
    OfferTime = 1
    Person <- Three
    Relative <- Nobody
    Invitee <- One
    Desk <- Nobody
    EventForms <- NoForms
    FirstEvent <- OnePlace
    EditorMayLower = FALSE
    EmailsQueue = FALSE
    LinkTime = 3
    InviteTime = 4
    LongestClubHold = 2
    MaxCapacity = 2
    MaxTime = 4
\* The bounded clock ends every behaviour: the last state may have no step.
CHECK_DEADLOCK FALSE
PROPERTIES
    InvitationAlwaysTurnsIntoPlace
