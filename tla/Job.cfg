\* The maintenance job, and an editor who moves the cap both ways.
SPECIFICATION FairSpec
CONSTANTS
    None = None
    StartAt = 4
    CloseAt = 3
    WindowOpens = None
    WindowDeadline = None
    ReleaseUnsigned = FALSE
    HoldTime = 1
    OfferTime = 1
    Person <- Two
    Relative <- Nobody
    Invitee <- Nobody
    Desk <- One
    EventForms <- EveryCap
    FirstEvent <- OnePlace
    EditorMayLower = TRUE
    EmailsQueue = FALSE
    LinkTime = 1
    InviteTime = 1
    LongestClubHold = 2
    MaxCapacity = 2
    MaxTime = 4
\* The bounded clock ends every behaviour: the last state may have no step.
CHECK_DEADLOCK FALSE
PROPERTIES
    PlacesGivenWithinCapacity
    MaintenanceSettles
    CappedLineServed
    StartedRaceCloses
