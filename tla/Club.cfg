SPECIFICATION ClubSpec
CONSTANTS
  Tokens = {1, 2, 3}
  s1 = s1
  s2 = s2
  Sessions = {s1, s2}
  Purposes = {"declaration", "offer", "list"}
  Declaring = "declaration"
  Offering = "offer"
  Switching = "list"
  Family = "family"
  Writers = {1, 2}
  Orders = {1, 2}
  Quantities = {1}
  StockMax = 2
  SavesMax = 1
  Letters = {1, 2}
  KindsOf <- LettersKinds
  Refusable = {1}
  LastInstant = 2
  Runners = {1, 2}
  OutsideRunners = {2}
  HiddenStart = 3
  NumberMax = 3
  SparesMax = 1
  People = {1, 2, 3}
  Kept = {2}
  Sittings = {1, 2}
  Window = 2
  HoldFor = 1
  SignWindow = 1
  LastTick = 4
  HitchesMax = 1
INVARIANTS
  ClubTypeOK
  NoCircularWait
  FactsInAnyOrder
  SentAgainIsKnown
  NoTwoWearOne
  NumberNeverReissued
  OneMessageForTheFamily
  EverybodyIsNamed
PROPERTIES
  LinksKeepTheLedger
  StockConserved
  HeldUntilDone
CHECK_DEADLOCK FALSE
