-------------------------- MODULE Allocation_proofs --------------------------
(***************************************************************************)
(* The type invariant of the allocator, for every value of the constants.  *)
(*                                                                         *)
(* The transactions are operators from databases to databases, so the      *)
(* proof has a lemma per operator - good rows in, good rows out - and the  *)
(* step of each action follows from those of the operators it is built of. *)
(***************************************************************************)
EXTENDS AllocationProperties, TLAPS

-----------------------------------------------------------------------------
(***************************************************************************)
(* Deadlines.                                                              *)
(***************************************************************************)
LEMMA DeadlineRange ==
    /\ Deadline \subseteq Nat
    /\ 0..StartAt \subseteq Deadline
    /\ Time \subseteq Nat
    /\ CloseAt \in 0..StartAt /\ StartAt \in 0..StartAt
    /\ \A t \in Time : t + LinkTime \in Deadline
    /\ None \notin Deadline /\ None \notin Time
  BY NoneAssumption, DatesAssumption, DeadlinesAssumption, BoundsAssumption DEF Deadline, Time

\* No hold outlives the start, whatever it is counted from (capHoldExpiry).
LEMMA HoldsEndByTheStart ==
    ASSUME NEW t \in Nat, NEW close \in 0..StartAt
    PROVE  /\ CapHoldExpiry(t, close) \in 0..StartAt
           /\ DeclarationHoldExpiry(t, close) \in 0..StartAt
           /\ WaitlistOfferExpiry(t, close) \in 0..StartAt
           /\ FamilyReservationExpiry(t) \in 0..StartAt
           /\ VouchedPlaceExpiry(t) \in 0..StartAt
           /\ InvitationDeadline(t) \in 0..StartAt
  BY NoneAssumption, DatesAssumption, DeadlinesAssumption, BoundsAssumption
     DEF CapHoldExpiry, DeclarationHoldExpiry, WaitlistOfferExpiry, FamilyReservationExpiry,
         VouchedPlaceExpiry, InvitationDeadline, Least, BeforeWindow

-----------------------------------------------------------------------------
(***************************************************************************)
(* Rows.                                                                   *)
(***************************************************************************)
Settled == {"CONFIRMED", "CANCELLED", "EXPIRED"}
Holding == {"PENDING_DECLARATION", "WAITLIST_OFFERED"}

LEMMA MovedRow ==
    ASSUME NEW r \in Registration, NEW status, NEW hold \in Deadline \cup {None},
           \/ status \in Settled /\ hold = None
           \/ status \in Holding /\ hold # None
    PROVE  Moved(r, status, hold) \in Registration /\ WellFormed(Moved(r, status, hold))
  BY DEF Moved, Registration, WellFormed, Settled, Holding, Status, Active, Terminal

\* New rows, good one by one, make a good table of them.
LEMMA NewRows ==
    ASSUME NEW d, GoodRows(d), NEW rows \in [Person -> Registration],
           \A p \in Person : WellFormed(rows[p])
    PROVE  GoodRows([d EXCEPT !.reg = rows])
  BY DEF GoodRows, Database

LEMMA NewRow ==
    ASSUME NEW d, GoodRows(d), NEW p \in Person, NEW r \in Registration, WellFormed(r)
    PROVE  GoodRows([d EXCEPT !.reg[p] = r])
  BY DEF GoodRows, Database

LEMMA RowsAre ==
    ASSUME NEW d, GoodRows(d), NEW p \in Person
    PROVE  d.reg[p] \in Registration /\ WellFormed(d.reg[p])
  BY DEF GoodRows, Database

LEMMA NewInvitations ==
    ASSUME NEW d, GoodRows(d), NEW invs \in [Person -> Invitation \cup {None}]
    PROVE  GoodRows([d EXCEPT !.inv = invs])
  BY DEF GoodRows, Database

LEMMA NewInvitation ==
    ASSUME NEW d, GoodRows(d), NEW p \in Person, NEW i \in Invitation \cup {None}
    PROVE  GoodRows([d EXCEPT !.inv[p] = i])
  BY DEF GoodRows, Database

LEMMA NewFamilyPlace ==
    ASSUME NEW d, GoodRows(d), NEW p \in Person, NEW until \in Deadline \cup {None}
    PROVE  GoodRows([d EXCEPT !.fam[p] = until])
  BY DEF GoodRows, Database

LEMMA NewVerified ==
    ASSUME NEW d, GoodRows(d), NEW people \in SUBSET Person
    PROVE  GoodRows([d EXCEPT !.verified = people])
  BY DEF GoodRows, Database

LEMMA NewMail ==
    ASSUME NEW d, GoodRows(d), NEW queue \in SUBSET Mail
    PROVE  GoodRows([d EXCEPT !.mail = queue])
  BY DEF GoodRows, Database

LEMMA NewSettings ==
    ASSUME NEW d, GoodRows(d), NEW ev \in StoredEvent
    PROVE  GoodRows([d EXCEPT !.ev = ev])
  BY DEF GoodRows, Database

LEMMA NewOutside ==
    ASSUME NEW d, GoodRows(d), NEW p \in Person, NEW outside \in BOOLEAN
    PROVE  GoodRows([d EXCEPT !.reg[p].outside = outside])
  <1> DEFINE r == [d.reg[p] EXCEPT !.outside = outside]
  <1>1. r \in Registration /\ WellFormed(r)
    BY RowsAre DEF Registration, WellFormed
  <1>2. GoodRows([d EXCEPT !.reg[p] = r])
    BY <1>1, NewRow
  <1> QED BY <1>2

LEMMA NewHold ==
    ASSUME NEW d, GoodRows(d), NEW p \in Person, NEW hold \in Deadline,
           d.reg[p].status \in Active \ {"CONFIRMED", "WAITLISTED"}
    PROVE  GoodRows([d EXCEPT !.reg[p].hold = hold])
  <1> DEFINE r == [d.reg[p] EXCEPT !.hold = hold]
  <1>1. r \in Registration /\ WellFormed(r)
    BY RowsAre, DeadlineRange DEF Registration, WellFormed, Active
  <1>2. GoodRows([d EXCEPT !.reg[p] = r])
    BY <1>1, NewRow
  <1> QED BY <1>2

\* A row moved into a hold, or out of everything.
LEMMA MovedGood ==
    ASSUME NEW d, GoodRows(d), NEW p \in Person, NEW status, NEW hold \in Deadline \cup {None},
           \/ status \in Settled /\ hold = None
           \/ status \in Holding /\ hold # None
    PROVE  GoodRows([d EXCEPT !.reg[p] = Moved(@, status, hold)])
  BY RowsAre, MovedRow, NewRow

-----------------------------------------------------------------------------
(***************************************************************************)
(* The sweep and the line.                                                 *)
(***************************************************************************)
LEMMA ExpireByClockGood ==
    ASSUME NEW d, GoodRows(d), NEW t \in Time
    PROVE  GoodRows(ExpireByClock(d, t))
  <1> DEFINE rows == [p \in Person |->
                 IF OfferLapsed(d, p, t) THEN Moved(d.reg[p], "EXPIRED", None)
                 ELSE IF ReservationLapsed(d, p, t) THEN [d.reg[p] EXCEPT !.hold = None]
                 ELSE d.reg[p]]
             fams == [p \in Person |-> IF Past(d.fam[p], t) THEN None ELSE d.fam[p]]
             invs == [p \in Person |->
                 IF d.inv[p] # None /\ ~LiveInvitation(d, p, t) THEN None ELSE d.inv[p]]
  <1>1. ASSUME NEW p \in Person
        PROVE  rows[p] \in Registration /\ WellFormed(rows[p])
    <2>1. d.reg[p] \in Registration /\ WellFormed(d.reg[p])
      BY RowsAre
    <2>2. Moved(d.reg[p], "EXPIRED", None) \in Registration
          /\ WellFormed(Moved(d.reg[p], "EXPIRED", None))
      BY <2>1, MovedRow DEF Settled
    <2>3. ReservationLapsed(d, p, t)
          => [d.reg[p] EXCEPT !.hold = None] \in Registration
             /\ WellFormed([d.reg[p] EXCEPT !.hold = None])
      BY <2>1 DEF ReservationLapsed, Registration, WellFormed
    <2> QED BY <2>1, <2>2, <2>3
  <1>2. rows \in [Person -> Registration] /\ \A p \in Person : WellFormed(rows[p])
    BY <1>1
  <1>3. fams \in [Person -> Deadline \cup {None}] /\ invs \in [Person -> Invitation \cup {None}]
    BY DEF GoodRows, Database
  <1>4. ExpireByClock(d, t) = [d EXCEPT !.reg = rows, !.fam = fams, !.inv = invs]
    BY DEF ExpireByClock
  <1> HIDE DEF rows, fams, invs
  <1> QED BY <1>2, <1>3, <1>4 DEF GoodRows, Database

LEMMA ReleaseHoldsGood ==
    ASSUME NEW d, GoodRows(d), NEW released
    PROVE  GoodRows(ReleaseHolds(d, released))
  <1> DEFINE freed(p) == [Moved(d.reg[p], "EXPIRED", None) EXCEPT !.late = TRUE]
             rows == [p \in Person |-> IF p \in released THEN freed(p) ELSE d.reg[p]]
  <1>1. ASSUME NEW p \in Person PROVE freed(p) \in Registration /\ WellFormed(freed(p))
    <2>1. d.reg[p] \in Registration
      BY RowsAre
    <2>2. freed(p) \in Registration
      BY <2>1 DEF Moved, Registration, Status, Terminal
    <2>3. WellFormed(freed(p))
      BY <2>1 DEF Moved, Registration, WellFormed
    <2> QED BY <2>2, <2>3
  <1>2. rows \in [Person -> Registration] /\ \A p \in Person : WellFormed(rows[p])
    BY <1>1, RowsAre
  <1>3. ReleaseHolds(d, released) = [d EXCEPT !.reg = rows]
    BY DEF ReleaseHolds
  <1> HIDE DEF rows
  <1> QED BY <1>2, <1>3, NewRows

LEMMA AfterDeadlineReleaseGood ==
    ASSUME NEW d, GoodRows(d)
    PROVE  GoodRows(AfterDeadlineRelease(d))
  BY DEF AfterDeadlineRelease, GoodRows, Database, StoredEvent

LEMMA ExpireStaleHoldsGood ==
    ASSUME NEW d, GoodRows(d), NEW t \in Time, NEW wanting, NEW channel
    PROVE  GoodRows(ExpireStaleHolds(d, t, wanting, channel))
  BY ExpireByClockGood, ReleaseHoldsGood, AfterDeadlineReleaseGood
     DEF ExpireStaleHolds, ReleaseWanted

LEMMA ExpiredGood ==
    ASSUME NEW d, GoodRows(d), NEW t \in Time
    PROVE  GoodRows(Expired(d, t))
  BY ExpireStaleHoldsGood DEF Expired

LEMMA QueuedGood ==
    ASSUME NEW d, GoodRows(d), NEW people \in SUBSET Person, NEW kind \in MailKind, NEW t \in Time
    PROVE  GoodRows(Queued(d, people, kind, t))
  <1>1. d.mail \cup {[to |-> p, kind |-> kind, at |-> t] : p \in people} \in SUBSET Mail
    BY DEF GoodRows, Database, Mail
  <1> QED BY <1>1, NewMail DEF Queued

LEMMA OfferedGood ==
    ASSUME NEW d, GoodRows(d), NEW people, NEW hold \in Deadline
    PROVE  GoodRows(Offered(d, people, hold))
  <1> DEFINE rows == [p \in Person |->
                 IF p \in people THEN Moved(d.reg[p], "WAITLIST_OFFERED", hold) ELSE d.reg[p]]
  <1>1. ASSUME NEW p \in Person
        PROVE  rows[p] \in Registration /\ WellFormed(rows[p])
    BY RowsAre, MovedRow, DeadlineRange DEF Holding
  <1>2. rows \in [Person -> Registration] /\ \A p \in Person : WellFormed(rows[p])
    BY <1>1
  <1>3. Offered(d, people, hold) = [d EXCEPT !.reg = rows]
    BY DEF Offered
  <1> HIDE DEF rows
  <1> QED BY <1>2, <1>3, NewRows

LEMMA NextInLineWaits ==
    ASSUME NEW d, NEW t \in Time
    PROVE  NextInLine(d, t) \subseteq Waiting(d) /\ Waiting(d) \subseteq Person
  BY DEF NextInLine, FirstOf, Waiting, WithStatus

LEMMA OfferToGood ==
    ASSUME NEW d, GoodRows(d), NEW people \in SUBSET Person, NEW t \in Time
    PROVE  GoodRows(OfferTo(d, people, t))
  <1> DEFINE until == WaitlistOfferExpiry(t, CloseAt)
  <1>1. until \in Deadline
    BY HoldsEndByTheStart, DeadlineRange
  <1> HIDE DEF until
  <1>2. GoodRows(Queued(Offered(d, people, until), people, "offer", t))
    BY <1>1, OfferedGood, QueuedGood DEF MailKind
  <1> QED BY <1>2 DEF OfferTo, until

LEMMA FillAvailableSpotsGood ==
    ASSUME NEW d, GoodRows(d), NEW t \in Time
    PROVE  GoodRows(FillAvailableSpots(d, t))
  <1>1. GoodRows(Expired(d, t))
    BY ExpiredGood
  <1>2. NextInLine(Expired(d, t), t) \in SUBSET Person
    BY NextInLineWaits
  <1> QED BY <1>1, <1>2, OfferToGood DEF FillAvailableSpots, OfferPlaces

LEMMA ServedGood ==
    ASSUME NEW d, GoodRows(d), NEW t \in Time
    PROVE  GoodRows(Served(d, t))
  BY ExpiredGood, FillAvailableSpotsGood DEF Served

-----------------------------------------------------------------------------
(***************************************************************************)
(* The allocator.                                                          *)
(***************************************************************************)
Way == [channel : Channel, invited : BOOLEAN, vouched : BOOLEAN]

LEMMA Ways ==
    /\ \A channel \in Channel : Entry(channel) \in Way
    /\ VouchedEntry \in Way /\ InvitedEntry \in Way
  BY DEF Entry, VouchedEntry, InvitedEntry, Way, Channel

LEMMA HoldForRange ==
    ASSUME NEW how \in Way, NEW t \in Time
    PROVE  HoldFor(how, t) \in Deadline
  BY HoldsEndByTheStart, DeadlineRange DEF HoldFor

LEMMA WithPlaceGood ==
    ASSUME NEW d, GoodRows(d), NEW p \in Person, NEW hold \in Deadline
    PROVE  GoodRows(WithPlace(d, p, hold))
  BY MovedGood, DeadlineRange DEF WithPlace, Holding

LEMMA ConfirmedGood ==
    ASSUME NEW d, GoodRows(d), NEW p \in Person
    PROVE  GoodRows(Confirmed(d, p))
  BY MovedGood DEF Confirmed, Settled

LEMMA InLineGood ==
    ASSUME NEW d, GoodRows(d), NEW p \in Person, NEW t \in Time
    PROVE  GoodRows(InLine(d, p, t))
  <1> DEFINE m == Moved(d.reg[p], "WAITLISTED", None)
             r == [m EXCEPT !.since = t]
  <1>1. /\ m \in Registration /\ m.status = "WAITLISTED"
        /\ m.hold = None /\ m.link = None /\ m.late = FALSE
    BY RowsAre DEF Moved, Registration, Status, Active
  <1>2. r \in Registration /\ WellFormed(r)
    <2> HIDE DEF m
    <2> QED BY <1>1, DeadlineRange DEF Registration, WellFormed
  <1>3. InLine(d, p, t) = [d EXCEPT !.reg[p] = r]
    BY DEF InLine
  <1> HIDE DEF r
  <1> QED BY <1>2, <1>3, NewRow

LEMMA WithFormGood ==
    ASSUME NEW d, GoodRows(d), NEW p \in Person, NEW t \in Time, NEW staff \in BOOLEAN
    PROVE  GoodRows(WithForm(d, p, t, staff))
  <1> DEFINE r == [Absent EXCEPT !.status = "PENDING_EMAIL_CONFIRMATION",
                                 !.link = t + LinkTime, !.staff = staff]
  <1>1. r \in Registration /\ WellFormed(r)
    BY DeadlineRange DEF Absent, Registration, WellFormed, Status, Active
  <1>2. WithForm(d, p, t, staff) = [d EXCEPT !.reg[p] = r]
    BY DEF WithForm
  <1> QED BY <1>1, <1>2, NewRow

LEMMA OutsideIsBoolean ==
    ASSUME NEW d, GoodRows(d), NEW p \in Person
    PROVE  d.reg[p].outside \in BOOLEAN /\ (d.inv[p] # None => d.inv[p].outside \in BOOLEAN)
  BY DEF GoodRows, Database, Registration, Invitation

LEMMA ClaimingGood ==
    ASSUME NEW d, GoodRows(d), NEW p \in Person, NEW adopts \in BOOLEAN,
           adopts => d.inv[p] # None
    PROVE  GoodRows(Claiming(d, p, adopts))
  <1> DEFINE outside == d.reg[p].outside \/ (adopts /\ d.inv[p].outside)
             freed == [d EXCEPT !.fam[p] = None]
  <1>1. GoodRows(freed)
    BY NewFamilyPlace
  <1>2. outside \in BOOLEAN
    OBVIOUS
  <1>3. Claiming(d, p, adopts) = [freed EXCEPT !.reg[p].outside = outside]
    BY DEF Claiming, GoodRows, Database
  <1> HIDE DEF outside, freed
  <1> QED BY <1>1, <1>2, <1>3, NewOutside

LEMMA GivenPlaceGood ==
    ASSUME NEW d, GoodRows(d), NEW p \in Person, NEW t \in Time, NEW how \in Way, NEW adopts
    PROVE  GoodRows(GivenPlace(d, p, t, how, adopts))
  <1>1. GoodRows(WithPlace(d, p, HoldFor(how, t)))
    BY WithPlaceGood, HoldForRange
  <1>2. GoodRows([WithPlace(d, p, HoldFor(how, t)) EXCEPT !.inv[p] = None])
    BY <1>1, NewInvitation
  <1> QED BY <1>1, <1>2, FillAvailableSpotsGood DEF GivenPlace

LEMMA PlacedOrQueuedGood ==
    ASSUME NEW d, GoodRows(d), NEW p \in Person, NEW t \in Time, NEW how \in Way,
           NEW direct, NEW adopts
    PROVE  \A e \in PlacedOrQueued(d, p, t, how, direct, adopts) : GoodRows(e)
  <1> DEFINE after == ExpireStaleHolds(d, t, 1, how.channel)
  <1>1. GoodRows(after)
    BY ExpireStaleHoldsGood
  <1>2. GoodRows(GivenPlace(d, p, t, how, adopts)) /\ GoodRows(GivenPlace(after, p, t, how, FALSE))
    BY <1>1, GivenPlaceGood
  <1>3. GoodRows(FillAvailableSpots(InLine(d, p, t), t))
    BY InLineGood, FillAvailableSpotsGood
  <1>4. CASE direct \/ FreeFor(d, t, how.channel)
    BY <1>2, <1>4 DEF PlacedOrQueued
  <1>5. CASE ~(direct \/ FreeFor(d, t, how.channel)) /\ LineTakesOneMore(d, t)
    BY <1>3, <1>5 DEF PlacedOrQueued
  <1>6. CASE ~(direct \/ FreeFor(d, t, how.channel)) /\ ~LineTakesOneMore(d, t)
    BY <1>2, <1>6 DEF PlacedOrQueued, PlaceOfLapsedHold
  <1> QED BY <1>4, <1>5, <1>6

LEMMA AllocatedGood ==
    ASSUME NEW d, GoodRows(d), NEW p \in Person, NEW t \in Time, NEW how \in Way
    PROVE  \A e \in Allocated(d, p, t, how) : GoodRows(e)
  <1> DEFINE adopts == ~how.invited /\ Adopts(d, p, t)
             mine == Claiming(d, p, adopts)
  <1>1. GoodRows(Served(mine, t))
    BY ClaimingGood, ServedGood DEF Adopts, LiveInvitation
  <1>2. Allocated(d, p, t, how)
        = PlacedOrQueued(Served(mine, t), p, t, how, adopts \/ HasOwnPlace(mine, p, t, how), adopts)
    BY DEF Allocated
  <1> HIDE DEF adopts, mine
  <1> QED BY <1>1, <1>2, PlacedOrQueuedGood

LEMMA AllocationEmailGood ==
    ASSUME NEW d, GoodRows(d), NEW p \in Person, NEW t \in Time
    PROVE  GoodRows(AllocationEmail(d, p, t))
  BY QueuedGood DEF AllocationEmail, MailKind

LEMMA AllocatedWithEmailGood ==
    ASSUME NEW d, GoodRows(d), NEW p \in Person, NEW t \in Time, NEW how \in Way
    PROVE  \A e \in AllocatedWithEmail(d, p, t, how) : GoodRows(e)
  BY AllocatedGood, AllocationEmailGood DEF AllocatedWithEmail

LEMMA EnteredGood ==
    ASSUME NEW d, GoodRows(d), NEW p \in Person, NEW t \in Time, NEW how \in Way
    PROVE  \A e \in Entered(d, p, t, how) : GoodRows(e)
  <1>1. GoodRows([d EXCEPT !.reg[p].outside = FALSE])
    BY NewOutside
  <1>2. GoodRows(WithForm(d, p, t, how.channel = "staff"))
    BY WithFormGood
  <1> QED BY <1>1, <1>2, AllocatedWithEmailGood DEF Entered

\* The sweep and the line leave a row whose email is not confirmed where it is.
LEMMA UnconfirmedStays ==
    ASSUME NEW d, GoodRows(d), NEW p \in Person, NEW t \in Time,
           d.reg[p].status = "PENDING_EMAIL_CONFIRMATION"
    PROVE  Served(d, t).reg[p].status = "PENDING_EMAIL_CONFIRMATION"
  <1>1. ASSUME NEW c, GoodRows(c), c.reg[p].status = "PENDING_EMAIL_CONFIRMATION"
        PROVE  Expired(c, t).reg[p].status = "PENDING_EMAIL_CONFIRMATION"
    <2> DEFINE swept == ExpireByClock(c, t)
               gone == HoldsToRelease(swept, t, 0, "staff")
    <2>1. GoodRows(swept) /\ swept.reg[p].status = "PENDING_EMAIL_CONFIRMATION"
      <3>1. GoodRows(swept)
        BY <1>1, ExpireByClockGood
      <3>2. ~OfferLapsed(c, p, t)
        BY <1>1 DEF OfferLapsed
      <3>3. swept.reg[p] = IF ReservationLapsed(c, p, t) THEN [c.reg[p] EXCEPT !.hold = None]
                           ELSE c.reg[p]
        BY <1>1, <3>2 DEF ExpireByClock, GoodRows, Database
      <3>4. c.reg[p] \in Registration
        BY <1>1, RowsAre
      <3> QED BY <1>1, <3>1, <3>3, <3>4 DEF Registration
    <2>2. gone \subseteq WithStatus(swept, {"PENDING_DECLARATION"})
      BY DEF HoldsToRelease, LapsedHolds, FirstOf
    <2>3. p \notin gone
      BY <2>1, <2>2 DEF WithStatus
    <2> HIDE DEF gone
    <2>4. ReleaseHolds(swept, gone).reg[p] = swept.reg[p]
      BY <2>1, <2>3 DEF ReleaseHolds, GoodRows, Database
    <2>5. AfterDeadlineRelease(ReleaseHolds(swept, gone)).reg[p] = swept.reg[p]
      BY <2>1, <2>4, ReleaseHoldsGood DEF AfterDeadlineRelease, GoodRows, Database
    <2> QED BY <2>1, <2>4, <2>5 DEF Expired, ExpireStaleHolds, ReleaseWanted, gone
  <1>2. ASSUME NEW c, GoodRows(c), c.reg[p].status = "PENDING_EMAIL_CONFIRMATION"
        PROVE  FillAvailableSpots(c, t).reg[p].status = "PENDING_EMAIL_CONFIRMATION"
    <2> DEFINE e == Expired(c, t)
               until == WaitlistOfferExpiry(t, CloseAt)
               chosen == NextInLine(e, t)
               offered == Offered(e, chosen, until)
    <2>1. GoodRows(e) /\ e.reg[p].status = "PENDING_EMAIL_CONFIRMATION"
      BY <1>1, <1>2, ExpiredGood
    <2>2. p \notin chosen
      BY <2>1, NextInLineWaits DEF Waiting, WithStatus
    <2>3. FillAvailableSpots(c, t) \in {c, e, Queued(offered, chosen, "offer", t)}
      BY DEF FillAvailableSpots, OfferPlaces, OfferTo
    <2>4. until \in Deadline
      BY HoldsEndByTheStart, DeadlineRange
    <2> HIDE DEF e, until, chosen
    <2>5. GoodRows(offered) /\ offered.reg[p] = e.reg[p]
      <3>1. GoodRows(offered)
        BY <2>1, <2>4, OfferedGood
      <3>2. offered.reg = [q \in Person |->
                IF q \in chosen THEN Moved(e.reg[q], "WAITLIST_OFFERED", until) ELSE e.reg[q]]
        BY <2>1 DEF Offered, GoodRows, Database
      <3> QED BY <2>2, <3>1, <3>2
    <2> HIDE DEF offered
    <2>6. Queued(offered, chosen, "offer", t).reg = offered.reg
      BY <2>5 DEF Queued, GoodRows, Database
    <2> QED BY <1>2, <2>1, <2>3, <2>5, <2>6
  <1> QED BY <1>1, <1>2, ExpiredGood DEF Served

LEMMA ReservedGood ==
    ASSUME NEW d, GoodRows(d), NEW p \in Person, NEW t \in Time, NEW until \in Deadline,
           d.reg[p].status = "PENDING_EMAIL_CONFIRMATION"
    PROVE  GoodRows(Reserved(d, p, t, until))
  BY ServedGood, UnconfirmedStays, NewHold DEF Reserved, Active

LEMMA FamilyPlaceHeldGood ==
    ASSUME NEW d, GoodRows(d), NEW p \in Person, NEW t \in Time, NEW until \in Deadline
    PROVE  GoodRows(FamilyPlaceHeld(d, p, t, until))
  <1> DEFINE cleared == [d EXCEPT !.fam[p] = IF Past(@, t) THEN None ELSE @]
  <1>1. GoodRows(cleared)
    BY NewFamilyPlace DEF GoodRows, Database
  <1>2. GoodRows(Served(cleared, t))
    BY <1>1, ServedGood
  <1>3. GoodRows([Served(cleared, t) EXCEPT !.fam[p] = until])
    BY <1>2, NewFamilyPlace
  <1> QED BY <1>2, <1>3 DEF FamilyPlaceHeld

LEMMA SupplementaryPlaceGood ==
    ASSUME NEW d, GoodRows(d), NEW t \in Time
    PROVE  \A e \in SupplementaryPlace(d, t) : GoodRows(e)
  <1>1. d.ev.capacity # None => [d.ev EXCEPT !.capacity = @ + 1] \in StoredEvent
    BY DEF GoodRows, Database, StoredEvent
  <1>2. d.ev.capacity # None => GoodRows([d EXCEPT !.ev.capacity = @ + 1])
    BY <1>1, NewSettings
  <1> QED BY <1>2 DEF SupplementaryPlace, HasRoom

-----------------------------------------------------------------------------
(***************************************************************************)
(* The actions.  Most commit one of a set of databases and send nothing.   *)
(***************************************************************************)
LEMMA Committed ==
    ASSUME TypeOK, NEW dbs, \A d \in dbs : GoodRows(d), Commit(dbs),
           \/ UNCHANGED entering
           \/ \E p \in Person, channel \in Channel : PastTheCheck(p, channel)
    PROVE  TypeOK'
  BY DEF TypeOK, Commit, PastTheCheck

LEMMA EntryGood ==
    ASSUME TypeOK, NEW p \in Person,
           \/ PassWaitlistCheck(p, "public")
           \/ PassWaitlistCheck(p, "staff")
           \/ Submit(p)
           \/ SubmitByStaff(p)
           \/ SubmitVouched(p)
           \/ ConfirmFamilyEntry(p)
           \/ \E until \in SittingDeadlines(now) : SubmitInSitting(p, until)
           \/ \E until \in SittingDeadlines(now) : HoldFamilyPlace(p, until)
    PROVE  TypeOK'
  <1>1. GoodRows(db) /\ now \in Time /\ "public" \in Channel /\ "staff" \in Channel
    BY DEF TypeOK, Channel
  <1>2. \A until \in SittingDeadlines(now) : until \in Deadline
    <2>1. \A opened \in 0..now : opened \in Nat
      BY <1>1, DeadlineRange
    <2> QED BY <2>1, HoldsEndByTheStart, DeadlineRange DEF SittingDeadlines
  <1>3. \A staff \in BOOLEAN : GoodRows(WithForm(db, p, now, staff))
    BY <1>1, WithFormGood
  <1>4. GoodRows([db EXCEPT !.reg[p].outside = FALSE])
    BY <1>1, NewOutside
  <1>5. CASE PassWaitlistCheck(p, "public") \/ PassWaitlistCheck(p, "staff")
    BY <1>1, <1>5 DEF PassWaitlistCheck, TypeOK
  <1>6. CASE Submit(p)
    BY <1>1, <1>6, Ways, EnteredGood, Committed DEF Submit
  <1>7. CASE SubmitByStaff(p)
    BY <1>1, <1>7, Ways, EnteredGood, Committed DEF SubmitByStaff
  <1>8. CASE SubmitVouched(p)
    BY <1>1, <1>3, <1>4, <1>8, Ways, AllocatedWithEmailGood, Committed DEF SubmitVouched
  <1>9. CASE ConfirmFamilyEntry(p)
    <2> DEFINE row == IF p \in db.verified THEN [db EXCEPT !.reg[p].outside = FALSE]
                      ELSE WithForm(db, p, now, FALSE)
               freed == [row EXCEPT !.fam[p] = None]
               proved == [row EXCEPT !.fam[p] = None, !.verified = @ \cup {p}]
    <2>1. GoodRows(row)
      BY <1>3, <1>4
    <2> HIDE DEF row
    <2>2. GoodRows(freed)
      BY <2>1, NewFamilyPlace
    <2>3. freed.verified \cup {p} \in SUBSET Person
      BY <2>2 DEF GoodRows, Database
    <2>4. GoodRows([freed EXCEPT !.verified = freed.verified \cup {p}])
      BY <2>2, <2>3, NewVerified
    <2>5. proved = [freed EXCEPT !.verified = freed.verified \cup {p}]
      BY <2>1 DEF GoodRows, Database
    <2>6. \A d \in AllocatedWithEmail(proved, p, now, Entry("public")) : GoodRows(d)
      BY <1>1, <2>4, <2>5, Ways, AllocatedWithEmailGood
    <2> QED BY <1>1, <1>9, <2>6, Committed DEF ConfirmFamilyEntry, row, proved
  <1>10. CASE \E until \in SittingDeadlines(now) : SubmitInSitting(p, until)
    <2> DEFINE row == WithForm(db, p, now, FALSE)
    <2>1. row.reg[p].status = "PENDING_EMAIL_CONFIRMATION"
      BY <1>1 DEF WithForm, Absent, GoodRows, Database
    <2>2. \A until \in SittingDeadlines(now) : GoodRows(Reserved(row, p, now, until))
      BY <1>1, <1>2, <1>3, <2>1, ReservedGood
    <2> QED BY <1>1, <1>10, <2>2, Committed DEF SubmitInSitting
  <1>11. CASE \E until \in SittingDeadlines(now) : HoldFamilyPlace(p, until)
    BY <1>1, <1>2, <1>11, FamilyPlaceHeldGood, Committed DEF HoldFamilyPlace
  <1> QED BY <1>5, <1>6, <1>7, <1>8, <1>9, <1>10, <1>11

LEMMA ConfirmationGood ==
    ASSUME TypeOK, NEW p \in Person,
           ConfirmEmail(p) \/ SignDeclaration(p) \/ ConfirmByStaff(p) \/ Unregister(p)
    PROVE  TypeOK'
  <1>1. GoodRows(db) /\ now \in Time
    BY DEF TypeOK
  <1>2. CASE ConfirmEmail(p)
    <2>1. GoodRows([db EXCEPT !.reg[p] = Moved(@, "EXPIRED", None)])
      BY <1>1, MovedGood DEF Settled
    <2>2. GoodRows([db EXCEPT !.verified = @ \cup {p}])
      <3>1. db.verified \cup {p} \in SUBSET Person
        BY <1>1 DEF GoodRows, Database
      <3> QED BY <1>1, <3>1, NewVerified
    <2>3. Entry("staff") \in Way /\ Entry("public") \in Way
      BY Ways DEF Channel
    <2> QED BY <1>1, <1>2, <2>1, <2>2, <2>3, AllocatedWithEmailGood, Committed DEF ConfirmEmail
  <1>3. CASE SignDeclaration(p)
    <2> DEFINE first == IF ReleaseDue(db, now) THEN Expired(db, now) ELSE db
               swept == Expired(first, now)
               placed == IF swept.reg[p].status = "EXPIRED"
                         THEN Allocated(swept, p, now, Entry("staff")) ELSE {swept}
               signed(d) == IF d.reg[p].status = "WAITLISTED" THEN d
                            ELSE FillAvailableSpots(Confirmed(d, p), now)
    <2>1. GoodRows(first)
      BY <1>1, ExpiredGood
    <2> HIDE DEF first
    <2>2. GoodRows(swept)
      BY <1>1, <2>1, ExpiredGood
    <2>3. \A d \in placed : GoodRows(d)
      <3> HIDE DEF swept
      <3>1. Entry("staff") \in Way
        BY Ways DEF Channel
      <3> QED BY <1>1, <2>2, <3>1, AllocatedGood
    <2> HIDE DEF placed
    <2>4. \A d \in placed : GoodRows(signed(d))
      BY <1>1, <2>3, ConfirmedGood, FillAvailableSpotsGood
    <2> HIDE DEF signed
    <2>5. \A e \in {signed(d) : d \in {c \in placed : c.reg[p].status # "EXPIRED"}} : GoodRows(e)
      BY <2>4
    <2>6. Commit({first})
          \/ Commit({signed(d) : d \in {c \in placed : c.reg[p].status # "EXPIRED"}})
      BY <1>3 DEF SignDeclaration, first, swept, placed, signed
    <2>7. UNCHANGED entering
      BY <1>3 DEF SignDeclaration
    <2> QED BY <2>1, <2>5, <2>6, <2>7, Committed
  <1>4. CASE ConfirmByStaff(p)
    <2> DEFINE r == db.reg[p]
               placed == IF r.status = "PENDING_EMAIL_CONFIRMATION" \/ LateSigner(r)
                         THEN Allocated(db, p, now, Entry("staff")) ELSE {db}
               accepted == {IF d.reg[p].status = "WAITLISTED" THEN d ELSE Confirmed(d, p) :
                               d \in {e \in placed : e.reg[p].status # "EXPIRED"}}
    <2>1. \A d \in placed : GoodRows(d)
      <3>1. Entry("staff") \in Way
        BY Ways DEF Channel
      <3> QED BY <1>1, <3>1, AllocatedGood
    <2> HIDE DEF placed
    <2>2. \A d \in accepted : GoodRows(d)
      BY <2>1, ConfirmedGood
    <2>3. Commit(accepted) /\ UNCHANGED entering
      BY <1>4 DEF ConfirmByStaff, placed
    <2> HIDE DEF accepted
    <2> QED BY <2>2, <2>3, Committed
  <1>5. CASE Unregister(p)
    <2>1. GoodRows([db EXCEPT !.reg[p] = Moved(@, "CANCELLED", None)])
      BY <1>1, MovedGood DEF Settled
    <2> QED BY <1>1, <1>5, <2>1, FillAvailableSpotsGood, Committed DEF Unregister
  <1> QED BY <1>2, <1>3, <1>4, <1>5

LEMMA StaffGood ==
    ASSUME TypeOK, NEW p \in Person,
           \/ Promote(p) \/ OfferPlaceTo(p) \/ GivePlaceNow(p)
           \/ \E outside \in BOOLEAN : SetOutside(p, outside)
    PROVE  TypeOK'
  <1>1. GoodRows(db) /\ now \in Time
    BY DEF TypeOK
  <1>2. CASE Promote(p)
    BY <1>1, <1>2, ExpiredGood, ConfirmedGood, FillAvailableSpotsGood, Committed DEF Promote
  <1>3. CASE OfferPlaceTo(p)
    <2> DEFINE e == Expired(db, now)
               until == WaitlistOfferExpiry(now, StartAt)
               offered(d) == FillAvailableSpots(
                   Queued(Offered(d, {p}, until), {p}, "offerUntilStart", now), now)
    <2>1. \A d \in SupplementaryPlace(e, now) : GoodRows(d)
      BY <1>1, ExpiredGood, SupplementaryPlaceGood
    <2>2. until \in Deadline
      BY <1>1, HoldsEndByTheStart, DeadlineRange
    <2> HIDE DEF until
    <2>3. \A d \in SupplementaryPlace(e, now) : GoodRows(offered(d))
      BY <1>1, <2>1, <2>2, OfferedGood, QueuedGood, FillAvailableSpotsGood DEF MailKind
    <2>4. UNCHANGED entering /\ Commit({offered(d) : d \in SupplementaryPlace(e, now)})
      BY <1>3 DEF OfferPlaceTo, until
    <2> HIDE DEF offered
    <2>5. \A d \in {offered(c) : c \in SupplementaryPlace(e, now)} : GoodRows(d)
      BY <2>3
    <2> QED BY <2>4, <2>5, Committed
  <1>4. CASE GivePlaceNow(p)
    <2> DEFINE swept == Expired([db EXCEPT !.fam[p] = None], now)
               adopts == LiveInvitation(swept, p, now)
               mine == [swept EXCEPT !.reg[p].outside = @ \/ (adopts /\ swept.inv[p].outside)]
               wanted == IF HasRoom(mine.ev, Occupied(mine, now)) \/ LapsedHolds(mine, now) = {}
                         THEN mine ELSE ExpireStaleHolds(mine, now, 1, "staff")
               held(d) == [d EXCEPT !.inv[p] = IF adopts THEN None ELSE @]
               placed(d) == Queued(WithPlace(held(d), p, VouchedPlaceExpiry(now)),
                                   {p}, "declaration", now)
    <2>1. GoodRows(swept)
      BY <1>1, NewFamilyPlace, ExpiredGood
    <2>2. GoodRows(mine)
      <3>1. swept.reg[p].outside \/ (adopts /\ swept.inv[p].outside) \in BOOLEAN
        OBVIOUS
      <3> HIDE DEF swept, adopts
      <3> QED BY <2>1, <3>1, NewOutside
    <2> HIDE DEF mine
    <2>3. GoodRows(wanted)
      BY <1>1, <2>2, ExpireStaleHoldsGood
    <2> HIDE DEF wanted, adopts
    <2>4. ASSUME NEW d, GoodRows(d) PROVE GoodRows(FillAvailableSpots(placed(d), now))
      <3>1. GoodRows(held(d))
        BY <2>4, NewInvitation DEF GoodRows, Database
      <3>2. VouchedPlaceExpiry(now) \in Deadline
        BY <1>1, HoldsEndByTheStart, DeadlineRange
      <3> HIDE DEF held
      <3>3. GoodRows(placed(d))
        BY <1>1, <3>1, <3>2, WithPlaceGood, QueuedGood DEF MailKind
      <3> HIDE DEF placed
      <3> QED BY <1>1, <3>3, FillAvailableSpotsGood
    <2>5. UNCHANGED entering
          /\ \/ Commit({FillAvailableSpots(placed(d), now) : d \in {mine}})
             \/ Commit({FillAvailableSpots(placed(d), now) : d \in SupplementaryPlace(wanted, now)})
      BY <1>4 DEF GivePlaceNow, adopts, mine, wanted
    <2> HIDE DEF placed
    <2>6. \A d \in SupplementaryPlace(wanted, now) : GoodRows(d)
      BY <1>1, <2>3, SupplementaryPlaceGood
    <2> QED BY <2>2, <2>4, <2>5, <2>6, Committed
  <1>5. CASE \E outside \in BOOLEAN : SetOutside(p, outside)
    <2>1. PICK outside \in BOOLEAN : SetOutside(p, outside)
      BY <1>5
    <2> DEFINE e == Served(db, now)
               r == e.reg[p]
               flagged == [e EXCEPT !.reg[p].outside = outside]
               filled == IF outside THEN FillAvailableSpots(flagged, now) ELSE flagged
               withoutOffer(d) ==
                   IF r.status # "WAITLIST_OFFERED" THEN d
                   ELSE [d EXCEPT !.mail = {m \in @ : \/ m.to # p \/ m.kind = "declaration"
                                                      \/ InFlight(m)}]
               seated == IF outside /\ r.status \in {"WAITLISTED", "WAITLIST_OFFERED"}
                         THEN {AllocationEmail(withoutOffer(d), p, now) :
                                  d \in Allocated(filled, p, now, Entry("staff"))}
                         ELSE {filled}
    <2>2. GoodRows(e)
      BY <1>1, ServedGood
    <2> HIDE DEF e
    <2>3. GoodRows(filled)
      <3>1. GoodRows(flagged)
        BY <2>2, NewOutside
      <3> QED BY <1>1, <3>1, FillAvailableSpotsGood
    <2> HIDE DEF filled
    <2>4. ASSUME NEW d, GoodRows(d) PROVE GoodRows(withoutOffer(d))
      <3>1. \A c \in {m \in d.mail : \/ m.to # p \/ m.kind = "declaration" \/ InFlight(m)} : c \in Mail
        BY <2>4 DEF GoodRows, Database
      <3> QED BY <2>4, <3>1, NewMail
    <2> HIDE DEF withoutOffer
    <2>5. \A d \in Allocated(filled, p, now, Entry("staff")) : GoodRows(d)
      <3>1. Entry("staff") \in Way
        BY Ways DEF Channel
      <3> QED BY <1>1, <2>3, <3>1, AllocatedGood
    <2>6. \A d \in seated : GoodRows(d)
      BY <1>1, <2>3, <2>4, <2>5, AllocationEmailGood
    <2>7. UNCHANGED entering /\ (Commit({e}) \/ Commit(seated))
      BY <2>1 DEF SetOutside, e, filled, withoutOffer
    <2> HIDE DEF seated
    <2> QED BY <2>2, <2>6, <2>7, Committed
  <1> QED BY <1>2, <1>3, <1>4, <1>5

LEMMA InvitationGood ==
    ASSUME TypeOK, NEW p \in Person,
           \/ \E outside \in BOOLEAN : Invite(p, outside)
           \/ AcceptInvitation(p) \/ ResendInvitation(p) \/ WithdrawInvitation(p)
    PROVE  TypeOK'
  <1>1. GoodRows(db) /\ now \in Time
    BY DEF TypeOK
  <1>2. InvitationDeadline(now) \in Deadline
    BY <1>1, HoldsEndByTheStart, DeadlineRange
  <1>3. CASE \E outside \in BOOLEAN : Invite(p, outside)
    <2>1. PICK outside \in BOOLEAN : Invite(p, outside)
      BY <1>3
    <2> DEFINE e == FillAvailableSpots(db, now)
               more == [e EXCEPT !.ev.capacity = @ + 1]
               i == [until |-> InvitationDeadline(now), outside |-> outside]
    <2>2. GoodRows(e)
      BY <1>1, FillAvailableSpotsGood
    <2>3. i \in Invitation
      BY <1>2, <2>1 DEF Invitation
    <2> HIDE DEF e
    <2>4. e.ev.capacity # None => GoodRows(more)
      <3>1. e.ev.capacity # None => [e.ev EXCEPT !.capacity = @ + 1] \in StoredEvent
        BY <2>2 DEF GoodRows, Database, StoredEvent
      <3> QED BY <2>2, <3>1, NewSettings
    <2>5. PICK raised : /\ raised = {e} \/ raised = {} \/ (e.ev.capacity # None /\ raised = {more})
                        /\ UNCHANGED entering
                        /\ Commit({[d EXCEPT !.inv[p] = i] : d \in raised})
      BY <2>1 DEF Invite, e
    <2>6. \A d \in raised : GoodRows(d)
      BY <2>2, <2>4, <2>5
    <2> HIDE DEF i, more
    <2>7. \A d \in {[c EXCEPT !.inv[p] = i] : c \in raised} : GoodRows(d)
      BY <2>3, <2>6, NewInvitation
    <2> QED BY <2>5, <2>7, Committed
  <1>4. CASE AcceptInvitation(p)
    <2> DEFINE row == WithForm(db, p, now, FALSE)
               kind == [row EXCEPT !.reg[p].outside = db.inv[p].outside]
               proved == [row EXCEPT !.reg[p].outside = db.inv[p].outside, !.verified = @ \cup {p}]
    <2>1. GoodRows(kind)
      BY <1>1, <1>4, WithFormGood, OutsideIsBoolean, NewOutside DEF AcceptInvitation, LiveInvitation
    <2>2. GoodRows(row)
      BY <1>1, WithFormGood
    <2> HIDE DEF row
    <2>3. GoodRows(proved)
      <3>1. kind.verified \cup {p} \in SUBSET Person
        BY <2>1 DEF GoodRows, Database
      <3>2. proved = [kind EXCEPT !.verified = kind.verified \cup {p}]
        BY <2>2 DEF GoodRows, Database
      <3> HIDE DEF kind, proved
      <3> QED BY <2>1, <3>1, <3>2, NewVerified
    <2> HIDE DEF proved
    <2>4. \A d \in AllocatedWithEmail(proved, p, now, InvitedEntry) : GoodRows([d EXCEPT !.inv[p] = None])
      BY <1>1, <2>3, Ways, AllocatedWithEmailGood, NewInvitation
    <2>5. UNCHANGED entering
          /\ Commit({[d EXCEPT !.inv[p] = None] :
                        d \in AllocatedWithEmail(proved, p, now, InvitedEntry)})
      BY <1>4 DEF AcceptInvitation, proved, row
    <2> QED BY <2>4, <2>5, Committed
  <1>5. CASE ResendInvitation(p)
    <2> DEFINE e == Expired(db, now)
               later == [e.inv[p] EXCEPT !.until = InvitationDeadline(now)]
    <2>1. GoodRows(e) /\ e.inv[p] # None
      BY <1>1, <1>5, ExpiredGood DEF ResendInvitation, LiveInvitation
    <2>2. later \in Invitation
      BY <1>2, <2>1 DEF GoodRows, Database, Invitation
    <2>3. GoodRows([e EXCEPT !.inv[p] = later])
      BY <2>1, <2>2, NewInvitation
    <2>4. UNCHANGED entering /\ (Commit({e}) \/ Commit({[e EXCEPT !.inv[p] = later]}))
      BY <1>5 DEF ResendInvitation
    <2> HIDE DEF e, later
    <2> QED BY <2>1, <2>3, <2>4, Committed
  <1>6. CASE WithdrawInvitation(p)
    BY <1>1, <1>6, ExpiredGood, NewInvitation, FillAvailableSpotsGood, Committed
       DEF WithdrawInvitation
  <1> QED BY <1>3, <1>4, <1>5, <1>6

LEMMA SweepGood ==
    ASSUME TypeOK,
           ExpireEmailLinks \/ SweepLapsedInvitations \/ Maintenance
           \/ \E form \in EventForms : EditEvent(form)
    PROVE  TypeOK'
  <1>1. GoodRows(db) /\ now \in Time
    BY DEF TypeOK
  <1>2. CASE ExpireEmailLinks
    <2> DEFINE rows == [p \in Person |->
                   IF p \in StaleLinks(db, now) THEN Moved(db.reg[p], "EXPIRED", None)
                   ELSE db.reg[p]]
    <2>1. ASSUME NEW p \in Person PROVE rows[p] \in Registration /\ WellFormed(rows[p])
      BY <1>1, RowsAre, MovedRow DEF Settled
    <2>2. rows \in [Person -> Registration] /\ \A p \in Person : WellFormed(rows[p])
      BY <2>1
    <2>3. UNCHANGED entering /\ Commit({[db EXCEPT !.reg = rows]})
      BY <1>2 DEF ExpireEmailLinks
    <2> HIDE DEF rows
    <2>4. GoodRows([db EXCEPT !.reg = rows])
      BY <1>1, <2>2, NewRows
    <2> QED BY <2>3, <2>4, Committed
  <1>3. CASE SweepLapsedInvitations
    BY <1>1, <1>3, FillAvailableSpotsGood, Committed DEF SweepLapsedInvitations
  <1>4. CASE Maintenance
    <2> DEFINE rows == [p \in Person |->
                   IF db.reg[p].status = "WAITLISTED" THEN Moved(db.reg[p], "EXPIRED", None)
                   ELSE db.reg[p]]
    <2>1. ASSUME NEW p \in Person PROVE rows[p] \in Registration /\ WellFormed(rows[p])
      BY <1>1, RowsAre, MovedRow DEF Settled
    <2>2. rows \in [Person -> Registration] /\ \A p \in Person : WellFormed(rows[p])
      BY <2>1
    <2>3. WaitlistClosed(db) = [db EXCEPT !.reg = rows]
      BY DEF WaitlistClosed
    <2> HIDE DEF rows
    <2>4. GoodRows(WaitlistClosed(db))
      BY <1>1, <2>2, <2>3, NewRows
    <2> QED BY <1>1, <1>4, <2>4, FillAvailableSpotsGood, Committed DEF Maintenance
  <1>5. CASE \E form \in EventForms : EditEvent(form)
    <2>1. PICK form \in EventForms : EditEvent(form)
      BY <1>5
    <2> DEFINE saved == [db EXCEPT !.ev = Stored(form, db.ev.released)]
    <2>2. Stored(form, db.ev.released) \in StoredEvent
      <3>1. form \in EventForm
        BY EventAssumption
      <3>2. db.ev.released \in BOOLEAN
        BY <1>1 DEF GoodRows, Database, StoredEvent
      <3> QED BY <3>1, <3>2 DEF Stored, EventForm, StoredEvent
    <2>3. GoodRows(saved)
      BY <1>1, <2>2, NewSettings
    <2>4. UNCHANGED entering /\ (Commit({saved}) \/ Commit({FillAvailableSpots(saved, now)}))
      BY <2>1 DEF EditEvent
    <2> HIDE DEF saved
    <2> QED BY <1>1, <2>3, <2>4, FillAvailableSpotsGood, Committed
  <1> QED BY <1>2, <1>3, <1>4, <1>5

-----------------------------------------------------------------------------
(***************************************************************************)
(* The emails.                                                             *)
(***************************************************************************)
\* A move is planned within the start, and later than the stored deadline.
LEMMA PlannedRange ==
    ASSUME NEW d, GoodRows(d), NEW m \in Mail, NEW t \in Time
    PROVE  PlannedDeadline(d, m, t) \in Deadline \cup {None}
  <1> DEFINE stored == d.reg[m.to].hold
             next == CapHoldExpiry(stored + (t - m.at), CloseOfKind(m.kind))
  <1>1. /\ d.reg[m.to] \in Registration /\ m.at \in Nat /\ t \in Nat
        /\ CloseOfKind(m.kind) \in 0..StartAt
    BY RowsAre, DeadlineRange DEF Mail, CloseOfKind
  <1>2. PlannedDeadline(d, m, t) # None
        => /\ stored \in Nat /\ t > m.at /\ PlannedDeadline(d, m, t) = next
    BY <1>1, DeadlineRange DEF PlannedDeadline, RebasedDeadline, Registration
  <1>3. stored \in Nat /\ t > m.at => next \in 0..StartAt
    <2>1. stored \in Nat /\ t > m.at => stored + (t - m.at) \in Nat
      BY <1>1
    <2> QED BY <1>1, <2>1, HoldsEndByTheStart
  <1> QED BY <1>2, <1>3, DeadlineRange

LEMMA RebasedGood ==
    ASSUME NEW d, GoodRows(d), NEW s \in Delivery
    PROVE  GoodRows(Rebased(d, s))
  <1>1. s.to # None => s.to \in Deadline
    BY DEF Delivery
  <1>2. s.mail.to \in Person /\ StatusOfKind(s.mail.kind) \in Active \ {"CONFIRMED", "WAITLISTED"}
    BY DEF Delivery, Mail, StatusOfKind, Active
  <1> QED BY <1>1, <1>2, NewHold DEF Rebased

LEMMA UnqueuedGood ==
    ASSUME NEW d, GoodRows(d), NEW m
    PROVE  GoodRows(Unqueued(d, m))
  <1>1. d.mail \ {m} \in SUBSET Mail
    BY DEF GoodRows, Database
  <1> QED BY <1>1, NewMail DEF Unqueued

LEMMA SendingGood ==
    ASSUME TypeOK,
           \/ \E m \in db.mail : PlanSend(m)
           \/ OfferAccepted \/ DeclarationAccepted \/ ApplyRebase \/ SendGivesUp \/ WorkerStops
    PROVE  TypeOK'
  <1>1. /\ GoodRows(db) /\ now \in Time /\ entering \subseteq (Person \X Channel)
        /\ sending # None => sending \in Delivery
    BY DEF TypeOK
  <1>2. CASE \E m \in db.mail : PlanSend(m)
    <2>1. PICK m \in db.mail : PlanSend(m)
      BY <1>2
    <2>2. m \in Mail /\ m.to \in Person
      BY <1>1 DEF GoodRows, Database, Mail
    <2>3. db.reg[m.to].hold \in Deadline \cup {None}
      BY <1>1, <2>2, RowsAre DEF Registration
    <2>4. PlannedDeadline(db, m, now) \in Deadline \cup {None}
      BY <1>1, <2>2, PlannedRange
    <2>5. sending' \in Delivery
      BY <2>1, <2>2, <2>3, <2>4 DEF PlanSend, Delivery
    <2> QED BY <1>1, <2>1, <2>5 DEF PlanSend, TypeOK
  <1>3. CASE OfferAccepted
    <2>1. GoodRows(Unqueued(db, sending.mail))
          /\ GoodRows(Rebased(Unqueued(db, sending.mail), sending))
      BY <1>1, <1>3, UnqueuedGood, RebasedGood DEF OfferAccepted
    <2> QED BY <1>1, <1>3, <2>1 DEF OfferAccepted, TypeOK
  <1>4. CASE DeclarationAccepted
    <2>1. GoodRows(Unqueued(db, sending.mail))
      BY <1>1, UnqueuedGood
    <2>2. [sending EXCEPT !.sent = TRUE] \in Delivery
      BY <1>1, <1>4 DEF DeclarationAccepted, Delivery
    <2> QED BY <1>1, <1>4, <2>1, <2>2 DEF DeclarationAccepted, TypeOK
  <1>5. CASE ApplyRebase
    BY <1>1, <1>5, RebasedGood DEF ApplyRebase, TypeOK
  <1>6. CASE SendGivesUp
    BY <1>1, <1>6, UnqueuedGood DEF SendGivesUp, TypeOK
  <1>7. CASE WorkerStops
    BY <1>1, <1>7 DEF WorkerStops, TypeOK
  <1> QED BY <1>2, <1>3, <1>4, <1>5, <1>6, <1>7

-----------------------------------------------------------------------------
\* Whatever order the transactions, the sends and the clock come in, and however many people
\* there are, every row is well formed: a hold where a place is held, none where it is not.
THEOREM TypeCorrect == Spec => []TypeOK
  <1>1. Init => TypeOK
    <2>1. Absent \in Registration /\ WellFormed(Absent)
      BY DEF Absent, Registration, WellFormed, Status
    <2>2. Stored(FirstEvent, FALSE) \in StoredEvent
      BY EventAssumption DEF Stored, EventForm, StoredEvent
    <2>3. 0 \in Time
      BY BoundsAssumption DEF Time
    <2> SUFFICES ASSUME Init PROVE TypeOK
      OBVIOUS
    <2>4. db \in Database
      BY <2>1, <2>2 DEF Init, Database
    <2>5. \A p \in Person : WellFormed(db.reg[p])
      BY <2>1 DEF Init
    <2> QED BY <2>3, <2>4, <2>5 DEF Init, TypeOK, GoodRows
  <1>2. TypeOK /\ [Next]_vars => TypeOK'
    <2> SUFFICES ASSUME TypeOK, [Next]_vars PROVE TypeOK'
      OBVIOUS
    <2>1. Relative \subseteq Person /\ Invitee \subseteq Person /\ Desk \subseteq Person
      BY PersonAssumption
    <2>2. CASE UNCHANGED vars
      BY <2>2 DEF vars, TypeOK
    <2>3. CASE Tick
      BY <2>3, BoundsAssumption DEF Tick, TypeOK, Time
    <2>4. CASE Next /\ ~Tick
      BY <2>1, <2>4, EntryGood, ConfirmationGood, StaffGood, InvitationGood, SweepGood,
         SendingGood DEF Next
    <2> QED BY <2>2, <2>3, <2>4
  <1> QED BY <1>1, <1>2, PTL DEF Spec

=============================================================================
