----------------------------- MODULE PlaceRules -----------------------------
(***************************************************************************)
(* The pure rules of src/modules/registrations/domain: who holds a place,  *)
(* how many are free for whom, and when a hold ends.  Nothing here has a   *)
(* state; Allocation builds its transactions out of these operators.       *)
(*                                                                         *)
(* An event's places are a record, the columns of `events` the allocator   *)
(* reads under its lock:                                                   *)
(*   status     "SCHEDULED", "CANCELLED" or "COMPLETED"                    *)
(*   capacity   a number, or None: uncapped                                *)
(*   kept       places_kept_for_club                                       *)
(*   auto       waitlist_auto_offer                                        *)
(*   offerOnly  free_places_by_offer_only                                  *)
(*   waitCap    waitlist_capacity, or None: a line without a limit         *)
(***************************************************************************)
EXTENDS Integers, FiniteSets

CONSTANTS
    None,              \* a NULL column
    StartAt,           \* events.starts_at
    CloseAt,           \* events.registration_closes_at, the start when NULL
    WindowOpens,       \* the participation window opens, or None: no window
    WindowDeadline,    \* ... and the last moment to sign in it
    ReleaseUnsigned,   \* events.release_unsigned_at_deadline
    HoldTime,          \* Deadlines.holdMinutes
    OfferTime          \* Deadlines.offerHours

ASSUME NoneAssumption == None \notin Int

ASSUME DatesAssumption ==
    /\ StartAt \in Nat
    /\ CloseAt \in 0..StartAt
    /\ WindowOpens \in Nat \cup {None}
    /\ WindowDeadline \in Nat \cup {None}
    /\ WindowOpens = None <=> WindowDeadline = None
    /\ WindowOpens # None => WindowOpens < WindowDeadline /\ WindowDeadline <= StartAt
    /\ ReleaseUnsigned \in BOOLEAN

\* The club cannot set an hour to sign below ten minutes (DEADLINE_RULES, deadlines.ts).
ASSUME DeadlinesAssumption == HoldTime \in Nat \ {0} /\ OfferTime \in Nat

Least(a, b) == IF a <= b THEN a ELSE b
Greatest(a, b) == IF a >= b THEN a ELSE b

(***************************************************************************)
(* Statuses (domain/state-machine.ts).  "ABSENT" is a person with no row.  *)
(***************************************************************************)
Active == {"PENDING_EMAIL_CONFIRMATION", "PENDING_DECLARATION", "WAITLISTED",
           "WAITLIST_OFFERED", "CONFIRMED"}
Terminal == {"CANCELLED", "EXPIRED"}
Status == Active \cup Terminal \cup {"ABSENT"}

Transitions ==
    {<<"PENDING_EMAIL_CONFIRMATION", to>> :
         to \in {"PENDING_DECLARATION", "WAITLISTED", "EXPIRED"}}
    \cup {<<"PENDING_DECLARATION", to>> :
         to \in {"CONFIRMED", "WAITLISTED", "CANCELLED", "EXPIRED"}}
    \cup {<<"WAITLISTED", to>> :
         to \in {"WAITLIST_OFFERED", "PENDING_DECLARATION", "CANCELLED", "EXPIRED"}}
    \cup {<<"WAITLIST_OFFERED", to>> :
         to \in {"CONFIRMED", "PENDING_DECLARATION", "CANCELLED", "EXPIRED"}}
    \cup {<<"CONFIRMED", "CANCELLED">>}
    \cup (Terminal \X {"PENDING_EMAIL_CONFIRMATION", "PENDING_DECLARATION", "WAITLISTED"})

AllowedFrom(to) == {from \in Status : <<from, to>> \in Transitions}

(***************************************************************************)
(* Places (domain/capacity.ts, domain/kept-places.ts).                     *)
(***************************************************************************)
Channel == {"public", "staff"}

KeptOf(ev) == IF ev.capacity = None THEN 0 ELSE Least(Greatest(ev.kept, 0), ev.capacity)

\* What a newcomer is measured against: the kept places are the staff's to give.
CapacityForEntry(ev, channel) ==
    IF ev.capacity = None \/ channel = "staff" THEN ev.capacity
    ELSE ev.capacity - KeptOf(ev)

\* Mutant: the kept places are offered to the line.
LineRoomIgnoringKept(ev, occupied) == ev.capacity - occupied

\* The places the line may still be offered, negative once kept ones are taken.
LineRoom(ev, occupied) == ev.capacity - KeptOf(ev) - occupied

KeptPlacesInUse(ev, occupied) == KeptOf(ev) > 0 /\ LineRoom(ev, occupied) < 0

\* Mutant: off by one, the last place counted twice.
OneTooManyAvailable(capacity, occupied, waiting) ==
    capacity # None => capacity - occupied - waiting >= 0

HasDirectAvailability(capacity, occupied, waiting) ==
    capacity # None => capacity - occupied - waiting > 0

\* Mutant: the staff's verbs take a place on a full event.
HasRoomWhenFull(ev, occupied) == ev.capacity # None => occupied <= ev.capacity

HasRoom(ev, occupied) == ev.capacity # None => occupied < ev.capacity

\* Mutants: one hold let go beyond what is wanted, and one too few.
OneTooManyReleased(lapsed, waiting, free) == Least(lapsed, Greatest(waiting + 1 - free, 0))
OneTooFewReleased(lapsed, waiting, free) == Least(lapsed, Greatest(waiting - 1 - free, 0))

WantedLapsedHoldReleases(lapsed, waiting, free) ==
    Least(lapsed, Greatest(waiting - free, 0))

(***************************************************************************)
(* The line (domain/waitlist.ts).                                          *)
(***************************************************************************)
PublicEntryQueues(ev, channel) ==
    ev.offerOnly /\ channel = "public" /\ ev.capacity # None

NewcomerJoinsLine(ev, waiting, channel) == waiting > 0 \/ PublicEntryQueues(ev, channel)

OffersOnItsOwn(ev) == ev.auto /\ ~(ev.offerOnly /\ ev.capacity # None)

\* Mutant: the limit itself counted as room.
LineTakesOneTooMany(ev, waiting, openOffers) ==
    ev.waitCap # None => ev.waitCap - (waiting + openOffers) >= 0

LineHasRoom(ev, waiting, openOffers) ==
    ev.waitCap # None => ev.waitCap - (waiting + openOffers) > 0

OccupiedForNewcomer(ev, waiting, openOffers, occupied, lapsed, keptInUse) ==
    IF LineHasRoom(ev, waiting, openOffers) \/ keptInUse THEN occupied
    ELSE occupied - lapsed

\* The places an invitation may take: what is free less what the line is owed.
InvitationFreePlaces(ev, occupied, waiting) ==
    LET lineClaim == Least(waiting, Greatest(LineRoom(ev, occupied), 0))
    IN  Greatest(ev.capacity - occupied - lineClaim, 0)

(***************************************************************************)
(* When a hold ends (domain/hold-deadlines.ts, domain/unsigned-release.ts).*)
(***************************************************************************)
CapHoldExpiry(until, close) == Least(until, Least(close, StartAt))

BeforeWindow(t) == WindowOpens # None /\ t < WindowOpens

\* Mutant: the hold's length is not added to the clock.
DeclarationHoldOverAtOnce(t, close) ==
    IF BeforeWindow(t) THEN Least(WindowDeadline, StartAt) ELSE CapHoldExpiry(t, close)

DeclarationHoldExpiry(t, close) ==
    IF BeforeWindow(t) THEN Least(WindowDeadline, StartAt)
    ELSE CapHoldExpiry(t + HoldTime, close)

WaitlistOfferExpiry(t, close) == CapHoldExpiry(t + OfferTime, close)

\* The sitting's one deadline, counted from the end of its first form's window.
FamilyReservationExpiry(from) == CapHoldExpiry(from + HoldTime, CloseAt)

\* A place the club gave to somebody it vouches for lasts to the window's deadline.
VouchedPlaceExpiry(t) ==
    IF BeforeWindow(t) THEN DeclarationHoldExpiry(t, CloseAt)
    ELSE IF WindowOpens # None /\ t < WindowDeadline THEN Least(WindowDeadline, StartAt)
    ELSE StartAt

\* The release of the unsigned places at the deadline: armed until it ran once.
DeadlineReleaseDue(ev, released, t) ==
    /\ ReleaseUnsigned /\ ev.capacity # None /\ ev.status = "SCHEDULED" /\ ~released
    /\ WindowDeadline # None /\ WindowDeadline < StartAt
    /\ WindowDeadline <= t /\ t < StartAt
=============================================================================
