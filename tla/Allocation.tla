----------------------------- MODULE Allocation -----------------------------
(***************************************************************************)
(* The allocator of one event's places: src/modules/registrations.         *)
(*                                                                         *)
(* Every operation that gives or frees a place is one database transaction *)
(* that first locks the event's row (lockEventForCapacity), so each is one *)
(* action here.  A transaction is written as the code is: operators from a *)
(* database d and a clock t to the database they leave, and where the code *)
(* may throw, to the set of databases it may commit - the empty set when   *)
(* it rolls back.                                                          *)
(*                                                                         *)
(* What runs without the event's lock has a step of its own: the form's    *)
(* early look at the line (PassWaitlistCheck), the expiry of email links,  *)
(* and the sending of an email, which reads the deadline before the send   *)
(* and moves it after (PlanSend, OfferAccepted, ApplyRebase).               *)
(*                                                                         *)
(* A column nobody reads in a status is kept NULL there.                   *)
(***************************************************************************)
EXTENDS PlaceRules

CONSTANTS
    Person,            \* people with an address each; the number is the row's id order
    Relative,          \* those a family sitting's forms may name
    Invitee,           \* those the club may invite
    Desk,              \* those the staff enter, and decide about by hand
    EventForms,        \* the settings the editor may post
    FirstEvent,        \* the settings the event is published with
    EditorMayLower,    \* bound: whether a posted capacity may be below the stored one
    EmailsQueue,       \* bound: FALSE when every email leaves the moment it is queued
    LinkTime,          \* Deadlines.confirmationHours
    InviteTime,        \* the days an invitation is sent with
    LongestClubHold,   \* LONGEST_CLUB_HOLD_MS
    MaxCapacity,       \* bound on the staff's supplementary places
    MaxTime            \* bound on the clock

Time == 0..MaxTime
Deadline == 0..(MaxTime + HoldTime + OfferTime + LinkTime + InviteTime + StartAt)

EventStatus == {"SCHEDULED", "CANCELLED", "COMPLETED"}
EventForm == [status : EventStatus, capacity : Nat \cup {None}, kept : Nat,
              auto : BOOLEAN, offerOnly : BOOLEAN, waitCap : Nat \cup {None}]

ASSUME PersonAssumption ==
    Person \subseteq Nat /\ IsFiniteSet(Person)
    /\ Relative \subseteq Person /\ Invitee \subseteq Person /\ Desk \subseteq Person

ASSUME EventAssumption == EventForms \subseteq EventForm /\ FirstEvent \in EventForm

ASSUME BoundsAssumption ==
    /\ LinkTime \in Nat /\ InviteTime \in Nat /\ LongestClubHold \in Nat
    /\ MaxCapacity \in Nat /\ MaxTime \in Nat
    /\ EditorMayLower \in BOOLEAN /\ EmailsQueue \in BOOLEAN

VARIABLES
    db,        \* the rows of this event
    now,       \* the clock
    entering,  \* entries that passed the unlocked look at the line
    sending    \* the email between its send and its write, or None

vars == <<db, now, entering, sending>>

-----------------------------------------------------------------------------
(***************************************************************************)
(* The rows.                                                               *)
(*   ev    the event's settings, and released: unsigned_released_for set   *)
(*   reg   registrations, one per person                                   *)
(*           hold   hold_expires_at       link  email_link_expires_at      *)
(*           since  waitlisted_at         staff source = 'STAFF'           *)
(*           late   expiry_reason = 'DECLARATION_HOLD_LAPSED'              *)
(*   inv   the person's open invitation, or None                           *)
(*   fam   when the family place held for the person ends, or None         *)
(*   mail  first emails still queued, with the instant they were queued    *)
(*   verified  participants.email_verified_at set                          *)
(***************************************************************************)
Registration ==
    [status : Status, hold : Deadline \cup {None}, link : Deadline \cup {None},
     since : Time \cup {None}, late : BOOLEAN, outside : BOOLEAN, staff : BOOLEAN]

Invitation == [until : Deadline, outside : BOOLEAN]

MailKind == {"declaration", "offer", "offerUntilStart"}
Mail == [to : Person, kind : MailKind, at : Time]

StoredEvent == [status : EventStatus, capacity : Nat \cup {None}, kept : Nat,
                auto : BOOLEAN, offerOnly : BOOLEAN, waitCap : Nat \cup {None},
                released : BOOLEAN]

Database ==
    [ev : StoredEvent, reg : [Person -> Registration],
     inv : [Person -> Invitation \cup {None}], fam : [Person -> Deadline \cup {None}],
     mail : SUBSET Mail, verified : SUBSET Person]

Stored(form, released) ==
    [status |-> form.status, capacity |-> form.capacity,
     kept |-> IF form.capacity = None THEN 0 ELSE form.kept, auto |-> form.auto,
     offerOnly |-> form.offerOnly, waitCap |-> form.waitCap, released |-> released]

Absent == [status |-> "ABSENT", hold |-> None, link |-> None, since |-> None,
           late |-> FALSE, outside |-> FALSE, staff |-> FALSE]

\* transitionRegistration: the status and the hold it is written with.
Moved(r, status, hold) ==
    [r EXCEPT !.status = status, !.hold = hold, !.link = None, !.since = None,
              !.late = FALSE, !.staff = FALSE]

WithStatus(d, S) == {p \in Person : d.reg[p].status \in S}

Waiting(d) == {p \in WithStatus(d, {"WAITLISTED"}) : ~d.reg[p].outside}

Past(deadline, t) == deadline # None /\ deadline <= t
Ahead(deadline, t) == deadline # None /\ deadline > t

\* Mutants: the last to join first, and everybody counted as ahead of themselves.
LastOf(S, n, key) ==
    {p \in S : Cardinality({q \in S : key[q] > key[p] \/ (key[q] = key[p] /\ q > p)}) < n}
FirstButOneOf(S, n, key) ==
    {p \in S : Cardinality({q \in S : key[q] < key[p] \/ (key[q] = key[p] /\ q <= p)}) < n}

\* ORDER BY key, id LIMIT n.
FirstOf(S, n, key) ==
    {p \in S : Cardinality({q \in S : key[q] < key[p] \/ (key[q] = key[p] /\ q < p)}) < n}

-----------------------------------------------------------------------------
(***************************************************************************)
(* Which holds still count (repository.ts).                                *)
(***************************************************************************)
EmailQueued(d, p, kinds) == \E m \in d.mail : m.to = p /\ m.kind \in kinds

AwaitingItsFirstEmail(d, p) == EmailQueued(d, p, {"declaration"})

OfferAwaitingItsFirstEmail(d, p, t) ==
    \/ t < CloseAt /\ EmailQueued(d, p, {"offer", "offerUntilStart"})
    \/ t < StartAt /\ EmailQueued(d, p, {"offerUntilStart"})

OpenOffer(d, p, t) ==
    /\ d.reg[p].status = "WAITLIST_OFFERED"
    /\ Ahead(d.reg[p].hold, t) \/ OfferAwaitingItsFirstEmail(d, p, t)

HoldsFamilyReservation(d, p, t) ==
    d.reg[p].status = "PENDING_EMAIL_CONFIRMATION" /\ Ahead(d.reg[p].hold, t)

LiveInvitation(d, p, t) == d.inv[p] # None /\ d.inv[p].until > t

\* countOccupied, kept as the set of places it counts.
Taken(d, t) ==
    {<<"registration", p>> : p \in {q \in Person :
        /\ ~d.reg[q].outside
        /\ \/ d.reg[q].status \in {"CONFIRMED", "PENDING_DECLARATION"}
           \/ OpenOffer(d, q, t)
           \/ HoldsFamilyReservation(d, q, t)}}
    \cup {<<"family", p>> : p \in {q \in Person : Ahead(d.fam[q], t)}}
    \cup {<<"invitation", p>> : p \in {q \in Person :
        LiveInvitation(d, q, t) /\ ~d.inv[q].outside}}

Occupied(d, t) == Cardinality(Taken(d, t))

OpenOffers(d, t) == Cardinality({p \in Person : ~d.reg[p].outside /\ OpenOffer(d, p, t)})

\* Mutant: a hold lapses while its first email is still queued.
LapsedHoldsUnsent(d, t) ==
    {p \in WithStatus(d, {"PENDING_DECLARATION"}) : Past(d.reg[p].hold, t) /\ ~d.reg[p].outside}

LapsedHolds(d, t) ==
    {p \in WithStatus(d, {"PENDING_DECLARATION"}) :
        /\ Past(d.reg[p].hold, t) /\ ~d.reg[p].outside
        /\ ~AwaitingItsFirstEmail(d, p)}

-----------------------------------------------------------------------------
(***************************************************************************)
(* expireStaleHolds: what lapsed and is wanted goes.                       *)
(***************************************************************************)
\* Mutant: a race that started is not over.
OverWhenCalledOff(d, t) == d.ev.status # "SCHEDULED"

Over(d, t) == d.ev.status # "SCHEDULED" \/ StartAt <= t

\* Mutant: an offer lapses while its email is still queued.
OfferLapsedUnsent(d, p, t) ==
    d.reg[p].status = "WAITLIST_OFFERED" /\ Past(d.reg[p].hold, t)

OfferLapsed(d, p, t) ==
    /\ d.reg[p].status = "WAITLIST_OFFERED" /\ Past(d.reg[p].hold, t)
    /\ Over(d, t) \/ ~OfferAwaitingItsFirstEmail(d, p, t)

\* Mutant: a sweep clears every reservation.
ReservationAlwaysLapsed(d, p, t) ==
    d.reg[p].status = "PENDING_EMAIL_CONFIRMATION" /\ d.reg[p].hold # None

ReservationLapsed(d, p, t) ==
    d.reg[p].status = "PENDING_EMAIL_CONFIRMATION" /\ Past(d.reg[p].hold, t)

\* Offers, reservations, held family places and invitations go by the clock alone.
ExpireByClock(d, t) ==
    [d EXCEPT
        !.reg = [p \in Person |->
            IF OfferLapsed(d, p, t) THEN Moved(d.reg[p], "EXPIRED", None)
            ELSE IF ReservationLapsed(d, p, t) THEN [d.reg[p] EXCEPT !.hold = None]
            ELSE d.reg[p]],
        !.fam = [p \in Person |-> IF Past(d.fam[p], t) THEN None ELSE d.fam[p]],
        !.inv = [p \in Person |->
            IF d.inv[p] # None /\ ~LiveInvitation(d, p, t) THEN None ELSE d.inv[p]]]

ReleaseDue(d, t) == DeadlineReleaseDue(d.ev, d.ev.released, t)

\* An unsigned hold past its deadline is kept until somebody wants its place.
HoldsToRelease(d, t, wanting, channel) ==
    LET lapsed == LapsedHolds(d, t)
        inLine == Cardinality(Waiting(d))
        kept == IF wanting > 0 /\ channel = "staff" THEN [d.ev EXCEPT !.kept = 0] ELSE d.ev
        occupied == Occupied(d, t)
        waiting == inLine + (IF channel = "public" /\ KeptPlacesInUse(kept, occupied)
                             THEN 0 ELSE wanting)
        free == Greatest(LineRoom(kept, occupied), 0)
        holds == [p \in Person |-> d.reg[p].hold]
    IN  CASE Over(d, t) -> {p \in WithStatus(d, {"PENDING_DECLARATION"}) : Past(d.reg[p].hold, t)}
          [] ~Over(d, t) /\ ReleaseDue(d, t) -> lapsed
          [] OTHER -> IF d.ev.capacity = None THEN {}
                      ELSE FirstOf(lapsed,
                                   WantedLapsedHoldReleases(Cardinality(lapsed), waiting, free),
                                   holds)

ReleaseHolds(d, released) ==
    [d EXCEPT !.reg = [p \in Person |->
        IF p \in released THEN [Moved(d.reg[p], "EXPIRED", None) EXCEPT !.late = TRUE]
        ELSE d.reg[p]]]

\* completeDeadlineRelease: the release runs once and leaves the offers to the staff.
AfterDeadlineRelease(d) == [d EXCEPT !.ev.released = TRUE, !.ev.offerOnly = TRUE]

ReleaseWanted(d, t, wanting, channel) ==
    ReleaseHolds(d, HoldsToRelease(d, t, wanting, channel))

ExpireStaleHolds(d, t, wanting, channel) ==
    LET freed == ReleaseWanted(ExpireByClock(d, t), t, wanting, channel)
    IN  IF ReleaseDue(d, t) THEN AfterDeadlineRelease(freed) ELSE freed

Expired(d, t) == ExpireStaleHolds(d, t, 0, "staff")

Queued(d, people, kind, t) ==
    IF EmailsQueue
    THEN [d EXCEPT !.mail = @ \cup {[to |-> p, kind |-> kind, at |-> t] : p \in people}]
    ELSE d

Offered(d, people, hold) ==
    [d EXCEPT !.reg = [p \in Person |->
        IF p \in people THEN Moved(d.reg[p], "WAITLIST_OFFERED", hold) ELSE d.reg[p]]]

\* The places the line may be offered, and the longest waiting of them.
PlacesForLine(d, t) ==
    IF d.ev.capacity = None THEN Cardinality(Waiting(d))
    ELSE Greatest(LineRoom(d.ev, Occupied(d, t)), 0)

NextInLine(d, t) == FirstOf(Waiting(d), PlacesForLine(d, t), [p \in Person |-> d.reg[p].since])

OfferTo(d, people, t) ==
    Queued(Offered(d, people, WaitlistOfferExpiry(t, CloseAt)), people, "offer", t)

OffersNow(ev, t) ==
    ev.status = "SCHEDULED" /\ OffersOnItsOwn(ev) /\ WaitlistOfferExpiry(t, CloseAt) > t

OfferPlaces(d, t) == IF OffersNow(d.ev, t) THEN OfferTo(d, NextInLine(d, t), t) ELSE d

\* Mutant: the rules are those read before the sweep.
FillByStaleRules(d, t) ==
    IF d.ev.status = "CANCELLED" THEN d
    ELSE IF OffersNow(d.ev, t) THEN OfferTo(Expired(d, t), NextInLine(Expired(d, t), t), t)
    ELSE Expired(d, t)

\* fillAvailableSpots: what lapsed goes, and the places that leaves are the line's.
FillAvailableSpots(d, t) ==
    IF d.ev.status = "CANCELLED" THEN d ELSE OfferPlaces(Expired(d, t), t)

-----------------------------------------------------------------------------
(***************************************************************************)
(* Giving a newcomer a place, or a place in the line (service.ts).         *)
(***************************************************************************)
\* placeForNewcomer: what lapsed goes and the line is served before the count.
Served(d, t) == FillAvailableSpots(Expired(d, t), t)

\* Mutant: a free place is the newcomer's, whoever waits.
FreeForWhoeverWaits(d, t, channel) ==
    HasDirectAvailability(CapacityForEntry(d.ev, channel), Occupied(d, t), 0)

FreeFor(d, t, channel) ==
    LET waiting == Cardinality(Waiting(d))
    IN  /\ ~NewcomerJoinsLine(d.ev, waiting, channel)
        /\ HasDirectAvailability(CapacityForEntry(d.ev, channel), Occupied(d, t), waiting)

\* The full line's newcomer: a lapsed hold goes for them, if they may have its place.
FreeAfterRelease(served, after, t, channel) ==
    LET waiting == Cardinality(Waiting(served))
    IN  /\ LapsedHolds(served, t) # {} /\ ~PublicEntryQueues(served.ev, channel)
        /\ ~NewcomerJoinsLine(served.ev, waiting, channel)
        /\ HasDirectAvailability(CapacityForEntry(served.ev, channel), Occupied(after, t), waiting)

Adopts(d, p, t) ==
    d.reg[p].status \notin {"WAITLISTED", "WAITLIST_OFFERED"} /\ LiveInvitation(d, p, t)

WithPlace(d, p, hold) == [d EXCEPT !.reg[p] = Moved(@, "PENDING_DECLARATION", hold)]

InLine(d, p, t) == [d EXCEPT !.reg[p] = [Moved(@, "WAITLISTED", None) EXCEPT !.since = t]]

Entry(channel) == [channel |-> channel, invited |-> FALSE, vouched |-> FALSE]
VouchedEntry == [channel |-> "staff", invited |-> FALSE, vouched |-> TRUE]
InvitedEntry == [channel |-> "staff", invited |-> TRUE, vouched |-> FALSE]

HoldFor(how, t) ==
    IF how.vouched THEN VouchedPlaceExpiry(t)
    ELSE DeclarationHoldExpiry(t, IF how.invited THEN StartAt ELSE CloseAt)

\* Mutant: the invitation is marked accepted before its place is taken over.
ClaimingAndAccepted(d, p, adopts) ==
    [d EXCEPT !.fam[p] = None, !.inv[p] = IF adopts THEN None ELSE @,
              !.reg[p].outside = @ \/ (adopts /\ d.inv[p].outside)]

\* The person's held family place goes, and their invitation's kind of place comes.
Claiming(d, p, adopts) ==
    [d EXCEPT !.fam[p] = None, !.reg[p].outside = @ \/ (adopts /\ d.inv[p].outside)]

\* Who has a place without a count: a seat outside it, or one held in their name.
HasOwnPlace(d, p, t, how) ==
    d.reg[p].outside \/ HoldsFamilyReservation(d, p, t) \/ how.invited

GivenPlace(d, p, t, how, adopts) ==
    IF adopts
    THEN FillAvailableSpots([WithPlace(d, p, HoldFor(how, t)) EXCEPT !.inv[p] = None], t)
    ELSE WithPlace(d, p, HoldFor(how, t))

LineTakesOneMore(d, t) ==
    LineHasRoom(d.ev, Cardinality(Waiting(d)), OpenOffers(d, t))

\* The line is full: the place of a lapsed hold, or a refusal that rolls everything back.
PlaceOfLapsedHold(d, after, p, t, how) ==
    IF FreeAfterRelease(d, after, t, how.channel)
    THEN {GivenPlace(after, p, t, how, FALSE)} ELSE {}

PlacedOrQueued(d, p, t, how, direct, adopts) ==
    IF direct \/ FreeFor(d, t, how.channel) THEN {GivenPlace(d, p, t, how, adopts)}
    ELSE IF LineTakesOneMore(d, t) THEN {FillAvailableSpots(InLine(d, p, t), t)}
    ELSE PlaceOfLapsedHold(d, ExpireStaleHolds(d, t, 1, how.channel), p, t, how)

\* allocateOrWaitlist: the databases it may commit, none when the line is full.
Allocated(d, p, t, how) ==
    LET adopts == ~how.invited /\ Adopts(d, p, t)
        mine == Claiming(d, p, adopts)
    IN  PlacedOrQueued(Served(mine, t), p, t, how, adopts \/ HasOwnPlace(mine, p, t, how), adopts)

\* enqueueAllocationEmail: the email of the row as the allocator placed it.
AllocationEmail(d, p, t) ==
    IF d.reg[p].status \in {"PENDING_DECLARATION", "EXPIRED"}
    THEN Queued(d, {p}, "declaration", t) ELSE d

AllocatedWithEmail(d, p, t, how) == {AllocationEmail(e, p, t) : e \in Allocated(d, p, t, how)}

Confirmed(d, p) == [d EXCEPT !.reg[p] = Moved(@, "CONFIRMED", None)]

\* A form's row, its email still to be confirmed.
WithForm(d, p, t, staff) ==
    [d EXCEPT !.reg[p] = [Absent EXCEPT !.status = "PENDING_EMAIL_CONFIRMATION",
                                        !.link = t + LinkTime, !.staff = staff]]

\* assertRegistrationOpen for the public form.
RegistrationOpen(d, t) == d.ev.status = "SCHEDULED" /\ t < CloseAt

MayEnter(d, p) == d.reg[p].status \in Terminal \cup {"ABSENT"}

\* A restart of a confirmed address goes to the allocator at once.
Entered(d, p, t, how) ==
    IF p \in d.verified
    THEN AllocatedWithEmail([d EXCEPT !.reg[p].outside = FALSE], p, t, how)
    ELSE {WithForm(d, p, t, how.channel = "staff")}

\* reserveFamilyPlace and holdFamilyPlace count through the allocator's opening.
Reserved(d, p, t, until) ==
    LET e == Served(d, t)
    IN  IF HoldsFamilyReservation(d, p, t) THEN d
        ELSE IF FreeFor(e, t, "public") /\ until > t THEN [e EXCEPT !.reg[p].hold = until]
        ELSE e

FamilyPlaceHeld(d, p, t, until) ==
    LET cleared == [d EXCEPT !.fam[p] = IF Past(@, t) THEN None ELSE @]
        e == Served(cleared, t)
    IN  IF Ahead(d.fam[p], t) THEN d
        ELSE IF FreeFor(e, t, "public") /\ until > t THEN [e EXCEPT !.fam[p] = until]
        ELSE e

SittingDeadlines(t) == {FamilyReservationExpiry(opened) : opened \in 0..t}

-----------------------------------------------------------------------------
(***************************************************************************)
(* Entries: the public form, a family's forms, the staff's.                *)
(***************************************************************************)
\* Mutant: the door measures the public on the whole capacity.
DoorCountsKeptPlaces(d, t, channel) ==
    LET waiting == Cardinality(Waiting(d))
    IN  \/ d.ev.capacity = None
        \/ LineHasRoom(d.ev, waiting, OpenOffers(d, t))
        \/ /\ ~NewcomerJoinsLine(d.ev, waiting, channel)
           /\ HasDirectAvailability(d.ev.capacity, Occupied(d, t), waiting)

\* assertWaitlistCanTakeOneMore reads the counts before the lock is taken.
WaitlistCanTakeOneMore(d, t, channel) ==
    LET waiting == Cardinality(Waiting(d))
        occupied == Occupied(d, t)
        inUse == channel = "public" /\ KeptPlacesInUse(d.ev, occupied)
    IN  \/ d.ev.capacity = None
        \/ LineHasRoom(d.ev, waiting, OpenOffers(d, t))
        \/ /\ ~NewcomerJoinsLine(d.ev, waiting, channel)
           /\ HasDirectAvailability(CapacityForEntry(d.ev, channel),
                  OccupiedForNewcomer(d.ev, waiting, OpenOffers(d, t), occupied,
                                      Cardinality(LapsedHolds(d, t)), inUse),
                  waiting)

PassWaitlistCheck(p, channel) ==
    /\ db.ev.waitCap # None /\ <<p, channel>> \notin entering
    /\ MayEnter(db, p) /\ WaitlistCanTakeOneMore(db, now, channel)
    /\ entering' = entering \cup {<<p, channel>>}
    /\ UNCHANGED <<db, now, sending>>

\* An event without a limit on its line has nothing to look at.
PastTheCheck(p, channel) ==
    /\ db.ev.waitCap = None \/ <<p, channel>> \in entering
    /\ entering' = entering \ {<<p, channel>>}

Commit(dbs) == db' \in dbs /\ UNCHANGED <<now, sending>>

Submit(p) ==
    /\ RegistrationOpen(db, now) /\ MayEnter(db, p)
    /\ PastTheCheck(p, "public")
    /\ Commit(Entered(db, p, now, Entry("public")))

\* A sitting's form for a person: the row, and a place reserved for it if one is free.
SubmitInSitting(p, until) ==
    /\ RegistrationOpen(db, now) /\ MayEnter(db, p)
    /\ PastTheCheck(p, "public")
    /\ Commit({Reserved(WithForm(db, p, now, FALSE), p, now, until)})

\* A sitting's form that writes no registration holds a place without one.
HoldFamilyPlace(p, until) ==
    /\ RegistrationOpen(db, now) /\ ~HoldsFamilyReservation(db, p, now)
    /\ PastTheCheck(p, "public")
    /\ Commit({FamilyPlaceHeld(db, p, now, until)})

\* confirmFamilyEntry: the held place goes, the form is submitted and its address confirmed.
\* The button for a whole sitting does the same for each, with a longer hold for whoever's
\* declaration it holds back; that hold is not modelled.
ConfirmFamilyEntry(p) ==
    /\ RegistrationOpen(db, now) /\ MayEnter(db, p)
    /\ PastTheCheck(p, "public")
    /\ LET row == IF p \in db.verified THEN [db EXCEPT !.reg[p].outside = FALSE]
                  ELSE WithForm(db, p, now, FALSE)
           proved == [row EXCEPT !.fam[p] = None, !.verified = @ \cup {p}]
       IN  Commit(AllocatedWithEmail(proved, p, now, Entry("public")))

\* A staff entry: through its email, or vouched for and placed at once.
SubmitByStaff(p) ==
    /\ db.ev.status = "SCHEDULED" /\ MayEnter(db, p)
    /\ PastTheCheck(p, "staff")
    /\ Commit(Entered(db, p, now, Entry("staff")))

SubmitVouched(p) ==
    /\ db.ev.status = "SCHEDULED" /\ now < StartAt /\ MayEnter(db, p)
    /\ PastTheCheck(p, "staff")
    /\ LET row == IF p \in db.verified THEN [db EXCEPT !.reg[p].outside = FALSE]
                  ELSE WithForm(db, p, now, TRUE)
       IN  Commit(AllocatedWithEmail(row, p, now, VouchedEntry))

ConfirmEmail(p) ==
    /\ db.reg[p].status = "PENDING_EMAIL_CONFIRMATION" /\ db.ev.status = "SCHEDULED"
    /\ UNCHANGED entering
    /\ IF db.reg[p].link <= now
       THEN Commit({[db EXCEPT !.reg[p] = Moved(@, "EXPIRED", None)]})
       ELSE Commit(AllocatedWithEmail([db EXCEPT !.verified = @ \cup {p}], p, now,
                       Entry(IF db.reg[p].staff THEN "staff" ELSE "public")))

\* The job's expireStalePendingEmailConfirmations, without the event's lock.
StaleLinks(d, t) ==
    {p \in WithStatus(d, {"PENDING_EMAIL_CONFIRMATION"}) : d.reg[p].link <= t}

ExpireEmailLinks ==
    /\ StaleLinks(db, now) # {}
    /\ UNCHANGED entering
    /\ Commit({[db EXCEPT !.reg = [p \in Person |->
           IF p \in StaleLinks(db, now) THEN Moved(db.reg[p], "EXPIRED", None)
           ELSE db.reg[p]]]})

-----------------------------------------------------------------------------
(***************************************************************************)
(* Signing, and what the staff decide.                                     *)
(***************************************************************************)
SignDeclaration(p) ==
    LET first == IF ReleaseDue(db, now) THEN Expired(db, now) ELSE db
        swept == Expired(first, now)
        placed == IF swept.reg[p].status = "EXPIRED"
                  THEN Allocated(swept, p, now, Entry("staff")) ELSE {swept}
        signed(d) == IF d.reg[p].status = "WAITLISTED" THEN d
                     ELSE FillAvailableSpots(Confirmed(d, p), now)
    IN  /\ db.ev.status = "SCHEDULED"
        /\ db.reg[p].status \in {"PENDING_DECLARATION", "WAITLIST_OFFERED"}
        /\ UNCHANGED entering
        /\ IF first.reg[p].status = "EXPIRED" /\ first.reg[p].late
           THEN Commit({first})
           ELSE Commit({signed(d) : d \in {e \in placed : e.reg[p].status # "EXPIRED"}})

\* The desk: a place where one is owed, then the declaration accepted on paper.
LateSigner(r) == r.status = "EXPIRED" /\ r.late

ConfirmByStaff(p) ==
    LET r == db.reg[p]
        placed == IF r.status = "PENDING_EMAIL_CONFIRMATION" \/ LateSigner(r)
                  THEN Allocated(db, p, now, Entry("staff")) ELSE {db}
        accepted == {IF d.reg[p].status = "WAITLISTED" THEN d ELSE Confirmed(d, p) :
                        d \in {e \in placed : e.reg[p].status # "EXPIRED"}}
    IN  /\ db.ev.status # "CANCELLED"
        /\ \/ r.status \in {"PENDING_EMAIL_CONFIRMATION", "PENDING_DECLARATION", "WAITLIST_OFFERED"}
           \/ LateSigner(r)
        /\ UNCHANGED entering
        /\ Commit(accepted)

\* promoteFromWaitlistByStaff: only into a place that is free.
Promote(p) ==
    LET e == Expired(db, now)
    IN  /\ db.ev.status # "CANCELLED"
        /\ e.reg[p].status = "WAITLISTED"
        /\ HasRoom(e.ev, Occupied(e, now))
        /\ UNCHANGED entering
        /\ Commit({FillAvailableSpots(Confirmed(e, p), now)})

\* addOneSupplementaryPlace: on a full event, one place more, if the count then fits.
SupplementaryPlace(d, t) ==
    IF HasRoom(d.ev, Occupied(d, t)) THEN {d}
    ELSE IF Occupied(d, t) < d.ev.capacity + 1 /\ d.ev.capacity < MaxCapacity
         THEN {[d EXCEPT !.ev.capacity = @ + 1]} ELSE {}

OfferPlaceTo(p) ==
    LET e == Expired(db, now)
        until == WaitlistOfferExpiry(now, StartAt)
    IN  /\ db.ev.status = "SCHEDULED" /\ until > now
        /\ e.reg[p].status = "WAITLISTED"
        /\ UNCHANGED entering
        /\ Commit({FillAvailableSpots(
                       Queued(Offered(d, {p}, until), {p}, "offerUntilStart", now), now) :
                   d \in SupplementaryPlace(e, now)})

\* givePlaceNowByStaff: an unconfirmed address is vouched for, ahead of the line.
GivePlaceNow(p) ==
    LET swept == Expired([db EXCEPT !.fam[p] = None], now)
        adopts == LiveInvitation(swept, p, now)
        mine == [swept EXCEPT !.reg[p].outside = @ \/ (adopts /\ swept.inv[p].outside)]
        needsNoRoom == HoldsFamilyReservation(db, p, now) \/ db.reg[p].outside \/ adopts
        wanted == IF HasRoom(mine.ev, Occupied(mine, now)) \/ LapsedHolds(mine, now) = {}
                  THEN mine ELSE ExpireStaleHolds(mine, now, 1, "staff")
        placed(d) == Queued(WithPlace([d EXCEPT !.inv[p] = IF adopts THEN None ELSE @],
                                      p, VouchedPlaceExpiry(now)), {p}, "declaration", now)
    IN  /\ db.ev.status = "SCHEDULED" /\ now < StartAt
        /\ db.reg[p].status = "PENDING_EMAIL_CONFIRMATION"
        /\ UNCHANGED entering
        /\ Commit({FillAvailableSpots(placed(d), now) :
                   d \in IF needsNoRoom THEN {mine} ELSE SupplementaryPlace(wanted, now)})

WouldHoldACountedPlace(d, p, t) ==
    \/ d.reg[p].status \in {"CONFIRMED", "PENDING_DECLARATION", "WAITLIST_OFFERED"}
    \/ HoldsFamilyReservation(d, p, t)

InFlight(m) == sending # None /\ sending.mail = m

\* setOutsideCapacityByStaff: a seat on the hidden list frees the counted one.
SetOutside(p, outside) ==
    LET e == Served(db, now)
        r == e.reg[p]
        flagged == [e EXCEPT !.reg[p].outside = outside]
        filled == IF outside THEN FillAvailableSpots(flagged, now) ELSE flagged
        withoutOffer(d) ==
            IF r.status # "WAITLIST_OFFERED" THEN d
            ELSE [d EXCEPT !.mail = {m \in @ : \/ m.to # p \/ m.kind = "declaration"
                                               \/ InFlight(m)}]
        seated == IF outside /\ r.status \in {"WAITLISTED", "WAITLIST_OFFERED"}
                  THEN {AllocationEmail(withoutOffer(d), p, now) :
                           d \in Allocated(filled, p, now, Entry("staff"))}
                  ELSE {filled}
    IN  /\ db.ev.status = "SCHEDULED" /\ r.status \in Active
        /\ UNCHANGED entering
        /\ IF r.outside = outside THEN Commit({e})
           ELSE /\ ~outside /\ WouldHoldACountedPlace(e, p, now) => HasRoom(e.ev, Occupied(e, now))
                /\ Commit(seated)

\* unregister, from the person's own link until the start, or by the staff.
Unregister(p) ==
    /\ db.reg[p].status \in AllowedFrom("CANCELLED")
    /\ UNCHANGED entering
    /\ Commit({FillAvailableSpots([db EXCEPT !.reg[p] = Moved(@, "CANCELLED", None)], now)})

-----------------------------------------------------------------------------
(***************************************************************************)
(* Invitations.                                                            *)
(***************************************************************************)
InvitationDeadline(t) == Least(t + InviteTime, StartAt)

Invite(p, outside) ==
    LET e == FillAvailableSpots(db, now)
        waiting == Cardinality(Waiting(e))
        free == outside \/ (e.ev.capacity # None =>
                               InvitationFreePlaces(e.ev, Occupied(e, now), waiting) > 0)
        raised == IF free THEN {e}
                  ELSE IF Occupied(e, now) < e.ev.capacity + 1 /\ e.ev.capacity < MaxCapacity
                       THEN {[e EXCEPT !.ev.capacity = @ + 1]} ELSE {}
    IN  /\ db.ev.status = "SCHEDULED" /\ InvitationDeadline(now) > now
        /\ e.reg[p].status \notin Active /\ e.inv[p] = None
        /\ UNCHANGED entering
        /\ Commit({[d EXCEPT !.inv[p] = [until |-> InvitationDeadline(now), outside |-> outside]] :
                   d \in raised})

\* acceptInvitation: the link's form, then the place held in the person's name.
AcceptInvitation(p) ==
    LET row == WithForm(db, p, now, FALSE)
        proved == [row EXCEPT !.reg[p].outside = db.inv[p].outside, !.verified = @ \cup {p}]
    IN  /\ LiveInvitation(db, p, now)
        /\ db.ev.status = "SCHEDULED" /\ now < StartAt /\ MayEnter(db, p)
        /\ UNCHANGED entering
        /\ Commit({[d EXCEPT !.inv[p] = None] :
                   d \in AllocatedWithEmail(proved, p, now, InvitedEntry)})

\* resendInvitationByStaff moves the deadline on only where nobody waits for the place.
ResendInvitation(p) ==
    LET e == Expired(db, now)
        later == /\ InvitationDeadline(now) > e.inv[p].until
                 /\ e.inv[p].outside \/ Waiting(e) = {}
    IN  /\ LiveInvitation(e, p, now)
        /\ db.ev.status = "SCHEDULED" /\ now < StartAt
        /\ UNCHANGED entering
        /\ Commit({IF later THEN [e EXCEPT !.inv[p].until = InvitationDeadline(now)] ELSE e})

WithdrawInvitation(p) ==
    LET e == Expired(db, now)
    IN  /\ LiveInvitation(e, p, now)
        /\ UNCHANGED entering
        /\ Commit({FillAvailableSpots([e EXCEPT !.inv[p] = None], now)})

SweepLapsedInvitations ==
    /\ \E p \in Person : db.inv[p] # None /\ ~LiveInvitation(db, p, now)
    /\ UNCHANGED entering
    /\ Commit({FillAvailableSpots(db, now)})

-----------------------------------------------------------------------------
(***************************************************************************)
(* The editor and the maintenance job.                                     *)
(***************************************************************************)
\* capacityRaised: what makes a save serve the line.
CapacityRaised(before, after) ==
    /\ after.status = "SCHEDULED"
    /\ before.capacity # None
    /\ \/ after.capacity = None
       \/ after.capacity > before.capacity
       \/ KeptOf(after) < KeptOf(before)

Lowers(before, form) ==
    form.capacity # None /\ (before.capacity = None \/ form.capacity < before.capacity)

\* saveEventAndTranslations: no expiry before the count a lower capacity is held to.
EditEvent(form) ==
    LET saved == [db EXCEPT !.ev = Stored(form, db.ev.released)]
    IN  /\ form.capacity # None => form.kept <= form.capacity /\ Occupied(db, now) <= form.capacity
        /\ Lowers(db.ev, form) => EditorMayLower
        /\ UNCHANGED entering
        /\ Commit({IF CapacityRaised(db.ev, saved.ev) THEN FillAvailableSpots(saved, now) ELSE saved})

\* findEventsNeedingMaintenance, read without the lock.
NeedsMaintenance(d, t) ==
    LET somebodyWaits == WithStatus(d, {"WAITLISTED"}) # {}
    IN  \/ /\ d.ev.status = "SCHEDULED"
           /\ \/ \E p \in WithStatus(d, {"WAITLIST_OFFERED"}) :
                    Past(d.reg[p].hold, t) /\ ~OfferAwaitingItsFirstEmail(d, p, t)
              \/ somebodyWaits /\ LapsedHolds(d, t) # {}
              \/ somebodyWaits /\ \E p \in Person : ReservationLapsed(d, p, t)
              \/ somebodyWaits /\ \E p \in Person : Past(d.fam[p], t)
              \/ StartAt <= t /\ WithStatus(d, {"PENDING_DECLARATION", "WAITLISTED"}) # {}
              \/ \E p \in Person : d.inv[p] # None /\ ~LiveInvitation(d, p, t)
              \/ /\ somebodyWaits /\ OffersOnItsOwn(d.ev) /\ d.ev.capacity # None /\ t < CloseAt
                 /\ LineRoom(d.ev, Occupied(d, t)) > 0
        \/ ReleaseDue(d, t)

\* closeWaitlistForStartedEvent
WaitlistClosed(d) ==
    [d EXCEPT !.reg = [p \in Person |->
        IF d.reg[p].status = "WAITLISTED" THEN Moved(d.reg[p], "EXPIRED", None) ELSE d.reg[p]]]

Maintenance ==
    /\ NeedsMaintenance(db, now) /\ db.ev.status = "SCHEDULED"
    /\ UNCHANGED entering
    /\ Commit({FillAvailableSpots(IF StartAt <= now THEN WaitlistClosed(db) ELSE db, now)})

-----------------------------------------------------------------------------
(***************************************************************************)
(* A first email leaves, and its deadline with it                          *)
(* (notifications/outbox.ts, notifications/deadline-rebase.ts).            *)
(***************************************************************************)
StatusOfKind(kind) ==
    IF kind = "declaration" THEN "PENDING_DECLARATION" ELSE "WAITLIST_OFFERED"

CloseOfKind(kind) == IF kind = "offerUntilStart" THEN StartAt ELSE CloseAt

\* rebasedDeadline: the wait is added, within the caps; None when it moves nothing.
RebasedDeadline(kind, stored, queuedAt, sentAt) ==
    LET next == CapHoldExpiry(stored + (sentAt - queuedAt), CloseOfKind(kind))
    IN  IF /\ sentAt > queuedAt /\ stored > queuedAt
           /\ ~(kind = "declaration" /\ stored - queuedAt > LongestClubHold)
           /\ next > stored
        THEN next ELSE None

PlannedDeadline(d, m, t) ==
    LET r == d.reg[m.to]
    IN  IF r.status = StatusOfKind(m.kind) /\ r.hold # None
        THEN RebasedDeadline(m.kind, r.hold, m.at, t) ELSE None

\* Mutant: the new deadline is written without comparing the row.
RebasedBlindly(d, s) ==
    IF s.to # None THEN [d EXCEPT !.reg[s.mail.to].hold = s.to] ELSE d

\* applyDeadlineRebase: compare-and-set on the deadline the plan read.
Rebased(d, s) ==
    LET r == d.reg[s.mail.to]
    IN  IF s.to # None /\ r.status = StatusOfKind(s.mail.kind) /\ r.hold = s.from
        THEN [d EXCEPT !.reg[s.mail.to].hold = s.to] ELSE d

Unqueued(d, m) == [d EXCEPT !.mail = @ \ {m}]

PlanSend(m) ==
    /\ sending = None
    /\ sending' = [mail |-> m, from |-> db.reg[m.to].hold,
                   to |-> PlannedDeadline(db, m, now), sent |-> FALSE]
    /\ UNCHANGED <<db, now, entering>>

\* An offer's SENT mark and its move commit together; should that fail, the mark alone.
OfferAccepted ==
    /\ sending # None /\ sending.mail.kind # "declaration"
    /\ db' \in {Rebased(Unqueued(db, sending.mail), sending), Unqueued(db, sending.mail)}
    /\ sending' = None
    /\ UNCHANGED <<now, entering>>

\* A declaration's mark is written first and its move after it.
DeclarationAccepted ==
    /\ sending # None /\ sending.mail.kind = "declaration" /\ ~sending.sent
    /\ db' = Unqueued(db, sending.mail)
    /\ sending' = IF sending.to = None THEN None ELSE [sending EXCEPT !.sent = TRUE]
    /\ UNCHANGED <<now, entering>>

ApplyRebase ==
    /\ sending # None /\ sending.sent
    /\ db' = Rebased(db, sending)
    /\ sending' = None
    /\ UNCHANGED <<now, entering>>

\* The row is FAILED for good, or withdrawn at the render.
SendGivesUp ==
    /\ sending # None /\ ~sending.sent
    /\ db' = Unqueued(db, sending.mail)
    /\ sending' = None
    /\ UNCHANGED <<now, entering>>

\* A transient failure, or the process ends: a row not marked SENT is sent again.
WorkerStops ==
    /\ sending # None
    /\ sending' = None
    /\ UNCHANGED <<db, now, entering>>

-----------------------------------------------------------------------------
Tick == now < MaxTime /\ now' = now + 1 /\ UNCHANGED <<db, entering, sending>>

Init ==
    /\ db = [ev |-> Stored(FirstEvent, FALSE), reg |-> [p \in Person |-> Absent],
             inv |-> [p \in Person |-> None], fam |-> [p \in Person |-> None],
             mail |-> {}, verified |-> {}]
    /\ now = 0 /\ entering = {} /\ sending = None

Next ==
    \/ \E p \in Person : PassWaitlistCheck(p, "public")
    \/ \E p \in Desk : PassWaitlistCheck(p, "staff")
    \/ \E p \in Person : Submit(p)
    \/ \E p \in Desk : SubmitByStaff(p)
    \/ \E p \in Desk : SubmitVouched(p)
    \/ \E p \in Relative, until \in SittingDeadlines(now) : SubmitInSitting(p, until)
    \/ \E p \in Relative, until \in SittingDeadlines(now) : HoldFamilyPlace(p, until)
    \/ \E p \in Relative : ConfirmFamilyEntry(p)
    \/ \E p \in Person : ConfirmEmail(p)
    \/ ExpireEmailLinks
    \/ \E p \in Person : SignDeclaration(p)
    \/ \E p \in Desk : ConfirmByStaff(p)
    \/ \E p \in Desk : Promote(p)
    \/ \E p \in Desk : OfferPlaceTo(p)
    \/ \E p \in Desk : GivePlaceNow(p)
    \/ \E p \in Desk, outside \in BOOLEAN : SetOutside(p, outside)
    \/ \E p \in Person : Unregister(p)
    \/ \E p \in Invitee, outside \in BOOLEAN : Invite(p, outside)
    \/ \E p \in Invitee : AcceptInvitation(p)
    \/ \E p \in Invitee : ResendInvitation(p)
    \/ \E p \in Invitee : WithdrawInvitation(p)
    \/ SweepLapsedInvitations
    \/ \E form \in EventForms : EditEvent(form)
    \/ Maintenance
    \/ \E m \in db.mail : PlanSend(m)
    \/ OfferAccepted
    \/ DeclarationAccepted
    \/ ApplyRebase
    \/ SendGivesUp
    \/ WorkerStops
    \/ Tick

Spec == Init /\ [][Next]_vars

\* The scheduler runs the maintenance job again and again (jobs/catalog.ts).
FairSpec == Spec /\ WF_vars(Maintenance)
=============================================================================
