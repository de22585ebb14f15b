------------------------ MODULE AllocationProperties ------------------------
(***************************************************************************)
(* What the allocator of an event's places must never do, and what it must *)
(* eventually do.  The model is Allocation; the runs are the MC modules'.  *)
(***************************************************************************)
EXTENDS Allocation

-----------------------------------------------------------------------------
\* A row says only what its status means: a hold where a place is held, a link on an address
\* still to confirm, an instant of joining in the line, a reason on an expired hold.
WellFormed(r) ==
    /\ r.status \in {"PENDING_DECLARATION", "WAITLIST_OFFERED"} => r.hold # None
    /\ r.hold # None => r.status \in {"PENDING_EMAIL_CONFIRMATION", "PENDING_DECLARATION",
                                     "WAITLIST_OFFERED"}
    /\ r.link # None <=> r.status = "PENDING_EMAIL_CONFIRMATION"
    /\ r.since # None <=> r.status = "WAITLISTED"
    /\ r.late => r.status = "EXPIRED"

GoodRows(d) == d \in Database /\ \A p \in Person : WellFormed(d.reg[p])

Delivery == [mail : Mail, from : Deadline \cup {None}, to : Deadline \cup {None}, sent : BOOLEAN]

\* Every row, queued email and step of the clock is one the columns can hold, and every
\* row is well formed, whatever order the transactions and the sends come in.
TypeOK ==
    /\ GoodRows(db)
    /\ now \in Time
    /\ entering \subseteq (Person \X Channel)
    /\ sending \in Delivery \cup {None}

\* The places somebody has a claim on, those whose hold lapsed and was not swept included.
Claims(d, t) ==
    {<<"registration", p>> : p \in {q \in Person :
        /\ ~d.reg[q].outside
        /\ \/ d.reg[q].status \in {"CONFIRMED", "PENDING_DECLARATION", "WAITLIST_OFFERED"}
           \/ HoldsFamilyReservation(d, q, t)}}
    \cup {<<"family", p>> : p \in {q \in Person : Ahead(d.fam[q], t)}}
    \cup {<<"invitation", p>> : p \in {q \in Person :
        LiveInvitation(d, q, t) /\ ~d.inv[q].outside}}

HasClaim(d, p, t) == \E kind \in {"registration", "family", "invitation"} : <<kind, p>> \in Claims(d, t)

\* p had no claim on a place before the step and has one after it.
Gains(p) == ~HasClaim(db, p, now) /\ HasClaim(db', p, now')

\* p is given a place, or put in the line, through the site's own forms and links.
EntersByThePublicDoor(p) ==
    \/ Submit(p)
    \/ ConfirmEmail(p) /\ ~db.reg[p].staff
    \/ ConfirmFamilyEntry(p)
    \/ \E until \in SittingDeadlines(now) : SubmitInSitting(p, until) \/ HoldFamilyPlace(p, until)

-----------------------------------------------------------------------------
(***************************************************************************)
(* Safety.                                                                 *)
(***************************************************************************)
\* No transaction of any order promises more counted places than the event has, counting
\* every claim, a lapsed one that may still be signed included (BR-005: no overbooking).
\* While the editor never posts a capacity below the stored one.
NoOverbooking ==
    db.ev.capacity = None \/ Cardinality(Claims(db, now)) <= db.ev.capacity

\* A step that takes one counted place more leaves the count within the capacity, whatever
\* the editor did to it - save for the desk confirming the holder of a lapsed offer, whose
\* place the code does not count again (confirmByStaff).
PlacesGivenWithinCapacity ==
    [][(Occupied(db', now') > Occupied(db, now) /\ db'.ev.capacity # None)
        => \/ Occupied(db', now') <= db'.ev.capacity
           \/ \E p \in Desk : /\ db.reg[p].status = "WAITLIST_OFFERED" /\ ~OpenOffer(db, p, now)
                              /\ db'.reg[p].status = "CONFIRMED"]_vars

\* Nobody is given a place past somebody who goes on waiting: a newcomer, a person who signs
\* or confirms late, one whose reservation lapsed - only the club's own hand does that
\* (newcomerJoinsLine; givePlaceNowByStaff, setOutsideCapacityByStaff).  Of two who joined in
\* one instant the smaller row is the first (lockOldestWaitlisted).
LineNotOvertaken ==
    [][\A p \in Person, q \in Waiting(db) :
        (/\ ~HasClaim(db, p, now) /\ q \in Waiting(db') /\ db.reg[p].status # "WAITLISTED"
         /\ db.reg[q].since < now \/ (db.reg[q].since = now /\ q < p)
         /\ db'.reg[p].status \in {"PENDING_DECLARATION", "CONFIRMED"} /\ ~db'.reg[p].outside)
        => GivePlaceNow(p) \/ SetOutside(p, FALSE)]_vars

\* Where two people wait and one of them is offered a place, it is the one who joined first,
\* the smaller row where they joined together, unless the staff chose (lockOldestWaitlisted).
LongestWaitingServedFirst ==
    [][\A p, q \in Waiting(db) :
        (/\ db'.reg[p].status = "WAITLIST_OFFERED" /\ q \in Waiting(db')
         /\ \/ db.reg[q].since < db.reg[p].since
            \/ db.reg[q].since = db.reg[p].since /\ q < p)
        => OfferPlaceTo(p)]_vars

\* No entry through the site, and no offer the system makes by itself, takes the count past
\* what is announced: the kept places are given by the club alone (kept-places.ts).
KeptPlacesStayWithTheClub ==
    [][(/\ Occupied(db', now') > Occupied(db, now) /\ db'.ev.capacity # None
        /\ \/ \E p \in Person : EntersByThePublicDoor(p)
           \/ Maintenance \/ SweepLapsedInvitations)
        => Occupied(db', now') <= CapacityForEntry(db'.ev, "public")]_vars

\* An unsigned place past its deadline is let go for somebody: unless the race is over or the
\* deadline's own release runs, no step lets one go and leaves a place free with nobody in
\* the line for it - but where the step itself takes the one who waited for it onto the
\* hidden list (lapsedDeclarationHoldsToRelease, fillAvailableSpots).
NoHoldReleasedInVain ==
    [][((\E p \in Person : db.reg[p].status = "PENDING_DECLARATION" /\ db'.reg[p].late)
        /\ ~Over(db, now) /\ ~ReleaseDue(db, now))
        => \/ Waiting(db') # {} \/ LineRoom(db'.ev, Occupied(db', now')) <= 0
           \/ \E p \in Desk : SetOutside(p, TRUE)]_vars

\* The line, with the offers still open, never outgrows its limit, whatever passed the
\* unlocked look at it together (waitlistHasRoom, allocateOrWaitlist).
LineWithinItsLimit ==
    db.ev.waitCap = None
    \/ Cardinality(Waiting(db)) + OpenOffers(db, now) <= db.ev.waitCap

\* The door, that looks without the lock, lets nobody in whom the allocator would refuse in
\* the same instant: no verification email goes out for a registration a full race cannot
\* take.  Admits(p) is what the allocator would answer a newcomer in this state.  Not where
\* the deadline's release is due and has not run: it leaves the places to the staff, of
\* which the door knows nothing yet.  And not on an event without a cap: there the door does not
\* look, and whoever still waits may fill a line that the allocator asks for room.
Newcomer(p) == MayEnter(db, p) /\ ~LiveInvitation(db, p, now) /\ db.fam[p] = None
Admits(p) == Allocated(WithForm(db, p, now, FALSE), p, now, Entry("public")) # {}

LetInInVain(p) ==
    /\ RegistrationOpen(db, now) /\ ~ReleaseDue(db, now)
    /\ db.ev.waitCap # None /\ Newcomer(p)
    /\ WaitlistCanTakeOneMore(db, now, "public")
    /\ ~Admits(p)

DoorNeverAdmitsInVain == db.ev.capacity # None => \A p \in Person : ~LetInInVain(p)

\* While the free places are the club's to give, no entry through the site and no sweep gives
\* one, also in the very transaction that turned the rule on (completeDeadlineRelease).
FreePlacesAreTheClubs ==
    [][(db'.ev.offerOnly /\ db.ev.capacity # None /\ db'.ev.capacity # None)
        => /\ \A p \in Person : (Gains(p) /\ ~LiveInvitation(db, p, now)) => ~EntersByThePublicDoor(p)
           /\ \A p \in Waiting(db) : db'.reg[p].status = "WAITLIST_OFFERED" => OfferPlaceTo(p)]_vars

\* A place reserved for a relative ends as a place of their own, never in the line: until it
\* lapses, only their own expired link takes it (allocateOrWaitlist).
FamilyReservationHonoured ==
    [][\A p \in Person :
        HoldsFamilyReservation(db, p, now)
        => \/ db'.reg[p].status \in {"PENDING_DECLARATION", "CONFIRMED"}
           \/ db'.reg[p].status = "PENDING_EMAIL_CONFIRMATION"
              /\ (now' = now => HoldsFamilyReservation(db', p, now) \/ db'.reg[p].outside)
           \/ db'.reg[p].status = "EXPIRED" /\ db.reg[p].link <= now]_vars

\* A place held by an invitation is taken over in one step by whoever it invites, with no
\* instant at which the line may have it, as long as the registration is open.
InvitationTurnsIntoPlace ==
    [][\A p \in Person :
        (/\ LiveInvitation(db, p, now) /\ db'.inv[p] = None /\ now < CloseAt
         /\ db.reg[p].status # "WAITLIST_OFFERED" /\ db.reg[p].status # db'.reg[p].status)
        => db'.reg[p].status \in {"PENDING_DECLARATION", "CONFIRMED"}]_vars

\* Nobody loses a place over an email that has not reached them: an offer, or an unsigned
\* place, is not expired while its first email is queued, until the race itself ends it
\* (awaitingItsFirstEmail, offerAwaitingItsFirstEmail).
PlaceWaitsForItsEmail ==
    [][\A p \in Person :
        (db'.reg[p].status = "EXPIRED" /\ ~Over(db, now))
        => /\ db.reg[p].status = "PENDING_DECLARATION" => ~AwaitingItsFirstEmail(db, p)
           /\ db.reg[p].status = "WAITLIST_OFFERED" => ~OfferAwaitingItsFirstEmail(db, p, now)]_vars

\* The email at the mail server names a deadline the row keeps: a place is not taken before
\* the deadline the email in flight was rendered with, the race going on.
PromisedUntil(p, t) ==
    /\ sending # None /\ sending.mail.to = p /\ sending.to # None /\ t < sending.to
    /\ db.reg[p].status = StatusOfKind(sending.mail.kind) /\ db.reg[p].hold = sending.from

OfferPromiseKept ==
    [][\A p \in Person :
        (PromisedUntil(p, now) /\ sending.mail.kind # "declaration" /\ ~Over(db, now))
        => db'.reg[p].status # "EXPIRED"]_vars

DeclarationPromiseKept ==
    [][\A p \in Person :
        (PromisedUntil(p, now) /\ sending.mail.kind = "declaration" /\ ~Over(db, now))
        => db'.reg[p].status # "EXPIRED"]_vars

-----------------------------------------------------------------------------
(***************************************************************************)
(* What a comment or a decision says and the runs refute.                  *)
(***************************************************************************)
\* "No overbooking from the desk, ever."
NoOverbookingFromTheDesk ==
    [][\A p \in Desk :
        (/\ db.reg[p].status # "CONFIRMED" /\ db'.reg[p].status = "CONFIRMED"
         /\ db'.ev.capacity # None /\ Occupied(db', now') > Occupied(db, now))
        => Occupied(db', now') <= db'.ev.capacity]_vars

\* The family confirmed its people together: the place held for each of them is theirs.
HeldFamilyPlaceHonoured ==
    [][\A p \in Relative :
        (/\ Ahead(db.fam[p], now) /\ db'.fam[p] = None /\ db'.reg[p].status # db.reg[p].status)
        => db'.reg[p].status # "WAITLISTED"]_vars

\* Whoever an invitation holds a place for takes it over, whenever they enter.
InvitationAlwaysTurnsIntoPlace ==
    [][\A p \in Person :
        (/\ LiveInvitation(db, p, now) /\ db'.inv[p] = None
         /\ db.reg[p].status = "PENDING_EMAIL_CONFIRMATION" /\ db.reg[p].link > now)
        => db'.reg[p].status \notin {"WAITLISTED", "EXPIRED"}]_vars

-----------------------------------------------------------------------------
(***************************************************************************)
(* Liveness, under the fairness of the scheduler alone (FairSpec).         *)
(***************************************************************************)
\* The job finds work only where its sweep does some, so it does not come back to an event
\* for ever in vain - where the line is served on its own and the registration is open: with
\* the offers the staff's, or after the close, a lapsed place beside a free one stays found
\* (findEventsNeedingMaintenance against fillAvailableSpots).
MaintenanceSettles ==
    []<>(NeedsMaintenance(db, now) => ~OffersOnItsOwn(db.ev) \/ CloseAt <= now)

\* A place free for the line is not left empty while somebody waits for it.
PlaceWaitedFor ==
    /\ db.ev.status = "SCHEDULED" /\ OffersOnItsOwn(db.ev) /\ now < CloseAt
    /\ Waiting(db) # {}
    /\ db.ev.capacity = None \/ LineRoom(db.ev, Occupied(db, now)) > 0

CappedLineServed == (PlaceWaitedFor /\ db.ev.capacity # None) ~> ~PlaceWaitedFor

\* ... nor where the cap was lifted while people wait.
UncappedLineServed == (PlaceWaitedFor /\ db.ev.capacity = None) ~> ~PlaceWaitedFor

\* Once a race has started nobody is left waiting for a place, or holding one unsigned or offered.
StartedRaceCloses ==
    (db.ev.status = "SCHEDULED" /\ StartAt <= now)
    ~> (db.ev.status # "SCHEDULED"
        \/ WithStatus(db, {"PENDING_DECLARATION", "WAITLISTED", "WAITLIST_OFFERED"}) = {})
=============================================================================
