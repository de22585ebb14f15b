-------------------------- MODULE Promises_proofs ---------------------------
(***************************************************************************)
(* What was promised to a person is kept by every step, for every value of *)
(* the constants: the turn in the line, a place whose email has not gone   *)
(* out, the deadline an email names, a place reserved for a relative, and  *)
(* an invitation.                                                          *)
(*                                                                         *)
(* A transaction sweeps and offers more than the row it is about.  Treats  *)
(* says what each of its operators leaves of all the other rows, and is    *)
(* closed under composition; Spared, who no sweep may touch at the time;   *)
(* TakesNoTurn, that who comes by a place passes nobody in the line.       *)
(* An action is honest when the row it is about is, and it treats the rest.*)
(***************************************************************************)
EXTENDS Counts_proofs

-----------------------------------------------------------------------------
(***************************************************************************)
(* What a transaction leaves of those it is not about.                     *)
(***************************************************************************)
\* Not to be expired in this instant: the race goes on, and the hold is ahead, or its first
\* email still queued, or the seat one that no sweep counts.
Spared(d, p, t) ==
    /\ ~Over(d, t) /\ d.reg[p].status # "EXPIRED"
    /\ d.reg[p].status = "PENDING_DECLARATION" =>
           d.reg[p].outside \/ AwaitingItsFirstEmail(d, p) \/ ~Past(d.reg[p].hold, t)
    /\ d.reg[p].status = "WAITLIST_OFFERED" =>
           OfferAwaitingItsFirstEmail(d, p, t) \/ ~Past(d.reg[p].hold, t)

\* p is not served before q: q waits longer, or one of the two is out of the line.
Since(d) == [p \in Person |-> d.reg[p].since]

Behind(d, p, q) ==
    /\ d.reg[p].status = "WAITLIST_OFFERED" => q \notin Waiting(d)
    /\ p \in Waiting(d) /\ q \in Waiting(d) => Before(q, p, Since(d))

\* A row that sweeps and offers went over: it moves on alone from a place to none, and from
\* the line to an offer; who is spared stays so, and a live invitation with them.
RowTreated(d, e, p, t) ==
    /\ RowSwept(d.reg[p], e.reg[p], t)
    /\ e.reg[p].status = "PENDING_DECLARATION" => d.reg[p].status = "PENDING_DECLARATION"
    /\ e.reg[p].status = "WAITLISTED"
       => d.reg[p].status = "WAITLISTED" /\ e.reg[p].since = d.reg[p].since
    /\ e.reg[p].status = "WAITLIST_OFFERED" => d.reg[p].status \in LineStatus
    /\ e.inv[p] = d.inv[p] \/ (e.inv[p] = None /\ ~LiveInvitation(d, p, t))
    /\ Spared(d, p, t) => Spared(e, p, t)

\* The rules a transaction serves the line by: only the deadline's release changes them.
RulesStand(d, e, t) ==
    /\ e.ev.capacity = None <=> d.ev.capacity = None
    /\ ~ReleaseDue(d, t) => ~ReleaseDue(e, t) /\ e.ev.offerOnly = d.ev.offerOnly

\* The free places are the club's own to give (offerOnly).
ClubGives(d) == d.ev.offerOnly /\ d.ev.capacity # None

OffersAreOpen(d, e, x, t) ==
    \A p \in Person \ {x} :
        d.reg[p].status # "WAITLIST_OFFERED" /\ e.reg[p].status = "WAITLIST_OFFERED"
        => ~ReleaseDue(e, t) /\ ~ClubGives(e)

\* Everybody's row but x's, who acts - or everybody's, where x is nobody.
Treats(d, e, x, t) ==
    /\ e.ev.status = d.ev.status /\ RulesStand(d, e, t) /\ OffersAreOpen(d, e, x, t)
    /\ \A m \in d.mail : m.to # x \/ InFlight(m) => m \in e.mail
    /\ \A p \in Person \ {x} : RowTreated(d, e, p, t)
    /\ \A p, q \in Person \ {x} : Behind(d, p, q) => Behind(e, p, q)

LEMMA RowTreatedTwice ==
    ASSUME NEW d, NEW e, NEW f, NEW p, NEW t, RowTreated(d, e, p, t), RowTreated(e, f, p, t)
    PROVE  RowTreated(d, f, p, t)
  <1>1. RowSwept(d.reg[p], f.reg[p], t)
    <2>1. RowSwept(d.reg[p], e.reg[p], t) /\ RowSwept(e.reg[p], f.reg[p], t)
      BY DEF RowTreated
    <2>2. "PENDING_EMAIL_CONFIRMATION" \notin Moving
      BY DEF Moving
    <2> QED BY <2>1, <2>2 DEF RowSwept, Past
  <1>2. /\ f.reg[p].status = "PENDING_DECLARATION" => d.reg[p].status = "PENDING_DECLARATION"
        /\ f.reg[p].status = "WAITLISTED"
           => d.reg[p].status = "WAITLISTED" /\ f.reg[p].since = d.reg[p].since
        /\ f.reg[p].status = "WAITLIST_OFFERED" => d.reg[p].status \in LineStatus
    BY DEF RowTreated, LineStatus
  <1>3. f.inv[p] = d.inv[p] \/ (f.inv[p] = None /\ ~LiveInvitation(d, p, t))
    BY DEF RowTreated, LiveInvitation
  <1>4. Spared(d, p, t) => Spared(f, p, t)
    BY DEF RowTreated
  <1> QED BY <1>1, <1>2, <1>3, <1>4 DEF RowTreated

LEMMA TreatsTwice ==
    ASSUME NEW d, NEW e, NEW f, NEW x, NEW t, Treats(d, e, x, t), Treats(e, f, x, t)
    PROVE  Treats(d, f, x, t)
  <1>1. /\ f.ev.status = d.ev.status
        /\ \A m \in d.mail : m.to # x \/ InFlight(m) => m \in f.mail
    BY DEF Treats
  <1>2. \A p \in Person \ {x} : RowTreated(d, f, p, t)
    BY RowTreatedTwice DEF Treats
  <1>3. \A p, q \in Person \ {x} : Behind(d, p, q) => Behind(f, p, q)
    BY DEF Treats
  <1>4. /\ RulesStand(d, e, t) /\ RulesStand(e, f, t)
        /\ OffersAreOpen(d, e, x, t) /\ OffersAreOpen(e, f, x, t)
    BY DEF Treats
  <1>5. RulesStand(d, f, t)
    BY <1>4 DEF RulesStand
  <1>6. OffersAreOpen(d, f, x, t)
    BY <1>4 DEF RulesStand, OffersAreOpen, ClubGives
  <1> QED BY <1>1, <1>2, <1>3, <1>5, <1>6 DEF Treats

\* What leaves the settings alone leaves the rules.
LEMMA SameRules ==
    ASSUME NEW d, NEW e, NEW t, e.ev = d.ev \/ (e.ev.status = d.ev.status /\ RulesStand(d, e, t))
    PROVE  e.ev.status = d.ev.status /\ RulesStand(d, e, t)
  BY DEF RulesStand, ReleaseDue

\* An email that is still queued keeps waiting for whom it is.
LEMMA SparedByEmail ==
    ASSUME NEW d, NEW e, NEW p, NEW t, e.ev.status = d.ev.status, e.reg[p] = d.reg[p],
           \A m \in d.mail : m.to = p => m \in e.mail, Spared(d, p, t)
    PROVE  Spared(e, p, t)
  <1>1. AwaitingItsFirstEmail(d, p) => AwaitingItsFirstEmail(e, p)
    BY DEF AwaitingItsFirstEmail, EmailQueued
  <1>2. OfferAwaitingItsFirstEmail(d, p, t) => OfferAwaitingItsFirstEmail(e, p, t)
    BY DEF OfferAwaitingItsFirstEmail, EmailQueued
  <1> QED BY <1>1, <1>2 DEF Spared, Over

\* Rows that stay, or leave the line, with nobody who is spared among them.
LEMMA TreatsRows ==
    ASSUME NEW d, NEW e, NEW x, NEW t,
           e.ev = d.ev \/ (e.ev.status = d.ev.status /\ RulesStand(d, e, t)),
           \A m \in d.mail : m.to # x \/ InFlight(m) => m \in e.mail,
           \A p \in Person \ {x} :
               /\ e.inv[p] = d.inv[p] \/ (e.inv[p] = None /\ ~LiveInvitation(d, p, t))
               /\ \/ e.reg[p] = d.reg[p]
                  \/ /\ RowSwept(d.reg[p], e.reg[p], t)
                     /\ e.reg[p].status \notin LineStatus \cup {"PENDING_DECLARATION"}
                     /\ Spared(d, p, t) => Spared(e, p, t)
    PROVE  Treats(d, e, x, t)
  <1>0. e.ev.status = d.ev.status /\ RulesStand(d, e, t)
    BY SameRules
  <1>1. ASSUME NEW p \in Person \ {x} PROVE RowTreated(d, e, p, t)
    <2>1. CASE e.reg[p] = d.reg[p]
      <3>1. Spared(d, p, t) => Spared(e, p, t)
        BY <1>0, <2>1, SparedByEmail
      <3> QED BY <2>1, <3>1 DEF RowTreated, RowSwept, LineStatus
    <2>2. CASE e.reg[p] # d.reg[p]
      BY <2>2 DEF RowTreated, LineStatus
    <2> QED BY <2>1, <2>2
  <1>2. ASSUME NEW p \in Person \ {x}, NEW q \in Person \ {x}, Behind(d, p, q)
        PROVE  Behind(e, p, q)
    <2>1. ASSUME NEW r \in Person \ {x}, e.reg[r].status \in LineStatus PROVE e.reg[r] = d.reg[r]
      BY <2>1 DEF LineStatus
    <2>2. \A r \in Person \ {x} : r \in Waiting(e) => r \in Waiting(d) /\ Since(e)[r] = Since(d)[r]
      BY <2>1 DEF Waiting, WithStatus, LineStatus, Since
    <2>3. e.reg[p].status = "WAITLIST_OFFERED" => d.reg[p].status = "WAITLIST_OFFERED"
      BY <2>1 DEF LineStatus
    <2> QED BY <1>2, <2>2, <2>3 DEF Behind, Before
  <1>3. OffersAreOpen(d, e, x, t)
    BY DEF OffersAreOpen, LineStatus
  <1> QED BY <1>0, <1>1, <1>2, <1>3 DEF Treats

\* What changes nobody's row but x's.
LEMMA TreatsOthers ==
    ASSUME NEW d, NEW e, NEW x, NEW t,
           e.ev = d.ev \/ (e.ev.status = d.ev.status /\ RulesStand(d, e, t)),
           \A m \in d.mail : m.to # x \/ InFlight(m) => m \in e.mail,
           \A p \in Person \ {x} : e.reg[p] = d.reg[p] /\ e.inv[p] = d.inv[p]
    PROVE  Treats(d, e, x, t)
  BY TreatsRows

LEMMA TreatsAll ==
    ASSUME NEW d, NEW x, NEW t
    PROVE  Treats(d, d, x, t)
  BY TreatsOthers

\* Of those who go on waiting, nobody's turn came before that of x, who comes at t.
TakesNoTurn(d, e, x, t) ==
    \A q \in Waiting(d) \ {x} :
        q \in Waiting(e) => ~(d.reg[q].since < t \/ (d.reg[q].since = t /\ q < x))

\* Nobody joins the line, or changes their place in it, by a sweep or an offer.
LEMMA TreatedWaits ==
    ASSUME NEW d, NEW e, NEW x, NEW t, Treats(d, e, x, t), NEW q \in Waiting(e) \ {x}
    PROVE  q \in Waiting(d) \ {x} /\ e.reg[q].since = d.reg[q].since
  <1>1. q \in Person \ {x} /\ e.reg[q].status = "WAITLISTED" /\ ~e.reg[q].outside
    BY DEF Waiting, WithStatus
  <1> QED BY <1>1 DEF Treats, RowTreated, RowSwept, Waiting, WithStatus

LEMMA TurnAfter ==
    ASSUME NEW d, NEW c, NEW e, NEW x, NEW t, Treats(d, c, x, t), Treats(c, e, x, t),
           TakesNoTurn(c, e, x, t)
    PROVE  TakesNoTurn(d, e, x, t)
  <1> SUFFICES ASSUME NEW q \in Waiting(d) \ {x}, q \in Waiting(e)
               PROVE  ~(d.reg[q].since < t \/ (d.reg[q].since = t /\ q < x))
    BY DEF TakesNoTurn
  <1>1. q \in Waiting(c) \ {x}
    BY TreatedWaits
  <1>2. c.reg[q].since = d.reg[q].since
    BY <1>1, TreatedWaits
  <1> QED BY <1>1, <1>2 DEF TakesNoTurn

LEMMA TurnBefore ==
    ASSUME NEW d, NEW c, NEW e, NEW x, NEW t, TakesNoTurn(d, c, x, t), Treats(c, e, x, t)
    PROVE  TakesNoTurn(d, e, x, t)
  <1> SUFFICES ASSUME NEW q \in Waiting(d) \ {x}, q \in Waiting(e)
               PROVE  ~(d.reg[q].since < t \/ (d.reg[q].since = t /\ q < x))
    BY DEF TakesNoTurn
  <1>1. q \in Waiting(c)
    BY TreatedWaits
  <1> QED BY <1>1 DEF TakesNoTurn

-----------------------------------------------------------------------------
LEMMA ExpireByClockTreats ==
    ASSUME NEW d, GoodRows(d), NEW t \in Time, NEW x
    PROVE  Treats(d, ExpireByClock(d, t), x, t)
  <1> DEFINE e == ExpireByClock(d, t)
  <1>1. /\ e.ev = d.ev /\ e.mail = d.mail
        /\ \A p \in Person : e.reg[p] =
               IF OfferLapsed(d, p, t) THEN Moved(d.reg[p], "EXPIRED", None)
               ELSE IF ReservationLapsed(d, p, t) THEN [d.reg[p] EXCEPT !.hold = None]
               ELSE d.reg[p]
    BY DEF ExpireByClock, GoodRows, Database
  <1>2. Swept(d, e, t)
    BY ExpireByClockSweeps
  <1> HIDE DEF e
  <1>3. ASSUME NEW p \in Person, e.reg[p] # d.reg[p]
        PROVE  /\ e.reg[p].status \notin LineStatus \cup {"PENDING_DECLARATION"}
               /\ Spared(d, p, t) => Spared(e, p, t)
    <2>1. d.reg[p] \in Registration
      BY RowsAre
    <2>2. CASE OfferLapsed(d, p, t)
      <3>1. ~Spared(d, p, t)
        BY <2>2 DEF OfferLapsed, Spared
      <3>2. e.reg[p].status = "EXPIRED"
        BY <1>1, <2>1, <2>2 DEF Moved, Registration
      <3> QED BY <3>1, <3>2 DEF LineStatus
    <2>3. CASE ~OfferLapsed(d, p, t) /\ ReservationLapsed(d, p, t)
      <3>1. e.reg[p].status = "PENDING_EMAIL_CONFIRMATION"
        BY <1>1, <2>1, <2>3 DEF ReservationLapsed, Registration
      <3> QED BY <1>1, <3>1 DEF LineStatus, Spared, Over
    <2> QED BY <1>1, <1>3, <2>2, <2>3
  <1>4. Treats(d, e, x, t)
    BY <1>1, <1>2, <1>3, TreatsRows DEF Swept
  <1> QED BY <1>4 DEF e

\* Only what lapsed is let go, and while the race goes on only what nobody's email keeps.
LEMMA ReleasedAreNotSpared ==
    ASSUME NEW d, NEW t, NEW wanting, NEW channel, NEW p \in HoldsToRelease(d, t, wanting, channel)
    PROVE  d.reg[p].status = "PENDING_DECLARATION" /\ ~Spared(d, p, t)
  <1>1. d.reg[p].status = "PENDING_DECLARATION" /\ (Over(d, t) \/ p \in LapsedHolds(d, t))
    BY DEF HoldsToRelease, LapsedHolds, FirstOf, WithStatus
  <1> QED BY <1>1 DEF Spared, LapsedHolds

LEMMA ExpireStaleHoldsTreats ==
    ASSUME NEW d, GoodRows(d), NEW t \in Time, NEW wanting, NEW channel, NEW x
    PROVE  Treats(d, ExpireStaleHolds(d, t, wanting, channel), x, t)
  <1> DEFINE c == ExpireByClock(d, t)
             gone == HoldsToRelease(c, t, wanting, channel)
             freed == ReleaseHolds(c, gone)
             after == AfterDeadlineRelease(freed)
  <1>1. GoodRows(c) /\ Treats(d, c, x, t)
    BY ExpireByClockGood, ExpireByClockTreats
  <1>2. \A p \in gone : c.reg[p].status = "PENDING_DECLARATION" /\ ~Spared(c, p, t)
    BY ReleasedAreNotSpared
  <1>3. /\ ExpireStaleHolds(d, t, wanting, channel) \in {freed, after}
        /\ ~ReleaseDue(d, t) => ExpireStaleHolds(d, t, wanting, channel) = freed
    BY DEF ExpireStaleHolds, ReleaseWanted
  <1>9. c.ev = d.ev
    BY DEF ExpireByClock, GoodRows, Database
  <1> HIDE DEF c, gone
  <1>4. /\ freed.ev = c.ev /\ freed.mail = c.mail /\ freed.inv = c.inv
        /\ \A p \in Person : freed.reg[p] =
               IF p \in gone THEN [Moved(c.reg[p], "EXPIRED", None) EXCEPT !.late = TRUE]
               ELSE c.reg[p]
    BY <1>1 DEF ReleaseHolds, GoodRows, Database
  <1>5. GoodRows(freed)
    BY <1>1, ReleaseHoldsGood
  <1> HIDE DEF freed
  <1>6. Treats(c, freed, x, t)
    <2>1. ASSUME NEW p \in Person, p \in gone
          PROVE  /\ RowSwept(c.reg[p], freed.reg[p], t)
                 /\ freed.reg[p].status \notin LineStatus \cup {"PENDING_DECLARATION"}
      <3>1. c.reg[p] \in Registration
        BY <1>1, RowsAre
      <3>2. freed.reg[p] = [Moved(c.reg[p], "EXPIRED", None) EXCEPT !.late = TRUE]
        BY <1>4, <2>1
      <3>3. freed.reg[p].status = "EXPIRED" /\ freed.reg[p].outside = c.reg[p].outside
        BY <3>1, <3>2 DEF Moved, Registration
      <3> QED BY <1>2, <2>1, <3>3 DEF RowSwept, Moving, LineStatus
    <2> QED BY <1>2, <1>4, <2>1, TreatsRows
  <1>7. ASSUME ReleaseDue(d, t) PROVE Treats(freed, after, x, t)
    <2>1. /\ after.ev.status = freed.ev.status /\ after.reg = freed.reg
          /\ after.mail = freed.mail /\ after.inv = freed.inv
          /\ after.ev.capacity = freed.ev.capacity
      BY <1>5 DEF AfterDeadlineRelease, GoodRows, Database, StoredEvent
    <2>2. ReleaseDue(freed, t)
      BY <1>4, <1>7, <1>9 DEF ReleaseDue
    <2> HIDE DEF after
    <2>3. RulesStand(freed, after, t)
      BY <2>1, <2>2 DEF RulesStand
    <2> QED BY <2>1, <2>3, TreatsOthers
  <1>8. Treats(d, freed, x, t)
    BY <1>1, <1>6, TreatsTwice
  <1> QED BY <1>3, <1>7, <1>8, TreatsTwice

LEMMA ExpiredTreats ==
    ASSUME NEW d, GoodRows(d), NEW t \in Time, NEW x
    PROVE  Treats(d, Expired(d, t), x, t)
  BY ExpireStaleHoldsTreats DEF Expired

\* Whoever waits longer than one of the first is one of the first.
LEMMA FirstOfInOrder ==
    ASSUME NEW S, IsFiniteSet(S), S \subseteq Nat, NEW n \in Nat, NEW key, \A p \in S : key[p] \in Nat,
           NEW p \in FirstOf(S, n, key), NEW q \in S, Before(q, p, key)
    PROVE  q \in FirstOf(S, n, key)
  <1> DEFINE ahead(r) == {s \in S : Before(s, r, key)}
  <1>1. \A r \in S : r \in FirstOf(S, n, key) <=> Cardinality(ahead(r)) < n
    BY DEF FirstOf, Before
  <1>2. p \in S
    BY DEF FirstOf
  <1>3. ahead(q) \subseteq ahead(p)
    <2> SUFFICES ASSUME NEW s \in S, Before(s, q, key) PROVE Before(s, p, key)
      OBVIOUS
    <2>1. s \in Nat /\ p \in Nat /\ q \in Nat /\ key[s] \in Nat /\ key[p] \in Nat /\ key[q] \in Nat
      BY <1>2
    <2> QED BY <2>1 DEF Before
  <1>4. IsFiniteSet(ahead(p)) /\ IsFiniteSet(ahead(q))
    BY FS_Subset
  <1>5. Cardinality(ahead(q)) <= Cardinality(ahead(p))
    BY <1>3, <1>4, FS_Subset
  <1>6. Cardinality(ahead(q)) \in Nat /\ Cardinality(ahead(p)) \in Nat
    BY <1>4, FS_CardinalityType
  <1> HIDE DEF ahead
  <1> QED BY <1>1, <1>2, <1>5, <1>6

LEMMA OccupiedIsCounted ==
    ASSUME NEW d, NEW t
    PROVE  Occupied(d, t) \in Nat
  <1>1. Taken(d, t) \in SUBSET Claims(d, t)
    BY DEF Taken, Claims, OpenOffer
  <1> QED BY <1>1, ClaimsFinite, FS_Subset, FS_CardinalityType DEF Occupied

\* A sweep leaves no release to come.
LEMMA ExpiredNotDue ==
    ASSUME NEW d, GoodRows(d), NEW t \in Time
    PROVE  ~ReleaseDue(Expired(d, t), t)
  <1> DEFINE c == ExpireByClock(d, t)
             freed == ReleaseWanted(c, t, 0, "staff")
             e == Expired(d, t)
  <1>1. c.ev = d.ev /\ GoodRows(c)
    BY ExpireByClockGood DEF ExpireByClock, GoodRows, Database
  <1> HIDE DEF c
  <1>2. freed.ev = c.ev /\ GoodRows(freed)
    <2>1. GoodRows(freed)
      BY <1>1, ReleaseHoldsGood DEF ReleaseWanted
    <2>2. freed.ev = c.ev
      BY <1>1 DEF ReleaseWanted, ReleaseHolds, GoodRows, Database
    <2> QED BY <2>1, <2>2
  <1>3. e = IF ReleaseDue(d, t) THEN AfterDeadlineRelease(freed) ELSE freed
    BY DEF Expired, ExpireStaleHolds, c
  <1> HIDE DEF freed, e
  <1>4. CASE ReleaseDue(d, t)
    <2>1. e.ev.released
      BY <1>2, <1>3, <1>4 DEF AfterDeadlineRelease, GoodRows, Database, StoredEvent
    <2>2. ~ReleaseDue(e, t)
      BY <2>1 DEF ReleaseDue, DeadlineReleaseDue
    <2> QED BY <2>2 DEF e
  <1>5. CASE ~ReleaseDue(d, t)
    <2>1. ~ReleaseDue(e, t)
      BY <1>1, <1>2, <1>3, <1>5 DEF ReleaseDue
    <2> QED BY <2>1 DEF e
  <1> QED BY <1>4, <1>5

LEMMA OfferPlacesTreats ==
    ASSUME NEW d, GoodRows(d), NEW t \in Time, NEW x, ~ReleaseDue(d, t)
    PROVE  Treats(d, OfferPlaces(d, t), x, t)
  <1>1. CASE ~OffersNow(d.ev, t)
    BY <1>1, TreatsAll DEF OfferPlaces
  <1>2. CASE OffersNow(d.ev, t)
    <2> DEFINE people == NextInLine(d, t)
               until == WaitlistOfferExpiry(t, CloseAt)
               e == OfferPlaces(d, t)
    <2>1. people \in SUBSET Waiting(d) /\ people \in SUBSET Person
      BY NextInLineWaits
    <2>2. until \in Deadline /\ until # None /\ until > t /\ until \in Nat /\ t \in Nat
      BY <1>2, HoldsEndByTheStart, DeadlineRange DEF OffersNow
    <2>3. e = Queued(Offered(d, people, until), people, "offer", t)
      BY <1>2 DEF OfferPlaces, OfferTo
    <2>4. ASSUME NEW p \in people, NEW q \in Waiting(d), Before(q, p, Since(d)) PROVE q \in people
      <3> DEFINE S == Waiting(d)
                 n == PlacesForLine(d, t)
      <3>1. S \subseteq Person /\ IsFiniteSet(S) /\ S \subseteq Nat
        BY NextInLineWaits, PersonAssumption, FS_Subset
      <3>2. n \in Nat
        <4>1. CASE d.ev.capacity = None
          BY <3>1, <4>1, FS_CardinalityType DEF PlacesForLine
        <4>2. CASE d.ev.capacity # None
          <5>1. d.ev.capacity \in Nat /\ d.ev.kept \in Nat
            BY <4>2, CapacityRange
          <5>2. Occupied(d, t) \in Nat
            BY OccupiedIsCounted
          <5> QED BY <4>2, <5>1, <5>2 DEF PlacesForLine, LineRoom, KeptOf, Least, Greatest
        <4> QED BY <4>1, <4>2
      <3>3. \A r \in S : Since(d)[r] \in Nat
        <4> SUFFICES ASSUME NEW r \in S PROVE Since(d)[r] \in Nat
          OBVIOUS
        <4>1. r \in Person /\ d.reg[r].status = "WAITLISTED"
          BY DEF Waiting, WithStatus
        <4>2. d.reg[r].since \in Time
          BY <4>1, RowsAre DEF Registration, WellFormed
        <4> QED BY <4>1, <4>2, DeadlineRange DEF Since
      <3>4. people = FirstOf(S, n, Since(d))
        BY DEF NextInLine, Since
      <3> HIDE DEF S, n, people
      <3>5. q \in S
        BY DEF S
      <3> QED BY <2>4, <3>1, <3>2, <3>3, <3>4, <3>5, FirstOfInOrder
    <2> HIDE DEF people, until, e
    <2>5. /\ e.ev = d.ev /\ e.inv = d.inv /\ d.mail \subseteq e.mail
          /\ \A p \in Person : e.reg[p] =
                 IF p \in people THEN Moved(d.reg[p], "WAITLIST_OFFERED", until) ELSE d.reg[p]
      <3>1. "offer" \in MailKind
        BY DEF MailKind
      <3> QED BY <2>1, <2>2, <2>3, <3>1, OfferedRows
    <2>6. ASSUME NEW p \in people
          PROVE  /\ d.reg[p].status = "WAITLISTED" /\ ~d.reg[p].outside
                 /\ e.reg[p].status = "WAITLIST_OFFERED" /\ e.reg[p].hold = until
                 /\ e.reg[p].outside = d.reg[p].outside
      <3>1. d.reg[p] \in Registration /\ d.reg[p].status = "WAITLISTED" /\ ~d.reg[p].outside
        BY <2>1, RowsAre DEF Waiting, WithStatus
      <3>2. e.reg[p] = Moved(d.reg[p], "WAITLIST_OFFERED", until)
        BY <2>1, <2>5
      <3> QED BY <3>1, <3>2 DEF Moved, Registration
    <2>7. ASSUME NEW p \in Person PROVE RowTreated(d, e, p, t)
      <3>1. CASE p \in people
        <4>1. RowSwept(d.reg[p], e.reg[p], t)
          BY <2>6, <3>1 DEF RowSwept, Moving
        <4>2. Spared(d, p, t) => Spared(e, p, t)
          BY <2>2, <2>5, <2>6, <3>1 DEF Spared, Over, Past
        <4> QED BY <2>5, <2>6, <3>1, <4>1, <4>2 DEF RowTreated, LineStatus
      <3>2. CASE p \notin people
        <4>1. e.reg[p] = d.reg[p]
          BY <2>5, <3>2
        <4>2. Spared(d, p, t) => Spared(e, p, t)
          BY <2>5, <4>1, SparedByEmail
        <4> QED BY <2>5, <4>1, <4>2 DEF RowTreated, RowSwept, LineStatus
      <3> QED BY <3>1, <3>2
    <2>8. ASSUME NEW p \in Person, NEW q \in Person, Behind(d, p, q) PROVE Behind(e, p, q)
      <3>1. \A r \in Person : r \in Waiting(e) =>
                r \notin people /\ r \in Waiting(d) /\ Since(e)[r] = Since(d)[r]
        BY <2>5, <2>6 DEF Waiting, WithStatus, Since
      <3>2. ASSUME e.reg[p].status = "WAITLIST_OFFERED", q \in Waiting(e) PROVE FALSE
        <4>1. CASE p \in people
          <5>1. p \in Waiting(d) /\ q \in Waiting(d) /\ q \notin people
            BY <2>1, <3>1, <3>2, <4>1
          <5>2. Before(q, p, Since(d))
            BY <2>8, <5>1 DEF Behind
          <5> QED BY <2>4, <4>1, <5>1, <5>2
        <4>2. CASE p \notin people
          BY <2>5, <2>8, <3>1, <3>2, <4>2 DEF Behind
        <4> QED BY <4>1, <4>2
      <3>3. p \in Waiting(e) /\ q \in Waiting(e) => Before(q, p, Since(e))
        BY <2>8, <3>1 DEF Behind, Before
      <3> QED BY <3>2, <3>3 DEF Behind
    <2>9. e.ev.status = d.ev.status /\ RulesStand(d, e, t)
      BY <2>5, SameRules
    <2>10. ~ReleaseDue(e, t) /\ ~ClubGives(e)
      BY <1>2, <2>5 DEF ReleaseDue, ClubGives, OffersNow, OffersOnItsOwn
    <2>11. Treats(d, e, x, t)
      BY <2>5, <2>7, <2>8, <2>9, <2>10 DEF Treats, OffersAreOpen
    <2> QED BY <2>11 DEF e
  <1> QED BY <1>1, <1>2

LEMMA FillAvailableSpotsTreats ==
    ASSUME NEW d, GoodRows(d), NEW t \in Time, NEW x
    PROVE  Treats(d, FillAvailableSpots(d, t), x, t)
  <1>1. GoodRows(Expired(d, t)) /\ Treats(d, Expired(d, t), x, t)
    BY ExpiredGood, ExpiredTreats
  <1>2. Treats(Expired(d, t), OfferPlaces(Expired(d, t), t), x, t)
    BY <1>1, ExpiredNotDue, OfferPlacesTreats
  <1> QED BY <1>1, <1>2, TreatsAll, TreatsTwice DEF FillAvailableSpots

LEMMA ServedTreats ==
    ASSUME NEW d, GoodRows(d), NEW t \in Time, NEW x
    PROVE  Treats(d, Served(d, t), x, t)
  BY ExpiredGood, ExpiredTreats, FillAvailableSpotsTreats, TreatsTwice DEF Served

-----------------------------------------------------------------------------
LEMMA NobodyIsNobody ==
    Person \ {None} = Person
  <1>1. \A p \in Person : p \in Int
    BY PersonAssumption
  <1> QED BY <1>1, NoneAssumption

\* A place given while the registration is open is one to sign for.
LEMMA HoldLasts ==
    ASSUME NEW t \in Nat
    PROVE  /\ t < StartAt => VouchedPlaceExpiry(t) > t
           /\ \A how \in Way : t < CloseAt => HoldFor(how, t) > t
  <1>1. /\ CloseAt \in Nat /\ StartAt \in Nat /\ CloseAt <= StartAt /\ HoldTime \in Nat /\ HoldTime > 0
        /\ BeforeWindow(t) => WindowDeadline \in Nat /\ WindowDeadline > t
        /\ WindowOpens # None => WindowDeadline \in Nat
    BY DatesAssumption, DeadlinesAssumption, NoneAssumption DEF BeforeWindow
  <1>2. \A close \in {CloseAt, StartAt} : t < close => DeclarationHoldExpiry(t, close) > t
    BY <1>1 DEF DeclarationHoldExpiry, CapHoldExpiry, Least
  <1>3. BeforeWindow(t) => DeclarationHoldExpiry(t, CloseAt) = Least(WindowDeadline, StartAt)
    BY DEF DeclarationHoldExpiry
  <1>4. t < StartAt => VouchedPlaceExpiry(t) > t
    BY <1>1, <1>3 DEF VouchedPlaceExpiry, Least
  <1>5. ASSUME NEW how \in Way, t < CloseAt PROVE HoldFor(how, t) > t
    <2>1. t < StartAt
      BY <1>1, <1>5
    <2> QED BY <1>2, <1>4, <1>5, <2>1 DEF HoldFor
  <1> QED BY <1>4, <1>5

LEMMA PlaceGiven ==
    ASSUME NEW d, GoodRows(d), NEW x \in Person, NEW t, NEW hold \in Deadline,
           NEW e, e = WithPlace(d, x, hold)
    PROVE  /\ GoodRows(e) /\ Treats(d, e, x, t) /\ e.inv = d.inv /\ e.mail = d.mail
           /\ e.reg[x].status = "PENDING_DECLARATION" /\ e.reg[x].hold = hold
           /\ e.reg[x].outside = d.reg[x].outside
  <1> DEFINE r == Moved(d.reg[x], "PENDING_DECLARATION", hold)
  <1>1. e = [d EXCEPT !.reg[x] = r]
    BY DEF WithPlace
  <1>2. r.status = "PENDING_DECLARATION" /\ r.hold = hold /\ r.outside = d.reg[x].outside
    BY RowsAre DEF Moved, Registration
  <1> HIDE DEF r
  <1>3. /\ e.ev = d.ev /\ e.mail = d.mail /\ e.inv = d.inv
        /\ e.reg[x] = r /\ \A q \in Person \ {x} : e.reg[q] = d.reg[q]
    BY <1>1, RowReplaced
  <1>4. Treats(d, e, x, t)
    BY <1>3, TreatsOthers
  <1> QED BY <1>2, <1>3, <1>4, WithPlaceGood

\* Nobody else's row, and nothing of their email.
LEMMA InvitationLeaves ==
    ASSUME NEW d, GoodRows(d), NEW x \in Person, NEW i \in Invitation \cup {None}, NEW t,
           NEW e, e = [d EXCEPT !.inv[x] = i]
    PROVE  /\ GoodRows(e) /\ Treats(d, e, x, t) /\ e.ev = d.ev /\ e.reg = d.reg /\ e.mail = d.mail
           /\ e.inv[x] = i
  <1>1. GoodRows(e)
    BY NewInvitation
  <1>2. /\ e.ev = d.ev /\ e.reg = d.reg /\ e.mail = d.mail
        /\ e.inv[x] = i /\ \A q \in Person \ {x} : e.inv[q] = d.inv[q]
    BY DEF GoodRows, Database
  <1>3. Treats(d, e, x, t)
    BY <1>2, TreatsOthers
  <1> QED BY <1>1, <1>2, <1>3

LEMMA InvitationGone ==
    ASSUME NEW d, GoodRows(d), NEW x \in Person, NEW t, NEW e, e = [d EXCEPT !.inv[x] = None]
    PROVE  /\ GoodRows(e) /\ Treats(d, e, x, t) /\ e.ev = d.ev /\ e.reg = d.reg /\ e.mail = d.mail
           /\ e.inv[x] = None
  <1>1. e.inv[x] = None
    BY DEF GoodRows, Database
  <1>2. GoodRows(e) /\ Treats(d, e, x, t) /\ e.ev = d.ev /\ e.reg = d.reg /\ e.mail = d.mail
    BY InvitationLeaves
  <1> QED BY <1>1, <1>2

\* What a row is after the sweep and the line: those who act have one too.
LEMMA FilledRow ==
    ASSUME NEW d, GoodRows(d), NEW x \in Person, NEW t \in Time
    PROVE  /\ RowTreated(d, Expired(d, t), x, t)
           /\ RowTreated(d, FillAvailableSpots(d, t), x, t)
           /\ RowTreated(d, Served(d, t), x, t)
           /\ \A wanting, channel : RowTreated(d, ExpireStaleHolds(d, t, wanting, channel), x, t)
  BY ExpiredTreats, FillAvailableSpotsTreats, ServedTreats, ExpireStaleHoldsTreats, NobodyIsNobody
     DEF Treats

\* Whoever adopts their invitation's place has it, or has lost it again in that instant.
AdoptedPlace(d, e, x, t, hold) ==
    /\ e.inv[x] = None /\ e.reg[x].status \in {"PENDING_DECLARATION", "EXPIRED"}
    /\ ~Over(d, t) /\ hold > t => e.reg[x].status = "PENDING_DECLARATION"

LEMMA GivenPlaceTreats ==
    ASSUME NEW d, GoodRows(d), NEW x \in Person, NEW t \in Time, NEW how \in Way,
           NEW adopts \in BOOLEAN, NEW e, e = GivenPlace(d, x, t, how, adopts)
    PROVE  /\ Treats(d, e, x, t)
           /\ adopts => AdoptedPlace(d, e, x, t, HoldFor(how, t))
           /\ ~adopts => e.reg[x].status = "PENDING_DECLARATION" /\ e.inv[x] = d.inv[x]
           /\ e.reg[x].outside = d.reg[x].outside
  <1> DEFINE hold == HoldFor(how, t)
             c == WithPlace(d, x, hold)
             f == [c EXCEPT !.inv[x] = None]
  <1>1. hold \in Deadline /\ hold \in Nat /\ t \in Nat /\ hold # None
    BY HoldForRange, DeadlineRange
  <1>2. e = IF adopts THEN FillAvailableSpots(f, t) ELSE c
    BY DEF GivenPlace
  <1> HIDE DEF hold
  <1>3. /\ GoodRows(c) /\ Treats(d, c, x, t) /\ c.inv = d.inv
        /\ c.reg[x].status = "PENDING_DECLARATION" /\ c.reg[x].hold = hold
        /\ c.reg[x].outside = d.reg[x].outside
    BY <1>1, PlaceGiven
  <1> HIDE DEF c
  <1>4. CASE ~adopts
    BY <1>2, <1>3, <1>4
  <1>5. CASE adopts
    <2> HIDE DEF c
    <2>0. f = [c EXCEPT !.inv[x] = None]
      OBVIOUS
    <2> HIDE DEF f
    <2>1. GoodRows(f) /\ Treats(c, f, x, t) /\ f.ev = c.ev /\ f.reg = c.reg /\ f.inv[x] = None
      <3>1. GoodRows(c)
        BY <1>3
      <3> QED BY <2>0, <3>1, InvitationGone
    <2>2. e = FillAvailableSpots(f, t)
      BY <1>2, <1>5 DEF f
    <2>3. Treats(f, e, x, t) /\ RowTreated(f, e, x, t)
      BY <2>1, <2>2, FillAvailableSpotsTreats, FilledRow
    <2>4. Treats(d, e, x, t)
      BY <1>3, <2>1, <2>3, TreatsTwice
    <2>5. e.inv[x] = None /\ e.reg[x].status \in {"PENDING_DECLARATION", "EXPIRED"}
      BY <1>3, <2>1, <2>3 DEF RowTreated, RowSwept, Moving, LineStatus
    <2>6. ASSUME ~Over(d, t), hold > t PROVE e.reg[x].status = "PENDING_DECLARATION"
      <3>1. ~Over(f, t)
        BY <1>3, <2>1, <2>6 DEF Over, Treats
      <3>2. Spared(f, x, t)
        BY <1>1, <1>3, <2>1, <2>6, <3>1 DEF Spared, Past
      <3> QED BY <2>3, <2>5, <3>2 DEF RowTreated, Spared
    <2>7. e.reg[x].outside = d.reg[x].outside
      BY <1>3, <2>1, <2>3 DEF RowTreated, RowSwept
    <2> QED BY <1>5, <2>4, <2>5, <2>6, <2>7 DEF AdoptedPlace, hold
  <1> QED BY <1>4, <1>5

LEMMA InLineTreats ==
    ASSUME NEW d, GoodRows(d), NEW x \in Person, NEW t \in Time,
           NEW e, e = FillAvailableSpots(InLine(d, x, t), t)
    PROVE  /\ Treats(d, e, x, t) /\ e.reg[x].status \in Moving /\ e.inv[x] \in {None, d.inv[x]}
           /\ e.reg[x].outside = d.reg[x].outside /\ e.reg[x].status # "PENDING_DECLARATION"
           /\ e.reg[x].status = "WAITLIST_OFFERED" => TakesNoTurn(d, e, x, t)
  <1> DEFINE r == [Moved(d.reg[x], "WAITLISTED", None) EXCEPT !.since = t]
             c == InLine(d, x, t)
  <1>1. c = [d EXCEPT !.reg[x] = r] /\ GoodRows(c)
    BY InLineGood DEF InLine
  <1>2. r.status = "WAITLISTED" /\ r.since = t /\ r.outside = d.reg[x].outside
    BY RowsAre DEF Moved, Registration
  <1> HIDE DEF c, r
  <1>3. /\ c.ev = d.ev /\ c.mail = d.mail /\ c.inv = d.inv
        /\ c.reg[x] = r /\ \A q \in Person \ {x} : c.reg[q] = d.reg[q]
    BY <1>1, RowReplaced
  <1>4. Treats(d, c, x, t)
    BY <1>3, TreatsOthers
  <1>5. Treats(c, e, x, t) /\ RowTreated(c, e, x, t)
    BY <1>1, FillAvailableSpotsTreats, FilledRow DEF c
  <1>6. e.reg[x].status \in Moving /\ e.inv[x] \in {None, d.inv[x]}
    BY <1>2, <1>3, <1>5 DEF RowTreated, RowSwept, Moving
  <1>7. e.reg[x].outside = d.reg[x].outside /\ e.reg[x].status # "PENDING_DECLARATION"
    BY <1>2, <1>3, <1>5 DEF RowTreated, RowSwept
  <1>8. ASSUME e.reg[x].status = "WAITLIST_OFFERED" PROVE TakesNoTurn(d, e, x, t)
    <2> SUFFICES ASSUME NEW q \in Waiting(d) \ {x}, q \in Waiting(e),
                        d.reg[q].since < t \/ (d.reg[q].since = t /\ q < x)
                 PROVE  FALSE
      BY DEF TakesNoTurn
    <2>1. q \in Person /\ q # x /\ c.reg[q] = d.reg[q]
      BY <1>3 DEF Waiting, WithStatus
    <2>2. Before(q, x, Since(c))
      BY <1>2, <1>3, <2>1 DEF Before, Since
    <2>3. Behind(c, x, q)
      BY <1>2, <1>3, <2>2 DEF Behind
    <2>4. Treats(c, e, None, t)
      BY <1>1, FillAvailableSpotsTreats DEF c
    <2>5. Behind(e, x, q)
      BY <2>1, <2>3, <2>4, NobodyIsNobody DEF Treats
    <2> QED BY <1>8, <2>5 DEF Behind
  <1> QED BY <1>4, <1>5, <1>6, <1>7, <1>8, TreatsTwice

\* A newcomer who does not join the line finds nobody in it.
LEMMA NobodyWaits ==
    ASSUME NEW d, NEW ev, NEW channel, ~NewcomerJoinsLine(ev, Cardinality(Waiting(d)), channel),
           NEW e, NEW x, NEW t
    PROVE  TakesNoTurn(d, e, x, t)
  <1>1. IsFiniteSet(Waiting(d))
    BY PersonAssumption, FS_Subset DEF Waiting, WithStatus
  <1>2. Cardinality(Waiting(d)) \in Nat /\ (Cardinality(Waiting(d)) = 0 <=> Waiting(d) = {})
    BY <1>1, FS_CardinalityType, FS_EmptySet
  <1>3. Waiting(d) = {}
    BY <1>2 DEF NewcomerJoinsLine
  <1> QED BY <1>3 DEF TakesNoTurn

LEMMA PlacedOrQueuedTreats ==
    ASSUME NEW d, GoodRows(d), NEW x \in Person, NEW t \in Time, NEW how \in Way,
           NEW direct, NEW adopts \in BOOLEAN, adopts => direct,
           NEW e \in PlacedOrQueued(d, x, t, how, direct, adopts)
    PROVE  /\ Treats(d, e, x, t) /\ e.reg[x].status \in Moving /\ e.inv[x] \in {None, d.inv[x]}
           /\ adopts => AdoptedPlace(d, e, x, t, HoldFor(how, t))
           /\ direct /\ ~adopts => e.reg[x].status = "PENDING_DECLARATION"
           /\ e.reg[x].outside = d.reg[x].outside
           /\ ~direct /\ e.reg[x].status \in {"PENDING_DECLARATION", "WAITLIST_OFFERED"}
              => TakesNoTurn(d, e, x, t)
  <1>1. CASE direct \/ FreeFor(d, t, how.channel)
    <2>1. e = GivenPlace(d, x, t, how, adopts)
      BY <1>1 DEF PlacedOrQueued
    <2>2. ~direct => TakesNoTurn(d, e, x, t)
      BY <1>1, NobodyWaits DEF FreeFor
    <2> QED BY <2>1, <2>2, GivenPlaceTreats DEF Moving, AdoptedPlace
  <1>2. CASE ~(direct \/ FreeFor(d, t, how.channel)) /\ LineTakesOneMore(d, t)
    <2>1. e = FillAvailableSpots(InLine(d, x, t), t)
      BY <1>2 DEF PlacedOrQueued
    <2> QED BY <1>2, <2>1, InLineTreats
  <1>3. CASE ~(direct \/ FreeFor(d, t, how.channel)) /\ ~LineTakesOneMore(d, t)
    <2> DEFINE after == ExpireStaleHolds(d, t, 1, how.channel)
    <2>1. PICK no \in BOOLEAN : ~no /\ e = GivenPlace(after, x, t, how, no)
      <3>1. e = GivenPlace(after, x, t, how, FALSE)
        BY <1>3 DEF PlacedOrQueued, PlaceOfLapsedHold
      <3> QED BY <3>1
    <2>2. GoodRows(after) /\ Treats(d, after, x, t) /\ RowTreated(d, after, x, t)
      BY ExpireStaleHoldsGood, ExpireStaleHoldsTreats, FilledRow
    <2> HIDE DEF after
    <2>3. /\ Treats(after, e, x, t) /\ e.reg[x].status = "PENDING_DECLARATION"
          /\ e.inv[x] = after.inv[x] /\ e.reg[x].outside = after.reg[x].outside
      BY <2>1, <2>2, GivenPlaceTreats
    <2>4. /\ Treats(d, e, x, t) /\ e.inv[x] \in {None, d.inv[x]}
          /\ e.reg[x].outside = d.reg[x].outside
      BY <2>2, <2>3, TreatsTwice DEF RowTreated, RowSwept
    <2>5. TakesNoTurn(d, e, x, t)
      <3>1. ~NewcomerJoinsLine(d.ev, Cardinality(Waiting(d)), how.channel)
        BY <1>3 DEF PlacedOrQueued, PlaceOfLapsedHold, FreeAfterRelease
      <3> QED BY <3>1, NobodyWaits
    <2> QED BY <1>3, <2>3, <2>4, <2>5 DEF Moving
  <1> QED BY <1>1, <1>2, <1>3

\* What the allocator makes of whoever it takes up.
Placed(d, e, x, t, how) ==
    LET adopts == ~how.invited /\ Adopts(d, x, t)
    IN  /\ Treats(d, e, x, t) /\ e.reg[x].status \in Moving /\ e.inv[x] \in {None, d.inv[x]}
        /\ adopts => AdoptedPlace(d, e, x, t, HoldFor(how, t))
        /\ ~adopts /\ HasOwnPlace(d, x, t, how) => e.reg[x].status = "PENDING_DECLARATION"
        /\ d.reg[x].outside \/ (adopts /\ d.inv[x].outside) => e.reg[x].outside
        /\ (/\ ~adopts /\ ~HasOwnPlace(d, x, t, how)
            /\ e.reg[x].status \in {"PENDING_DECLARATION", "WAITLIST_OFFERED"})
           => TakesNoTurn(d, e, x, t)

LEMMA AllocatedTreats ==
    ASSUME NEW d, GoodRows(d), NEW x \in Person, NEW t \in Time, NEW how \in Way,
           NEW e \in Allocated(d, x, t, how)
    PROVE  GoodRows(e) /\ Placed(d, e, x, t, how)
  <1> DEFINE adopts == ~how.invited /\ Adopts(d, x, t)
             mine == Claiming(d, x, adopts)
             served == Served(mine, t)
             direct == adopts \/ HasOwnPlace(mine, x, t, how)
  <1>1. e \in PlacedOrQueued(served, x, t, how, direct, adopts)
    BY DEF Allocated
  <1>2. GoodRows(mine)
    BY ClaimingGood DEF Adopts, LiveInvitation
  <1>3. adopts \in BOOLEAN
    OBVIOUS
  <1>4. /\ mine.ev = d.ev /\ mine.mail = d.mail /\ mine.inv = d.inv
        /\ \A q \in Person \ {x} : mine.reg[q] = d.reg[q]
        /\ mine.reg[x] = [d.reg[x] EXCEPT !.outside = @ \/ (adopts /\ d.inv[x].outside)]
    BY DEF Claiming, GoodRows, Database
  <1>5. adopts => direct
    OBVIOUS
  <1>6. ~adopts /\ HasOwnPlace(d, x, t, how) => direct
    <2>1. /\ mine.reg[x].status = d.reg[x].status /\ mine.reg[x].hold = d.reg[x].hold
          /\ d.reg[x].outside => mine.reg[x].outside
      BY <1>4, RowsAre DEF Registration
    <2> QED BY <2>1 DEF HasOwnPlace, HoldsFamilyReservation
  <1>7. adopts <=> ~how.invited /\ Adopts(d, x, t)
    OBVIOUS
  <1>a. d.reg[x].outside \/ (adopts /\ d.inv[x].outside) => mine.reg[x].outside
    BY <1>4, RowsAre DEF Registration
  <1>b. ~adopts /\ ~HasOwnPlace(d, x, t, how) => ~direct
    <2> SUFFICES ASSUME ~adopts, direct PROVE HasOwnPlace(d, x, t, how)
      OBVIOUS
    <2>1. /\ mine.reg[x].status = d.reg[x].status /\ mine.reg[x].hold = d.reg[x].hold
          /\ mine.reg[x].outside => d.reg[x].outside
      BY <1>4, RowsAre DEF Registration
    <2> QED BY <2>1 DEF HasOwnPlace, HoldsFamilyReservation
  <1>8. GoodRows(served) /\ Treats(mine, served, x, t) /\ RowTreated(mine, served, x, t)
    BY <1>2, ServedGood, ServedTreats, FilledRow
  <1> HIDE DEF adopts, mine, served, direct
  <1>9. Treats(d, mine, x, t)
    BY <1>4, TreatsOthers
  <1>10. /\ Treats(served, e, x, t) /\ e.reg[x].status \in Moving
         /\ e.inv[x] \in {None, served.inv[x]}
         /\ adopts => AdoptedPlace(served, e, x, t, HoldFor(how, t))
         /\ direct /\ ~adopts => e.reg[x].status = "PENDING_DECLARATION"
         /\ e.reg[x].outside = served.reg[x].outside
         /\ ~direct /\ e.reg[x].status \in {"PENDING_DECLARATION", "WAITLIST_OFFERED"}
            => TakesNoTurn(served, e, x, t)
    BY <1>1, <1>3, <1>5, <1>8, PlacedOrQueuedTreats
  <1>11. Treats(d, e, x, t)
    BY <1>8, <1>9, <1>10, TreatsTwice
  <1>12. e.inv[x] \in {None, d.inv[x]}
    BY <1>4, <1>8, <1>10 DEF RowTreated
  <1>13. Over(served, t) <=> Over(d, t)
    BY <1>4, <1>8 DEF Treats, Over
  <1>14. adopts => AdoptedPlace(d, e, x, t, HoldFor(how, t))
    BY <1>10, <1>13 DEF AdoptedPlace
  <1>15. d.reg[x].outside \/ (adopts /\ d.inv[x].outside) => e.reg[x].outside
    BY <1>8, <1>10, <1>a DEF RowTreated, RowSwept
  <1>16. TakesNoTurn(served, e, x, t) => TakesNoTurn(d, e, x, t)
    <2>1. Treats(d, served, x, t)
      BY <1>8, <1>9, TreatsTwice
    <2> QED BY <1>10, <2>1, TurnAfter
  <1> QED BY <1>6, <1>7, <1>10, <1>11, <1>12, <1>14, <1>15, <1>16, <1>b, AllocatedGood DEF Placed

\* The email of the row as it was placed.
LEMMA AllocatedWithEmailTreats ==
    ASSUME NEW d, GoodRows(d), NEW x \in Person, NEW t \in Time, NEW how \in Way,
           NEW e \in AllocatedWithEmail(d, x, t, how)
    PROVE  GoodRows(e) /\ Placed(d, e, x, t, how)
  <1>1. PICK c \in Allocated(d, x, t, how) : e = AllocationEmail(c, x, t)
    BY DEF AllocatedWithEmail
  <1>2. GoodRows(c) /\ Placed(d, c, x, t, how)
    BY AllocatedTreats
  <1>3. e.ev = c.ev /\ e.reg = c.reg /\ e.inv = c.inv /\ c.mail \subseteq e.mail
    <2>1. e \in {c, Queued(c, {x}, "declaration", t)}
      BY <1>1 DEF AllocationEmail
    <2> QED BY <1>2, <2>1, QueuedOnly
  <1>4. Treats(c, e, x, t)
    BY <1>3, TreatsOthers
  <1>5. Treats(d, e, x, t)
    BY <1>2, <1>4, TreatsTwice DEF Placed
  <1>6. TakesNoTurn(d, c, x, t) => TakesNoTurn(d, e, x, t)
    BY <1>4, TurnBefore
  <1> QED BY <1>1, <1>2, <1>3, <1>5, <1>6, AllocationEmailGood DEF Placed, AdoptedPlace

-----------------------------------------------------------------------------
(***************************************************************************)
(* What a step keeps of what was promised.                                 *)
(***************************************************************************)
NoPlace == Terminal \cup {"ABSENT", "PENDING_EMAIL_CONFIRMATION"}

\* A place reserved in a sitting ends by the close.
ReservationsEndByClose(d) ==
    \A p \in Person :
        d.reg[p].status = "PENDING_EMAIL_CONFIRMATION" /\ d.reg[p].hold # None
        => d.reg[p].hold <= CloseAt

\* An invitation stays open only for those who have no other place, and no place in the line.
InvitedHaveNoPlace(d, t) ==
    \A p \in Person : LiveInvitation(d, p, t) => d.reg[p].status \in NoPlace

Promises == SendFits /\ ReservationsEndByClose(db) /\ InvitedHaveNoPlace(db, now)

\* Whoever comes by a place from outside the line takes nobody's turn, but by the club's hand.
HonestTurn(e, p) ==
    (/\ ~HasClaim(db, p, now) /\ db.reg[p].status # "WAITLISTED"
     /\ e.reg[p].status \in {"PENDING_DECLARATION", "CONFIRMED"} /\ ~e.reg[p].outside)
    => TakesNoTurn(db, e, p, now) \/ GivePlaceNow(p) \/ SetOutside(p, FALSE)

HonestRow(e, p) ==
    /\ HonestTurn(e, p)
    /\ db.reg[p].status \in {"PENDING_DECLARATION", "WAITLIST_OFFERED"} /\ Spared(db, p, now)
       => e.reg[p].status # "EXPIRED"
    /\ HoldsFamilyReservation(db, p, now)
       => \/ e.reg[p].status \in {"PENDING_DECLARATION", "CONFIRMED"}
          \/ /\ e.reg[p].status = "PENDING_EMAIL_CONFIRMATION"
             /\ HoldsFamilyReservation(e, p, now) \/ e.reg[p].outside
          \/ e.reg[p].status = "EXPIRED" /\ db.reg[p].link <= now
    /\ (/\ LiveInvitation(db, p, now) /\ e.inv[p] = None /\ now < CloseAt
        /\ db.reg[p].status # "WAITLIST_OFFERED" /\ e.reg[p].status # db.reg[p].status)
       => e.reg[p].status \in {"PENDING_DECLARATION", "CONFIRMED"}
    /\ e.reg[p].status = "PENDING_EMAIL_CONFIRMATION" /\ e.reg[p].hold # None
       => e.reg[p].hold <= CloseAt
    /\ LiveInvitation(e, p, now) => e.reg[p].status \in NoPlace

HonestLine(e) ==
    \A p, q \in Waiting(db) :
        e.reg[p].status = "WAITLIST_OFFERED" /\ q \in Waiting(e) /\ Before(q, p, Since(db))
        => OfferPlaceTo(p)

\* While the free places are the club's, the line is offered none of them.
HonestOffers(e) ==
    ClubGives(e) => \A p \in Waiting(db) : e.reg[p].status = "WAITLIST_OFFERED" => OfferPlaceTo(p)

MailStays(e) == sending # None /\ ~sending.sent => sending.mail \in e.mail

Honest(e) == (\A p \in Person : HonestRow(e, p)) /\ HonestLine(e) /\ HonestOffers(e)

\* The row of who acts: whoever waited and is offered a place was chosen.
OwnRow(e, x) ==
    /\ HonestRow(e, x)
    /\ x \in Waiting(db) => /\ e.reg[x].status # "WAITLISTED"
                            /\ e.reg[x].status = "WAITLIST_OFFERED" => OfferPlaceTo(x)

HonestStep == Honest(db') /\ Promises'

LEMMA CommittedHonest ==
    ASSUME Promises, NEW dbs, \A e \in dbs : Honest(e) /\ MailStays(e), Commit(dbs)
    PROVE  HonestStep
  <1>1. now' = now /\ sending' = sending /\ Honest(db') /\ MailStays(db')
    BY DEF Commit
  <1>2. SendFits'
    BY <1>1 DEF MailStays, SendFits, Promises
  <1>3. ReservationsEndByClose(db') /\ InvitedHaveNoPlace(db', now)
    BY <1>1 DEF Honest, HonestRow, ReservationsEndByClose, InvitedHaveNoPlace
  <1>4. ReservationsEndByClose(db)' /\ InvitedHaveNoPlace(db, now)'
    BY <1>1, <1>3 DEF ReservationsEndByClose, InvitedHaveNoPlace, LiveInvitation
  <1> QED BY <1>1, <1>2, <1>4 DEF Promises, HonestStep

\* Who has a claim on a counted place.
LEMMA ClaimsOf ==
    ASSUME NEW d, NEW p \in Person, NEW t, ~HasClaim(d, p, t)
    PROVE  /\ d.reg[p].status \in {"CONFIRMED", "PENDING_DECLARATION", "WAITLIST_OFFERED"}
              \/ HoldsFamilyReservation(d, p, t) => d.reg[p].outside
           /\ LiveInvitation(d, p, t) => d.inv[p].outside
  <1>1. <<"registration", p>> \notin Claims(d, t) /\ <<"invitation", p>> \notin Claims(d, t)
    BY DEF HasClaim
  <1> QED BY <1>1 DEF Claims

\* Whose place is the one they had.
LEMMA SameTurn ==
    ASSUME NEW p \in Person, NEW e,
           e.reg[p].status \in {"CONFIRMED", "PENDING_DECLARATION"} => e.reg[p].status = db.reg[p].status,
           db.reg[p].outside => e.reg[p].outside
    PROVE  HonestTurn(e, p)
  BY ClaimsOf DEF HonestTurn

\* A swept row moves on as the promises allow.
LEMMA TreatedRow ==
    ASSUME TypeOK, Promises, NEW p \in Person, NEW d, NEW e, RowTreated(d, e, p, now),
           d.reg[p] = db.reg[p], d.inv[p] = db.inv[p], Spared(db, p, now) => Spared(d, p, now)
    PROVE  HonestRow(e, p)
  <1>1. /\ RowSwept(db.reg[p], e.reg[p], now)
        /\ e.inv[p] = db.inv[p] \/ (e.inv[p] = None /\ ~LiveInvitation(d, p, now))
    BY DEF RowTreated
  <1>2. Spared(db, p, now) => e.reg[p].status # "EXPIRED"
    BY DEF RowTreated, Spared
  <1>3. e.reg[p].status = "PENDING_EMAIL_CONFIRMATION"
        => db.reg[p].status = "PENDING_EMAIL_CONFIRMATION"
    BY <1>1 DEF RowSwept, Moving
  <1>4. HoldsFamilyReservation(db, p, now) => HoldsFamilyReservation(e, p, now)
    <2> SUFFICES ASSUME HoldsFamilyReservation(db, p, now) PROVE HoldsFamilyReservation(e, p, now)
      OBVIOUS
    <2>1. /\ db.reg[p].status = "PENDING_EMAIL_CONFIRMATION"
          /\ db.reg[p].hold # None /\ db.reg[p].hold > now
      BY DEF HoldsFamilyReservation, Ahead
    <2>2. db.reg[p].hold \in Nat /\ now \in Nat
      BY <2>1, RowsAre, DeadlineRange DEF TypeOK, Registration
    <2>3. ~Past(db.reg[p].hold, now)
      BY <2>1, <2>2 DEF Past
    <2> QED BY <1>1, <2>1, <2>3 DEF RowSwept, Moving, HoldsFamilyReservation, Ahead
  <1>5. LiveInvitation(db, p, now) <=> LiveInvitation(d, p, now)
    BY DEF LiveInvitation
  <1>6. LiveInvitation(db, p, now) => e.inv[p] # None
    BY <1>1, <1>5 DEF LiveInvitation
  <1>7. e.reg[p].status = "PENDING_EMAIL_CONFIRMATION" /\ e.reg[p].hold # None
        => e.reg[p].hold <= CloseAt
    BY <1>1, <1>3 DEF RowSwept, Promises, ReservationsEndByClose
  <1>8. ASSUME LiveInvitation(e, p, now) PROVE e.reg[p].status \in NoPlace
    <2>1. db.reg[p].status \in NoPlace
      BY <1>1, <1>8 DEF Promises, InvitedHaveNoPlace, LiveInvitation
    <2>2. e.reg[p].status = db.reg[p].status
      BY <1>1, <2>1 DEF RowTreated, RowSwept, Moving, LineStatus, NoPlace, Terminal
    <2> QED BY <2>1, <2>2
  <1>9. HoldsFamilyReservation(e, p, now) => e.reg[p].status = "PENDING_EMAIL_CONFIRMATION"
    BY DEF HoldsFamilyReservation
  <1>10. HonestTurn(e, p)
    BY <1>1, SameTurn DEF RowTreated, RowSwept, Moving
  <1> QED BY <1>2, <1>4, <1>6, <1>7, <1>8, <1>9, <1>10 DEF HonestRow

\* Who does not act is treated as the promises allow; who acts has their own row to show.
LEMMA TreatedHonest ==
    ASSUME TypeOK, Promises, NEW x, NEW d, NEW e, Treats(d, e, x, now),
           d.reg = db.reg, d.inv = db.inv, d.mail = db.mail,
           \A p \in Person : Spared(db, p, now) => Spared(d, p, now),
           x \in Person => OwnRow(e, x)
    PROVE  Honest(e) /\ MailStays(e)
  <1>1. ASSUME NEW p \in Person PROVE HonestRow(e, p)
    <2>1. CASE p = x
      BY <2>1 DEF OwnRow
    <2>2. CASE p # x
      BY <2>2, TreatedRow DEF Treats
    <2> QED BY <2>1, <2>2
  <1>2. ASSUME NEW p \in Waiting(db), NEW q \in Waiting(db), q \in Waiting(e),
               e.reg[p].status = "WAITLIST_OFFERED", Before(q, p, Since(db))
        PROVE  OfferPlaceTo(p)
    <2>1. p \in Person /\ q \in Person /\ e.reg[q].status = "WAITLISTED"
      BY <1>2 DEF Waiting, WithStatus
    <2>2. CASE x \in {p, q}
      BY <1>2, <2>1, <2>2 DEF OwnRow
    <2>3. CASE x \notin {p, q}
      <3>1. Behind(d, p, q)
        BY <1>2 DEF Behind, Waiting, WithStatus, Since
      <3>2. Behind(e, p, q)
        BY <2>1, <2>3, <3>1 DEF Treats
      <3> QED BY <1>2, <3>2 DEF Behind
    <2> QED BY <2>2, <2>3
  <1>3. MailStays(e)
    <2>1. sending # None /\ ~sending.sent => sending.mail \in d.mail /\ InFlight(sending.mail)
      BY DEF Promises, SendFits, InFlight
    <2> QED BY <2>1 DEF MailStays, Treats
  <1>4. ASSUME ClubGives(e), NEW p \in Waiting(db), e.reg[p].status = "WAITLIST_OFFERED"
        PROVE  OfferPlaceTo(p)
    <2>1. p \in Person /\ d.reg[p].status # "WAITLIST_OFFERED"
      BY <1>4 DEF Waiting, WithStatus
    <2>2. CASE p = x
      BY <1>4, <2>1, <2>2 DEF OwnRow
    <2>3. CASE p # x
      BY <1>4, <2>1, <2>3 DEF Treats, OffersAreOpen
    <2> QED BY <2>2, <2>3
  <1> QED BY <1>1, <1>2, <1>3, <1>4 DEF Honest, HonestLine, HonestOffers

LEMMA ActedHonest ==
    ASSUME TypeOK, Promises, NEW x, NEW e, Treats(db, e, x, now), x \in Person => OwnRow(e, x)
    PROVE  Honest(e) /\ MailStays(e)
  BY TreatedHonest

\* Nobody acts: the sweeps and the line alone.
LEMMA SweptHonest ==
    ASSUME TypeOK, Promises, NEW e, Treats(db, e, None, now)
    PROVE  Honest(e) /\ MailStays(e)
  BY ActedHonest, NobodyIsNobody

-----------------------------------------------------------------------------
(***************************************************************************)
(* The allocator keeps the promises.                                       *)
(***************************************************************************)
\* The allocator keeps the club's word to whoever it takes up, their email not confirmed yet
\* or their row a closed one.
LEMMA PlacedRow ==
    ASSUME TypeOK, NEW x \in Person, NEW d, NEW e, NEW how \in Way, ~how.invited,
           Treats(db, d, x, now), d.inv = db.inv, d.reg[x].status \notin LineStatus,
           HasOwnPlace(d, x, now, how) => d.reg[x].outside \/ HasClaim(db, x, now),
           Placed(d, e, x, now, how)
    PROVE  /\ Treats(db, e, x, now) /\ e.reg[x].status \in Moving /\ ~LiveInvitation(e, x, now)
           /\ LiveInvitation(db, x, now) \/ HasOwnPlace(d, x, now, how)
              => /\ e.reg[x].status \in {"PENDING_DECLARATION", "EXPIRED"}
                 /\ db.ev.status = "SCHEDULED" /\ now < CloseAt
                    => e.reg[x].status = "PENDING_DECLARATION"
           /\ (/\ ~HasClaim(db, x, now) /\ ~e.reg[x].outside
               /\ e.reg[x].status \in {"PENDING_DECLARATION", "WAITLIST_OFFERED"})
              => TakesNoTurn(db, e, x, now)
  <1>1. Adopts(d, x, now) <=> LiveInvitation(db, x, now)
    BY DEF Adopts, LiveInvitation, LineStatus
  <1>2. Treats(db, e, x, now) /\ e.reg[x].status \in Moving
    BY TreatsTwice DEF Placed
  <1>3. ASSUME ~HasClaim(db, x, now), ~e.reg[x].outside,
               e.reg[x].status \in {"PENDING_DECLARATION", "WAITLIST_OFFERED"}
        PROVE  TakesNoTurn(db, e, x, now)
    <2>1. ~d.reg[x].outside /\ ~HasOwnPlace(d, x, now, how)
      BY <1>3 DEF Placed
    <2>2. ~Adopts(d, x, now)
      <3> SUFFICES ASSUME Adopts(d, x, now) PROVE FALSE
        OBVIOUS
      <3>1. d.inv[x].outside
        BY <1>1, <1>3, ClaimsOf
      <3> QED BY <1>3, <3>1 DEF Placed
    <2>3. TakesNoTurn(d, e, x, now) /\ Treats(d, e, x, now)
      BY <1>3, <2>1, <2>2 DEF Placed
    <2> QED BY <2>3, TurnAfter
  <1>4. CASE LiveInvitation(db, x, now)
    <2>1. AdoptedPlace(d, e, x, now, HoldFor(how, now))
      BY <1>1, <1>4 DEF Placed
    <2>2. ASSUME db.ev.status = "SCHEDULED", now < CloseAt
          PROVE  e.reg[x].status = "PENDING_DECLARATION"
      <3>1. now \in Nat /\ now < StartAt
        BY <2>2, DeadlineRange, DatesAssumption DEF TypeOK
      <3>2. ~Over(d, now)
        BY <2>2, <3>1, DatesAssumption DEF Over, Treats
      <3>3. HoldFor(how, now) > now
        BY <2>2, <3>1, HoldLasts
      <3> QED BY <2>1, <3>2, <3>3 DEF AdoptedPlace
    <2> QED BY <1>2, <1>3, <2>1, <2>2 DEF AdoptedPlace, LiveInvitation
  <1>5. CASE ~LiveInvitation(db, x, now)
    <2>1. ~LiveInvitation(e, x, now)
      BY <1>5 DEF Placed, LiveInvitation
    <2>2. HasOwnPlace(d, x, now, how) => e.reg[x].status = "PENDING_DECLARATION"
      BY <1>1, <1>5 DEF Placed
    <2> QED BY <1>2, <1>3, <1>5, <2>1, <2>2
  <1> QED BY <1>4, <1>5

\* Whoever enters was nowhere before.
LEMMA EntrantRow ==
    ASSUME TypeOK, NEW x \in Person, MayEnter(db, x), NEW e,
           (/\ LiveInvitation(db, x, now) /\ e.inv[x] = None /\ now < CloseAt
            /\ e.reg[x].status # db.reg[x].status)
           => e.reg[x].status = "PENDING_DECLARATION",
           e.reg[x].status = "PENDING_EMAIL_CONFIRMATION"
           => e.reg[x].hold = None \/ e.reg[x].hold <= CloseAt,
           LiveInvitation(e, x, now) => e.reg[x].status \in NoPlace, HonestTurn(e, x)
    PROVE  OwnRow(e, x)
  <1>1. db.reg[x].status \in Terminal \cup {"ABSENT"}
    BY DEF MayEnter
  <1> QED BY <1>1 DEF OwnRow, HonestRow, HoldsFamilyReservation, Waiting, WithStatus, Terminal

LEMMA EntryPlacedHonest ==
    ASSUME TypeOK, Promises, NEW x \in Person, MayEnter(db, x), db.ev.status = "SCHEDULED",
           NEW d, GoodRows(d), Treats(db, d, x, now), d.inv = db.inv,
           d.reg[x].status \notin LineStatus, ~HoldsFamilyReservation(d, x, now),
           NEW how \in Way, ~how.invited, NEW e \in AllocatedWithEmail(d, x, now, how)
    PROVE  Honest(e) /\ MailStays(e)
  <1>1. Placed(d, e, x, now, how)
    BY AllocatedWithEmailTreats DEF TypeOK
  <1>2. /\ Treats(db, e, x, now) /\ e.reg[x].status \in Moving /\ ~LiveInvitation(e, x, now)
        /\ LiveInvitation(db, x, now) /\ now < CloseAt => e.reg[x].status = "PENDING_DECLARATION"
        /\ (~HasClaim(db, x, now) /\ ~e.reg[x].outside /\ e.reg[x].status = "PENDING_DECLARATION")
           => TakesNoTurn(db, e, x, now)
    <2>1. HasOwnPlace(d, x, now, how) => d.reg[x].outside
      BY DEF HasOwnPlace
    <2> QED BY <1>1, <2>1, PlacedRow
  <1>3. HonestTurn(e, x)
    BY <1>2 DEF HonestTurn, Moving
  <1>4. OwnRow(e, x)
    BY <1>2, <1>3, EntrantRow DEF Moving
  <1> QED BY <1>2, <1>4, ActedHonest

\* The row of a restart, or of a form.
LEMMA FormTreats ==
    ASSUME NEW d, GoodRows(d), NEW x \in Person, NEW t \in Time, MayEnter(d, x),
           NEW staff \in BOOLEAN, NEW e, e = WithForm(d, x, t, staff)
    PROVE  /\ GoodRows(e) /\ Treats(d, e, x, t) /\ e.inv = d.inv /\ e.ev = d.ev
           /\ e.reg[x].status = "PENDING_EMAIL_CONFIRMATION" /\ e.reg[x].hold = None
  <1> DEFINE r == [Absent EXCEPT !.status = "PENDING_EMAIL_CONFIRMATION",
                                 !.link = t + LinkTime, !.staff = staff]
  <1>1. r.status = "PENDING_EMAIL_CONFIRMATION" /\ r.hold = None
    BY DEF Absent
  <1>2. e = [d EXCEPT !.reg[x] = r] /\ GoodRows(e)
    BY WithFormGood DEF WithForm
  <1> HIDE DEF r
  <1>3. /\ e.ev = d.ev /\ e.mail = d.mail /\ e.inv = d.inv
        /\ e.reg[x] = r /\ \A q \in Person \ {x} : e.reg[q] = d.reg[q]
    BY <1>2 DEF GoodRows, Database
  <1>4. Treats(d, e, x, t)
    BY <1>3, TreatsOthers
  <1> QED BY <1>1, <1>2, <1>3, <1>4

LEMMA UnmarkedTreats ==
    ASSUME NEW d, GoodRows(d), NEW x \in Person, NEW t \in Time, MayEnter(d, x),
           NEW e, e = [d EXCEPT !.reg[x].outside = FALSE]
    PROVE  /\ GoodRows(e) /\ Treats(d, e, x, t) /\ e.inv = d.inv
           /\ e.reg[x].status \notin LineStatus \cup {"PENDING_EMAIL_CONFIRMATION"}
  <1> DEFINE r == [d.reg[x] EXCEPT !.outside = FALSE]
  <1>1. r.status \notin LineStatus \cup {"PENDING_EMAIL_CONFIRMATION"}
    BY RowsAre DEF Registration, MayEnter, Terminal, LineStatus
  <1>2. e = [d EXCEPT !.reg[x] = r] /\ GoodRows(e)
    BY NewOutside
  <1> HIDE DEF r
  <1>3. /\ e.ev = d.ev /\ e.mail = d.mail /\ e.inv = d.inv
        /\ e.reg[x] = r /\ \A q \in Person \ {x} : e.reg[q] = d.reg[q]
    BY <1>2, RowReplaced
  <1>4. Treats(d, e, x, t)
    BY <1>3, TreatsOthers
  <1> QED BY <1>1, <1>2, <1>3, <1>4

\* Whoever may enter starts from the row they have, where the address is known, or a new form.
LEMMA EntrantTreats ==
    ASSUME NEW d, GoodRows(d), NEW x \in Person, NEW t \in Time, MayEnter(d, x),
           NEW staff \in BOOLEAN, NEW form, form = WithForm(d, x, t, staff),
           NEW c, c = [d EXCEPT !.reg[x].outside = FALSE], NEW e, e = c \/ e = form
    PROVE  /\ GoodRows(e) /\ Treats(d, e, x, t) /\ e.inv = d.inv
           /\ e.reg[x].status \notin LineStatus
           /\ e.reg[x].status = "PENDING_EMAIL_CONFIRMATION" => e.reg[x].hold = None
  <1>1. /\ GoodRows(c) /\ Treats(d, c, x, t) /\ c.inv = d.inv
        /\ c.reg[x].status \notin LineStatus \cup {"PENDING_EMAIL_CONFIRMATION"}
    BY UnmarkedTreats
  <1>2. /\ GoodRows(form) /\ Treats(d, form, x, t) /\ form.inv = d.inv
        /\ form.reg[x].status = "PENDING_EMAIL_CONFIRMATION" /\ form.reg[x].hold = None
    BY FormTreats
  <1> QED BY <1>1, <1>2 DEF LineStatus

LEMMA EnteredHonest ==
    ASSUME TypeOK, Promises, NEW x \in Person, MayEnter(db, x), db.ev.status = "SCHEDULED",
           NEW how \in Way, ~how.invited, NEW e \in Entered(db, x, now, how)
    PROVE  Honest(e) /\ MailStays(e)
  <1> DEFINE c == [db EXCEPT !.reg[x].outside = FALSE]
             staff == how.channel = "staff"
             form == WithForm(db, x, now, staff)
  <1>1. GoodRows(db) /\ now \in Time
    BY DEF TypeOK
  <1>2. /\ GoodRows(c) /\ Treats(db, c, x, now) /\ c.inv = db.inv
        /\ c.reg[x].status \notin LineStatus \cup {"PENDING_EMAIL_CONFIRMATION"}
    BY <1>1, UnmarkedTreats
  <1>3. /\ Treats(db, form, x, now) /\ form.inv = db.inv
        /\ form.reg[x].status = "PENDING_EMAIL_CONFIRMATION" /\ form.reg[x].hold = None
    <2>1. staff \in BOOLEAN /\ form = WithForm(db, x, now, staff)
      OBVIOUS
    <2> HIDE DEF staff, form
    <2> QED BY <1>1, <2>1, FormTreats
  <1>4. e \in AllocatedWithEmail(c, x, now, how) \/ e = form
    BY DEF Entered
  <1> HIDE DEF c, form
  <1>5. \A f \in AllocatedWithEmail(c, x, now, how) : Honest(f) /\ MailStays(f)
    BY <1>2, EntryPlacedHonest DEF HoldsFamilyReservation
  <1>6. OwnRow(form, x)
    BY <1>3, EntrantRow DEF NoPlace, LiveInvitation, HonestTurn
  <1> QED BY <1>3, <1>4, <1>5, <1>6, ActedHonest

-----------------------------------------------------------------------------
(***************************************************************************)
(* An entry.                                                               *)
(***************************************************************************)
\* What is written beside the rows, the invitations and the emails is nobody's turn.
LEMMA TreatsSame ==
    ASSUME NEW d, NEW e, NEW x, NEW t,
           e.ev = d.ev \/ (e.ev.status = d.ev.status /\ RulesStand(d, e, t)), e.reg = d.reg, e.inv = d.inv,
           e.mail = d.mail
    PROVE  Treats(d, e, x, t)
  BY TreatsOthers

LEMMA SittingDeadlineFits ==
    ASSUME NEW t \in Time, NEW until \in SittingDeadlines(t)
    PROVE  until \in Deadline /\ until <= CloseAt
  <1>1. PICK opened \in 0..t : until = FamilyReservationExpiry(opened)
    BY DEF SittingDeadlines
  <1>2. opened \in Nat
    BY DeadlineRange
  <1>3. until \in Deadline
    BY <1>1, <1>2, HoldsEndByTheStart, DeadlineRange
  <1>4. until <= CloseAt
    BY <1>1, <1>2, DatesAssumption, DeadlinesAssumption
       DEF FamilyReservationExpiry, CapHoldExpiry, Least
  <1> QED BY <1>3, <1>4

LEMMA ReservedHonest ==
    ASSUME TypeOK, Promises, NEW x \in Person, MayEnter(db, x), NEW until \in SittingDeadlines(now),
           NEW e, e = Reserved(WithForm(db, x, now, FALSE), x, now, until)
    PROVE  Honest(e) /\ MailStays(e)
  <1> DEFINE d == WithForm(db, x, now, FALSE)
             served == Served(d, now)
             r == [served.reg[x] EXCEPT !.hold = until]
             held == [served EXCEPT !.reg[x] = r]
  <1>1. GoodRows(db) /\ now \in Time
    BY DEF TypeOK
  <1>2. /\ GoodRows(d) /\ Treats(db, d, x, now) /\ d.inv = db.inv
        /\ d.reg[x].status = "PENDING_EMAIL_CONFIRMATION" /\ d.reg[x].hold = None
    <2> DEFINE staff == FALSE
    <2>1. staff \in BOOLEAN /\ d = WithForm(db, x, now, staff)
      OBVIOUS
    <2> HIDE DEF d, staff
    <2> QED BY <1>1, <2>1, FormTreats
  <1>3. e \in {d, served, held}
    <2>1. held = [served EXCEPT !.reg[x].hold = until]
      OBVIOUS
    <2> HIDE DEF served, held
    <2>2. Reserved(d, x, now, until) \in {d, Served(d, now), [Served(d, now) EXCEPT !.reg[x].hold = until]}
      <3> HIDE DEF d
      <3> QED BY DEF Reserved
    <2> QED BY <2>1, <2>2 DEF served
  <1> HIDE DEF d
  <1>4. /\ GoodRows(served) /\ Treats(d, served, x, now) /\ RowTreated(d, served, x, now)
        /\ served.reg[x].status = "PENDING_EMAIL_CONFIRMATION"
    BY <1>1, <1>2, ServedGood, ServedTreats, FilledRow, UnconfirmedStays
  <1>5. /\ served.reg[x].hold = None
        /\ LiveInvitation(db, x, now) => served.inv[x] = db.inv[x]
    BY <1>2, <1>4 DEF RowTreated, RowSwept, LiveInvitation
  <1> HIDE DEF served
  <1>6. r.status = "PENDING_EMAIL_CONFIRMATION" /\ r.hold = until
    BY <1>4, RowsAre DEF Registration
  <1>a. held = [served EXCEPT !.reg[x] = r]
    OBVIOUS
  <1> HIDE DEF held, r
  <1>7. /\ held.ev = served.ev /\ held.mail = served.mail /\ held.inv = served.inv
        /\ held.reg[x] = r /\ \A q \in Person \ {x} : held.reg[q] = served.reg[q]
    BY <1>4, <1>a, RowReplaced
  <1>8. Treats(served, held, x, now)
    BY <1>7, TreatsOthers
  <1>9. Treats(db, e, x, now)
    <2>1. Treats(db, served, x, now)
      BY <1>2, <1>4, TreatsTwice
    <2>2. Treats(db, held, x, now)
      BY <1>8, <2>1, TreatsTwice
    <2> QED BY <1>2, <1>3, <2>1, <2>2
  <1>10. /\ e.reg[x].status = "PENDING_EMAIL_CONFIRMATION"
         /\ e.reg[x].hold = None \/ e.reg[x].hold <= CloseAt
         /\ LiveInvitation(db, x, now) => e.inv[x] # None
    BY <1>1, <1>2, <1>3, <1>4, <1>5, <1>6, <1>7, SittingDeadlineFits DEF LiveInvitation
  <1>11. OwnRow(e, x)
    BY <1>10, EntrantRow DEF NoPlace, HonestTurn
  <1> QED BY <1>9, <1>11, ActedHonest

LEMMA FamilyPlaceHeldHonest ==
    ASSUME TypeOK, Promises, NEW x \in Person, NEW until \in SittingDeadlines(now),
           NEW e, e = FamilyPlaceHeld(db, x, now, until)
    PROVE  Honest(e) /\ MailStays(e)
  <1> DEFINE cleared == [db EXCEPT !.fam[x] = IF Past(@, now) THEN None ELSE @]
             served == Served(cleared, now)
             held == [served EXCEPT !.fam[x] = until]
  <1>1. GoodRows(db) /\ now \in Time
    BY DEF TypeOK
  <1>2. GoodRows(cleared)
    BY <1>1, NewFamilyPlace DEF GoodRows, Database
  <1>3. /\ cleared.ev = db.ev /\ cleared.reg = db.reg /\ cleared.inv = db.inv
        /\ cleared.mail = db.mail
    BY <1>1 DEF GoodRows, Database
  <1>4. e \in {db, served, held}
    BY DEF FamilyPlaceHeld
  <1> HIDE DEF cleared
  <1>5. GoodRows(served) /\ Treats(cleared, served, None, now)
    BY <1>1, <1>2, ServedGood, ServedTreats
  <1> HIDE DEF served
  <1>6. /\ held.ev = served.ev /\ held.reg = served.reg /\ held.inv = served.inv
        /\ held.mail = served.mail
    BY <1>5 DEF GoodRows, Database
  <1> HIDE DEF held
  <1>7. Treats(db, cleared, None, now) /\ Treats(served, held, None, now)
    BY <1>3, <1>6, TreatsSame
  <1>8. Treats(db, e, None, now)
    BY <1>4, <1>5, <1>7, TreatsTwice, TreatsAll
  <1> QED BY <1>8, SweptHonest

LEMMA UnchangedHonest ==
    ASSUME TypeOK, Promises, db' = db, now' = now, sending' = sending
    PROVE  HonestStep
  <1>1. Commit({db})
    BY DEF Commit
  <1>2. Honest(db) /\ MailStays(db)
    BY TreatsAll, SweptHonest
  <1> QED BY <1>1, <1>2, CommittedHonest

LEMMA EntryHonest ==
    ASSUME TypeOK, Promises, NEW p \in Person,
           \/ PassWaitlistCheck(p, "public")
           \/ PassWaitlistCheck(p, "staff")
           \/ Submit(p)
           \/ SubmitByStaff(p)
           \/ SubmitVouched(p)
           \/ ConfirmFamilyEntry(p)
           \/ \E until \in SittingDeadlines(now) : SubmitInSitting(p, until)
           \/ \E until \in SittingDeadlines(now) : HoldFamilyPlace(p, until)
    PROVE  HonestStep
  <1>1. GoodRows(db) /\ now \in Time
    BY DEF TypeOK
  <1>2. CASE PassWaitlistCheck(p, "public") \/ PassWaitlistCheck(p, "staff")
    BY <1>2, UnchangedHonest DEF PassWaitlistCheck
  <1>3. CASE Submit(p)
    <2>1. \A e \in Entered(db, p, now, Entry("public")) : Honest(e) /\ MailStays(e)
      BY <1>3, PublicAndStaffWays, EnteredHonest DEF Submit, RegistrationOpen
    <2> QED BY <1>3, <2>1, CommittedHonest DEF Submit
  <1>4. CASE SubmitByStaff(p)
    <2>1. \A e \in Entered(db, p, now, Entry("staff")) : Honest(e) /\ MailStays(e)
      BY <1>4, PublicAndStaffWays, EnteredHonest DEF SubmitByStaff
    <2> QED BY <1>4, <2>1, CommittedHonest DEF SubmitByStaff
  <1>5. CASE SubmitVouched(p)
    <2> DEFINE row == IF p \in db.verified THEN [db EXCEPT !.reg[p].outside = FALSE]
                      ELSE WithForm(db, p, now, TRUE)
    <2>1. MayEnter(db, p) /\ db.ev.status = "SCHEDULED"
      BY <1>5 DEF SubmitVouched
    <2>2. /\ GoodRows(row) /\ Treats(db, row, p, now) /\ row.inv = db.inv
          /\ row.reg[p].status \notin LineStatus
          /\ row.reg[p].status = "PENDING_EMAIL_CONFIRMATION" => row.reg[p].hold = None
      <3> DEFINE staff == TRUE
                 form == WithForm(db, p, now, staff)
                 c == [db EXCEPT !.reg[p].outside = FALSE]
      <3>1. row = c \/ row = form
        OBVIOUS
      <3>2. staff \in BOOLEAN
        OBVIOUS
      <3> HIDE DEF row, staff
      <3>3. form = WithForm(db, p, now, staff) /\ c = [db EXCEPT !.reg[p].outside = FALSE]
        OBVIOUS
      <3> HIDE DEF form, c
      <3> QED BY <1>1, <2>1, <3>1, <3>2, <3>3, EntrantTreats
    <2>3. Commit(AllocatedWithEmail(row, p, now, VouchedEntry))
      BY <1>5 DEF SubmitVouched
    <2> HIDE DEF row
    <2>4. \A e \in AllocatedWithEmail(row, p, now, VouchedEntry) : Honest(e) /\ MailStays(e)
      BY <2>1, <2>2, PublicAndStaffWays, EntryPlacedHonest DEF HoldsFamilyReservation, Ahead
    <2> QED BY <2>3, <2>4, CommittedHonest
  <1>6. CASE ConfirmFamilyEntry(p)
    <2> DEFINE row == IF p \in db.verified THEN [db EXCEPT !.reg[p].outside = FALSE]
                      ELSE WithForm(db, p, now, FALSE)
               freed == [row EXCEPT !.fam[p] = None]
               proved == [freed EXCEPT !.verified = freed.verified \cup {p}]
    <2>1. MayEnter(db, p) /\ db.ev.status = "SCHEDULED"
      BY <1>6 DEF ConfirmFamilyEntry, RegistrationOpen
    <2>2. /\ GoodRows(row) /\ Treats(db, row, p, now) /\ row.inv = db.inv
          /\ row.reg[p].status \notin LineStatus
          /\ row.reg[p].status = "PENDING_EMAIL_CONFIRMATION" => row.reg[p].hold = None
      <3> DEFINE staff == FALSE
                 form == WithForm(db, p, now, staff)
                 c == [db EXCEPT !.reg[p].outside = FALSE]
      <3>1. row = c \/ row = form
        OBVIOUS
      <3>2. staff \in BOOLEAN
        OBVIOUS
      <3> HIDE DEF row, staff
      <3>3. form = WithForm(db, p, now, staff) /\ c = [db EXCEPT !.reg[p].outside = FALSE]
        OBVIOUS
      <3> HIDE DEF form, c
      <3> QED BY <1>1, <2>1, <3>1, <3>2, <3>3, EntrantTreats
    <2>3. Commit(AllocatedWithEmail([row EXCEPT !.fam[p] = None, !.verified = @ \cup {p}],
                                    p, now, Entry("public")))
      BY <1>6 DEF ConfirmFamilyEntry
    <2> HIDE DEF row
    <2>4. [row EXCEPT !.fam[p] = None, !.verified = @ \cup {p}] = proved
      BY <2>2 DEF GoodRows, Database
    <2>5. GoodRows(freed) /\ freed.ev = row.ev /\ freed.reg = row.reg /\ freed.inv = row.inv
          /\ freed.mail = row.mail
      BY <2>2, NewFamilyPlace DEF GoodRows, Database
    <2> HIDE DEF freed
    <2>6. GoodRows(proved) /\ proved.ev = freed.ev /\ proved.reg = freed.reg
          /\ proved.inv = freed.inv /\ proved.mail = freed.mail
      <3>1. freed.verified \cup {p} \in SUBSET Person
        BY <2>5 DEF GoodRows, Database
      <3> QED BY <2>5, <3>1, NewVerified DEF GoodRows, Database
    <2> HIDE DEF proved
    <2>7. Treats(row, proved, p, now)
      BY <2>5, <2>6, TreatsSame
    <2>8. Treats(db, proved, p, now)
      BY <2>2, <2>7, TreatsTwice
    <2>9. \A e \in AllocatedWithEmail(proved, p, now, Entry("public")) : Honest(e) /\ MailStays(e)
      BY <2>1, <2>2, <2>5, <2>6, <2>8, PublicAndStaffWays, EntryPlacedHonest
         DEF HoldsFamilyReservation, Ahead
    <2> QED BY <2>3, <2>4, <2>9, CommittedHonest
  <1>7. CASE \E until \in SittingDeadlines(now) : SubmitInSitting(p, until)
    <2>1. PICK until \in SittingDeadlines(now) : SubmitInSitting(p, until)
      BY <1>7
    <2> DEFINE e == Reserved(WithForm(db, p, now, FALSE), p, now, until)
    <2>2. Commit({e}) /\ MayEnter(db, p)
      BY <2>1 DEF SubmitInSitting
    <2>3. Honest(e) /\ MailStays(e)
      BY <2>2, ReservedHonest
    <2> HIDE DEF e
    <2> QED BY <2>2, <2>3, CommittedHonest
  <1>8. CASE \E until \in SittingDeadlines(now) : HoldFamilyPlace(p, until)
    <2>1. PICK until \in SittingDeadlines(now) : HoldFamilyPlace(p, until)
      BY <1>8
    <2> DEFINE e == FamilyPlaceHeld(db, p, now, until)
    <2>2. Commit({e})
      BY <2>1 DEF HoldFamilyPlace
    <2>3. Honest(e) /\ MailStays(e)
      BY FamilyPlaceHeldHonest
    <2> HIDE DEF e
    <2> QED BY <2>2, <2>3, CommittedHonest
  <1> QED BY <1>2, <1>3, <1>4, <1>5, <1>6, <1>7, <1>8

-----------------------------------------------------------------------------
(***************************************************************************)
(* A confirmation and a signature.                                         *)
(***************************************************************************)
\* A row that leaves, and one that is confirmed.
LEMMA LeftTreats ==
    ASSUME NEW d, GoodRows(d), NEW x \in Person, NEW t, NEW status \in {"CANCELLED", "EXPIRED"},
           NEW e, e = [d EXCEPT !.reg[x] = Moved(@, status, None)]
    PROVE  /\ GoodRows(e) /\ Treats(d, e, x, t) /\ e.ev = d.ev /\ e.inv = d.inv
           /\ \A s : s = status => e.reg[x].status = s
           /\ e.reg[x].outside = d.reg[x].outside
  <1> DEFINE r == Moved(d.reg[x], status, None)
  <1>1. GoodRows(e)
    BY MovedGood DEF Settled
  <1>2. e = [d EXCEPT !.reg[x] = r]
    OBVIOUS
  <1>3. r.status = status /\ r.outside = d.reg[x].outside
    BY RowsAre DEF Moved, Registration
  <1> HIDE DEF r
  <1>4. /\ e.ev = d.ev /\ e.mail = d.mail /\ e.inv = d.inv
        /\ e.reg[x] = r /\ \A q \in Person \ {x} : e.reg[q] = d.reg[q]
    BY <1>2 DEF GoodRows, Database
  <1>5. Treats(d, e, x, t)
    BY <1>4, TreatsOthers
  <1> QED BY <1>1, <1>3, <1>4, <1>5

LEMMA ConfirmedTreats ==
    ASSUME NEW d, GoodRows(d), NEW x \in Person, NEW t
    PROVE  LET e == Confirmed(d, x)
           IN  /\ GoodRows(e) /\ Treats(d, e, x, t) /\ e.ev = d.ev /\ e.inv = d.inv
               /\ e.reg[x].status = "CONFIRMED" /\ e.reg[x].outside = d.reg[x].outside
  <1> DEFINE e == Confirmed(d, x)
             r == Moved(d.reg[x], "CONFIRMED", None)
  <1>1. GoodRows(e)
    BY ConfirmedGood
  <1>2. e = [d EXCEPT !.reg[x] = r]
    BY DEF Confirmed
  <1>3. r.status = "CONFIRMED" /\ r.outside = d.reg[x].outside
    BY RowsAre DEF Moved, Registration
  <1> HIDE DEF e, r
  <1>4. /\ e.ev = d.ev /\ e.mail = d.mail /\ e.inv = d.inv
        /\ e.reg[x] = r /\ \A q \in Person \ {x} : e.reg[q] = d.reg[q]
    BY <1>2 DEF GoodRows, Database
  <1>5. Treats(d, e, x, t)
    BY <1>4, TreatsOthers
  <1> QED BY <1>1, <1>3, <1>4, <1>5 DEF e

\* A settled row stays so under the sweep and the line.
LEMMA SettledStays ==
    ASSUME NEW d, GoodRows(d), NEW x \in Person, NEW t \in Time,
           d.reg[x].status \in {"CONFIRMED", "CANCELLED"}
    PROVE  LET e == FillAvailableSpots(d, t)
           IN  /\ GoodRows(e) /\ Treats(d, e, x, t) /\ e.reg[x].status = d.reg[x].status
               /\ e.inv[x] \in {None, d.inv[x]} /\ e.reg[x].outside = d.reg[x].outside
  BY FilledRow, FillAvailableSpotsGood, FillAvailableSpotsTreats DEF RowTreated, RowSwept, Moving

\* Whoever has a place already, or waits for one, has no invitation to take over.
LEMMA HolderRow ==
    ASSUME TypeOK, Promises, NEW x \in Person, db.reg[x].status \notin NoPlace, NEW e,
           e.inv[x] \in {None, db.inv[x]}, e.reg[x].status # "PENDING_EMAIL_CONFIRMATION",
           db.reg[x].status \in {"PENDING_DECLARATION", "WAITLIST_OFFERED"} /\ Spared(db, x, now)
           => e.reg[x].status # "EXPIRED",
           x \in Waiting(db) => /\ e.reg[x].status # "WAITLISTED"
                                /\ e.reg[x].status = "WAITLIST_OFFERED" => OfferPlaceTo(x),
           (db.reg[x].outside => e.reg[x].outside) \/ HonestTurn(e, x)
    PROVE  OwnRow(e, x)
  <1>1. ~LiveInvitation(db, x, now) /\ ~LiveInvitation(e, x, now)
    BY DEF Promises, InvitedHaveNoPlace, LiveInvitation
  <1>2. ~HoldsFamilyReservation(db, x, now)
    BY DEF HoldsFamilyReservation, NoPlace
  <1>3. HonestTurn(e, x)
    <2>1. ~HasClaim(db, x, now) /\ db.reg[x].status # "WAITLISTED" => db.reg[x].outside
      <3>1. db.reg[x].status \in Status
        BY RowsAre DEF TypeOK, Registration
      <3> QED BY <3>1, ClaimsOf DEF NoPlace, Status, Active
    <2> QED BY <2>1 DEF HonestTurn
  <1> QED BY <1>1, <1>2, <1>3 DEF OwnRow, HonestRow

\* Whoever has neither is taken up.
LEMMA TakenUpRow ==
    ASSUME TypeOK, Promises, NEW x \in Person, db.reg[x].status \in NoPlace, NEW e,
           ~LiveInvitation(e, x, now), e.reg[x].status # "PENDING_EMAIL_CONFIRMATION",
           LiveInvitation(db, x, now) \/ HoldsFamilyReservation(db, x, now)
           => (now < CloseAt => e.reg[x].status \in {"PENDING_DECLARATION", "CONFIRMED"}),
           HonestTurn(e, x)
    PROVE  OwnRow(e, x)
  <1>1. x \notin Waiting(db) /\ db.reg[x].status \notin {"PENDING_DECLARATION", "WAITLIST_OFFERED"}
    BY DEF Waiting, WithStatus, NoPlace, Terminal
  <1>2. HoldsFamilyReservation(db, x, now) => now < CloseAt
    <2> SUFFICES ASSUME HoldsFamilyReservation(db, x, now) PROVE now < CloseAt
      OBVIOUS
    <2>1. /\ db.reg[x].status = "PENDING_EMAIL_CONFIRMATION"
          /\ db.reg[x].hold # None /\ db.reg[x].hold > now
      BY DEF HoldsFamilyReservation, Ahead
    <2>2. db.reg[x].hold \in Nat /\ now \in Nat /\ CloseAt \in Nat
      BY <2>1, RowsAre, DeadlineRange, DatesAssumption DEF TypeOK, Registration
    <2> QED BY <2>1, <2>2 DEF Promises, ReservationsEndByClose
  <1> QED BY <1>1, <1>2 DEF OwnRow, HonestRow

LEMMA ConfirmEmailHonest ==
    ASSUME TypeOK, Promises, NEW p \in Person, ConfirmEmail(p)
    PROVE  HonestStep
  <1> DEFINE proved == [db EXCEPT !.verified = @ \cup {p}]
             how == Entry(IF db.reg[p].staff THEN "staff" ELSE "public")
             left == [db EXCEPT !.reg[p] = Moved(@, "EXPIRED", None)]
  <1>1. GoodRows(db) /\ now \in Time
    BY DEF TypeOK
  <1>2. GoodRows(proved)
    <2>1. db.verified \cup {p} \in SUBSET Person
      BY <1>1 DEF GoodRows, Database
    <2> QED BY <1>1, <2>1, NewVerified
  <1>3. /\ proved.ev = db.ev /\ proved.reg = db.reg /\ proved.mail = db.mail
        /\ proved.inv = db.inv
    BY <1>1 DEF GoodRows, Database
  <1>4. how \in Way /\ ~how.invited
    BY PublicAndStaffWays
  <1>5. /\ db.reg[p].status = "PENDING_EMAIL_CONFIRMATION" /\ db.ev.status = "SCHEDULED"
        /\ \/ db.reg[p].link <= now /\ Commit({left})
           \/ Commit(AllocatedWithEmail(proved, p, now, how))
    BY DEF ConfirmEmail
  <1>6. GoodRows(left) /\ Treats(db, left, p, now) /\ left.inv = db.inv
        /\ left.reg[p].status = "EXPIRED"
    <2>1. left = [db EXCEPT !.reg[p] = Moved(@, "EXPIRED", None)]
      OBVIOUS
    <2> HIDE DEF left
    <2> QED BY <1>1, <2>1, LeftTreats
  <1> HIDE DEF proved, how, left
  <1>7. CASE db.reg[p].link <= now /\ Commit({left})
    <2>2. OwnRow(left, p)
      BY <1>5, <1>6, <1>7
         DEF OwnRow, HonestRow, HonestTurn, Waiting, WithStatus, LiveInvitation, NoPlace, Terminal
    <2> QED BY <1>6, <1>7, <2>2, ActedHonest, CommittedHonest
  <1>8. CASE Commit(AllocatedWithEmail(proved, p, now, how))
    <2>1. ASSUME NEW e \in AllocatedWithEmail(proved, p, now, how)
          PROVE  Honest(e) /\ MailStays(e)
      <3>1. Placed(proved, e, p, now, how)
        BY <1>1, <1>2, <1>4, <2>1, AllocatedWithEmailTreats
      <3>2. Treats(db, proved, p, now) /\ proved.reg[p].status \notin LineStatus
        BY <1>3, <1>5, TreatsSame DEF LineStatus
      <3>3. HoldsFamilyReservation(db, p, now) => HasOwnPlace(proved, p, now, how)
        BY <1>3 DEF HoldsFamilyReservation, HasOwnPlace
      <3>4. /\ Treats(db, e, p, now) /\ e.reg[p].status \in Moving /\ ~LiveInvitation(e, p, now)
            /\ LiveInvitation(db, p, now) \/ HasOwnPlace(proved, p, now, how)
               => (now < CloseAt => e.reg[p].status = "PENDING_DECLARATION")
            /\ (/\ ~HasClaim(db, p, now) /\ ~e.reg[p].outside
                /\ e.reg[p].status = "PENDING_DECLARATION")
               => TakesNoTurn(db, e, p, now)
        <4>1. HasOwnPlace(proved, p, now, how) => proved.reg[p].outside \/ HasClaim(db, p, now)
          BY <1>3, <1>4, ClaimsOf DEF HasOwnPlace, HoldsFamilyReservation
        <4> QED BY <1>3, <1>4, <1>5, <3>1, <3>2, <4>1, PlacedRow
      <3>5. HonestTurn(e, p)
        BY <3>4 DEF HonestTurn, Moving
      <3>6. OwnRow(e, p)
        BY <1>5, <3>3, <3>4, <3>5, TakenUpRow DEF NoPlace, Moving
      <3> QED BY <3>4, <3>6, ActedHonest
    <2> QED BY <1>8, <2>1, CommittedHonest
  <1> QED BY <1>5, <1>7, <1>8

LEMMA SignDeclarationHonest ==
    ASSUME TypeOK, Promises, NEW p \in Person, SignDeclaration(p)
    PROVE  HonestStep
  <1> DEFINE first == IF ReleaseDue(db, now) THEN Expired(db, now) ELSE db
             swept == Expired(first, now)
             placed == IF swept.reg[p].status = "EXPIRED"
                       THEN Allocated(swept, p, now, Entry("staff")) ELSE {swept}
             signed(d) == IF d.reg[p].status = "WAITLISTED" THEN d
                          ELSE FillAvailableSpots(Confirmed(d, p), now)
  <1>1. GoodRows(db) /\ now \in Time
    BY DEF TypeOK
  <1>2. /\ db.reg[p].status \in {"PENDING_DECLARATION", "WAITLIST_OFFERED"}
        /\ \/ Commit({first})
           \/ Commit({signed(d) : d \in {c \in placed : c.reg[p].status # "EXPIRED"}})
    BY DEF SignDeclaration
  <1>3. GoodRows(first) /\ Treats(db, first, p, now)
        /\ (first = db \/ RowTreated(db, first, p, now))
    BY <1>1, ExpiredGood, ExpiredTreats, TreatsAll, FilledRow
  <1> HIDE DEF first
  <1>4. /\ db.reg[p].status \notin NoPlace /\ p \notin Waiting(db) /\ ~LiveInvitation(db, p, now)
    BY <1>2 DEF NoPlace, Terminal, Waiting, WithStatus, Promises, InvitedHaveNoPlace
  <1>5. CASE Commit({first})
    <2>1. OwnRow(first, p)
      <3>1. first.inv[p] \in {None, db.inv[p]}
        BY <1>3 DEF RowTreated
      <3>2. first.reg[p].status # "PENDING_EMAIL_CONFIRMATION"
        BY <1>2, <1>3 DEF RowTreated, RowSwept, Moving
      <3>3. Spared(db, p, now) => first.reg[p].status # "EXPIRED"
        BY <1>3 DEF RowTreated, Spared
      <3>4. first.reg[p].outside = db.reg[p].outside
        BY <1>3 DEF RowTreated, RowSwept
      <3> QED BY <1>4, <3>1, <3>2, <3>3, <3>4, HolderRow
    <2> QED BY <1>3, <1>5, <2>1, ActedHonest, CommittedHonest
  <1>6. /\ GoodRows(swept) /\ Treats(db, swept, p, now) /\ swept.inv[p] \in {None, db.inv[p]}
        /\ swept.reg[p].status # "PENDING_EMAIL_CONFIRMATION"
        /\ swept.reg[p].outside = db.reg[p].outside
    <2>1. GoodRows(swept) /\ Treats(first, swept, p, now) /\ RowTreated(first, swept, p, now)
      BY <1>1, <1>3, ExpiredGood, ExpiredTreats, FilledRow
    <2> HIDE DEF swept
    <2>2. Treats(db, swept, p, now)
      BY <1>3, <2>1, TreatsTwice
    <2> QED BY <1>2, <1>3, <2>1, <2>2 DEF RowTreated, RowSwept, Moving
  <1> HIDE DEF swept
  <1>7. ASSUME NEW d \in placed
        PROVE  /\ GoodRows(d) /\ Treats(db, d, p, now) /\ d.inv[p] \in {None, db.inv[p]}
               /\ d.reg[p].status # "PENDING_EMAIL_CONFIRMATION"
               /\ db.reg[p].outside => d.reg[p].outside
    <2>1. CASE swept.reg[p].status = "EXPIRED"
      <3>1. d \in Allocated(swept, p, now, Entry("staff"))
        BY <2>1
      <3>2. GoodRows(d) /\ Placed(swept, d, p, now, Entry("staff"))
        BY <1>1, <1>6, <3>1, PublicAndStaffWays, AllocatedTreats
      <3>3. /\ Treats(swept, d, p, now) /\ d.reg[p].status \in Moving
            /\ d.inv[p] \in {None, swept.inv[p]}
            /\ swept.reg[p].outside => d.reg[p].outside
        BY <3>2 DEF Placed
      <3> QED BY <1>6, <3>2, <3>3, TreatsTwice DEF Moving
    <2>2. CASE swept.reg[p].status # "EXPIRED"
      BY <1>6, <2>2
    <2> QED BY <2>1, <2>2
  <1> HIDE DEF placed
  <1>8. ASSUME NEW d \in placed, d.reg[p].status # "EXPIRED"
        PROVE  Honest(signed(d)) /\ MailStays(signed(d))
    <2> DEFINE c == Confirmed(d, p)
               f == FillAvailableSpots(c, now)
    <2>1. /\ GoodRows(c) /\ Treats(d, c, p, now) /\ c.inv = d.inv
          /\ c.reg[p].status = "CONFIRMED" /\ c.reg[p].outside = d.reg[p].outside
      BY <1>7, ConfirmedTreats
    <2>2. signed(d) \in {d, f}
      OBVIOUS
    <2> HIDE DEF c, signed
    <2>3. /\ Treats(c, f, p, now) /\ f.reg[p].status = "CONFIRMED" /\ f.inv[p] \in {None, c.inv[p]}
          /\ f.reg[p].outside = c.reg[p].outside
      BY <1>1, <2>1, SettledStays
    <2> HIDE DEF f
    <2>4. Treats(d, f, p, now)
      BY <2>1, <2>3, TreatsTwice
    <2>5. Treats(db, f, p, now) /\ f.inv[p] \in {None, db.inv[p]}
      BY <1>7, <2>1, <2>3, <2>4, TreatsTwice
    <2>6. OwnRow(d, p) /\ OwnRow(f, p)
      BY <1>4, <1>7, <1>8, <2>1, <2>3, <2>5, HolderRow
    <2> QED BY <1>7, <2>2, <2>5, <2>6, ActedHonest
  <1>9. CASE Commit({signed(d) : d \in {c \in placed : c.reg[p].status # "EXPIRED"}})
    <2> HIDE DEF signed
    <2>1. \A e \in {signed(d) : d \in {c \in placed : c.reg[p].status # "EXPIRED"}} :
              Honest(e) /\ MailStays(e)
      BY <1>8
    <2> QED BY <1>9, <2>1, CommittedHonest
  <1> QED BY <1>2, <1>5, <1>9

-----------------------------------------------------------------------------
(***************************************************************************)
(* The staff confirm, someone leaves, someone is promoted.                 *)
(***************************************************************************)
LEMMA ConfirmByStaffHonest ==
    ASSUME TypeOK, Promises, NEW p \in Person, ConfirmByStaff(p)
    PROVE  HonestStep
  <1> DEFINE r == db.reg[p]
             owed == r.status = "PENDING_EMAIL_CONFIRMATION" \/ LateSigner(r)
             how == Entry("staff")
             placed == IF owed THEN Allocated(db, p, now, how) ELSE {db}
             desked(d) == IF d.reg[p].status = "WAITLISTED" THEN d ELSE Confirmed(d, p)
             accepted == {desked(d) : d \in {e \in placed : e.reg[p].status # "EXPIRED"}}
  <1>1. GoodRows(db) /\ now \in Time /\ how \in Way /\ ~how.invited
    BY PublicAndStaffWays DEF TypeOK
  <1>2. /\ Commit(accepted)
        /\ ~owed => r.status \in {"PENDING_DECLARATION", "WAITLIST_OFFERED"}
    BY DEF ConfirmByStaff
  <1>3. ASSUME NEW d \in placed, d.reg[p].status # "EXPIRED"
        PROVE  Honest(desked(d)) /\ MailStays(desked(d))
    <2> DEFINE c == Confirmed(d, p)
    <2>2. CASE owed
      <3>1. d \in Allocated(db, p, now, how)
        BY <2>2
      <3> HIDE DEF how, placed
      <3>2. GoodRows(d) /\ Placed(db, d, p, now, how)
        BY <1>1, <3>1, AllocatedTreats
      <3>3. r.status \in NoPlace /\ r.status \notin LineStatus
        BY <2>2 DEF LateSigner, NoPlace, Terminal, LineStatus
      <3>4. Treats(db, db, p, now)
        BY TreatsAll
      <3>5. /\ Treats(db, d, p, now) /\ d.reg[p].status \in Moving /\ ~LiveInvitation(d, p, now)
            /\ LiveInvitation(db, p, now) \/ HasOwnPlace(db, p, now, how)
               => d.reg[p].status = "PENDING_DECLARATION"
            /\ (/\ ~HasClaim(db, p, now) /\ ~d.reg[p].outside
                /\ d.reg[p].status \in {"PENDING_DECLARATION", "WAITLIST_OFFERED"})
               => TakesNoTurn(db, d, p, now)
        <4>1. HasOwnPlace(db, p, now, how) => db.reg[p].outside \/ HasClaim(db, p, now)
          BY <1>1, ClaimsOf DEF HasOwnPlace
        <4> QED BY <1>1, <1>3, <3>2, <3>3, <3>4, <4>1, PlacedRow
      <3>6. /\ GoodRows(c) /\ Treats(d, c, p, now) /\ c.inv = d.inv
            /\ c.reg[p].status = "CONFIRMED" /\ c.reg[p].outside = d.reg[p].outside
        BY <3>2, ConfirmedTreats
      <3> HIDE DEF c, desked
      <3>7. Treats(db, c, p, now)
        BY <3>5, <3>6, TreatsTwice
      <3>8. d.reg[p].status # "WAITLISTED" => OwnRow(c, p)
        <4> SUFFICES ASSUME d.reg[p].status # "WAITLISTED" PROVE OwnRow(c, p)
          OBVIOUS
        <4>1. HonestTurn(c, p)
          BY <1>3, <3>5, <3>6, TurnBefore DEF HonestTurn, Moving
        <4> QED BY <3>3, <3>5, <3>6, <4>1, TakenUpRow DEF LiveInvitation
      <3>9. d.reg[p].status = "WAITLISTED" => OwnRow(d, p)
        BY <3>3, <3>5, TakenUpRow DEF HasOwnPlace, HonestTurn
      <3>10. desked(d) = IF d.reg[p].status = "WAITLISTED" THEN d ELSE c
        BY DEF desked, c
      <3> QED BY <3>5, <3>7, <3>8, <3>9, <3>10, ActedHonest
    <2>3. CASE ~owed
      <3>1. d = db /\ desked(d) = c
        BY <1>2, <2>3
      <3>2. /\ Treats(db, c, p, now) /\ c.inv = db.inv /\ c.reg[p].status = "CONFIRMED"
            /\ c.reg[p].outside = db.reg[p].outside
        BY <1>1, <3>1, ConfirmedTreats
      <3> HIDE DEF c, desked
      <3>3. r.status \notin NoPlace /\ p \notin Waiting(db)
        BY <1>2, <2>3 DEF NoPlace, Terminal, Waiting, WithStatus
      <3>4. OwnRow(c, p)
        BY <3>2, <3>3, HolderRow
      <3> QED BY <3>1, <3>2, <3>4, ActedHonest
    <2> QED BY <2>2, <2>3
  <1> HIDE DEF placed, desked
  <1>4. \A e \in accepted : Honest(e) /\ MailStays(e)
    BY <1>3
  <1> HIDE DEF accepted
  <1> QED BY <1>2, <1>4, CommittedHonest

LEMMA UnregisterHonest ==
    ASSUME TypeOK, Promises, NEW p \in Person, Unregister(p)
    PROVE  HonestStep
  <1> DEFINE left == [db EXCEPT !.reg[p] = Moved(@, "CANCELLED", None)]
             done == FillAvailableSpots(left, now)
  <1>1. GoodRows(db) /\ now \in Time
    BY DEF TypeOK
  <1>2. /\ Commit({done})
        /\ db.reg[p].status \in {"PENDING_DECLARATION", "WAITLISTED", "WAITLIST_OFFERED", "CONFIRMED"}
    BY DEF Unregister, AllowedFrom, Transitions, Terminal
  <1>3. left = [db EXCEPT !.reg[p] = Moved(@, "CANCELLED", None)]
    OBVIOUS
  <1> HIDE DEF left
  <1>4. GoodRows(left) /\ Treats(db, left, p, now) /\ left.inv = db.inv
        /\ left.reg[p].status = "CANCELLED" /\ left.reg[p].outside = db.reg[p].outside
    BY <1>1, <1>3, LeftTreats
  <1>5. Treats(left, done, p, now) /\ done.reg[p].status = "CANCELLED"
        /\ done.inv[p] \in {None, left.inv[p]} /\ done.reg[p].outside = left.reg[p].outside
    BY <1>1, <1>4, SettledStays
  <1> HIDE DEF done
  <1>6. OwnRow(done, p)
    BY <1>2, <1>4, <1>5, HolderRow DEF NoPlace, Terminal
  <1>7. Treats(db, done, p, now)
    BY <1>4, <1>5, TreatsTwice
  <1> QED BY <1>2, <1>6, <1>7, ActedHonest, CommittedHonest

-----------------------------------------------------------------------------
LEMMA PromoteHonest ==
    ASSUME TypeOK, Promises, NEW p \in Person, Promote(p)
    PROVE  HonestStep
  <1> DEFINE e == Expired(db, now)
             c == Confirmed(e, p)
             done == FillAvailableSpots(c, now)
  <1>1. GoodRows(db) /\ now \in Time
    BY DEF TypeOK
  <1>2. Commit({done}) /\ e.reg[p].status = "WAITLISTED"
    BY DEF Promote
  <1>3. GoodRows(e) /\ Treats(db, e, p, now) /\ RowTreated(db, e, p, now)
    BY <1>1, ExpiredGood, ExpiredTreats, FilledRow
  <1> HIDE DEF e
  <1>4. /\ GoodRows(c) /\ Treats(e, c, p, now) /\ c.inv = e.inv /\ c.reg[p].status = "CONFIRMED"
        /\ c.reg[p].outside = e.reg[p].outside
    BY <1>3, ConfirmedTreats
  <1> HIDE DEF c
  <1>5. Treats(c, done, p, now) /\ done.reg[p].status = "CONFIRMED"
        /\ done.inv[p] \in {None, c.inv[p]} /\ done.reg[p].outside = c.reg[p].outside
    BY <1>1, <1>4, SettledStays
  <1> HIDE DEF done
  <1>6. /\ db.reg[p].status = "WAITLISTED" /\ done.inv[p] \in {None, db.inv[p]}
        /\ done.reg[p].outside = db.reg[p].outside
    BY <1>2, <1>3, <1>4, <1>5 DEF RowTreated, RowSwept
  <1>7. OwnRow(done, p)
    BY <1>5, <1>6, HolderRow DEF NoPlace, Terminal
  <1>8. Treats(db, done, p, now)
    BY <1>3, <1>4, <1>5, TreatsTwice
  <1> QED BY <1>2, <1>7, <1>8, ActedHonest, CommittedHonest

-----------------------------------------------------------------------------
(***************************************************************************)
(* A place the staff give.                                                 *)
(***************************************************************************)
\* One place more changes no row, and no rule of who gives it.
LEMMA OneMoreStands ==
    ASSUME NEW d, GoodRows(d), d.ev.capacity # None, NEW t, NEW x,
           NEW e, e = [d EXCEPT !.ev.capacity = @ + 1]
    PROVE  GoodRows(e) /\ Treats(d, e, x, t) /\ e.reg = d.reg /\ e.inv = d.inv /\ e.mail = d.mail
  <1>1. d.ev.capacity \in Nat /\ d.ev.capacity + 1 # None
    BY CapacityRange, NoneAssumption
  <1>2. [d.ev EXCEPT !.capacity = @ + 1] \in StoredEvent
    BY <1>1 DEF GoodRows, Database, StoredEvent
  <1>3. GoodRows(e)
    BY <1>2, NewSettings
  <1>4. /\ e.ev = [d.ev EXCEPT !.capacity = @ + 1]
        /\ e.reg = d.reg /\ e.inv = d.inv /\ e.mail = d.mail
    BY DEF GoodRows, Database
  <1>5. /\ e.ev.status = d.ev.status /\ e.ev.offerOnly = d.ev.offerOnly
        /\ e.ev.released = d.ev.released /\ e.ev.capacity # None
    BY <1>1, <1>4 DEF GoodRows, Database, StoredEvent
  <1>6. RulesStand(d, e, t)
    BY <1>5 DEF RulesStand, ReleaseDue, DeadlineReleaseDue
  <1> QED BY <1>3, <1>4, <1>5, <1>6, TreatsSame

LEMMA SupplementaryPlaceTreats ==
    ASSUME NEW d, GoodRows(d), NEW t \in Time, NEW x, NEW e \in SupplementaryPlace(d, t)
    PROVE  /\ GoodRows(e) /\ Treats(d, e, x, t) /\ e.reg = d.reg /\ e.inv = d.inv /\ e.mail = d.mail
  <1>1. CASE HasRoom(d.ev, Occupied(d, t))
    BY <1>1, TreatsAll DEF SupplementaryPlace
  <1>2. CASE ~HasRoom(d.ev, Occupied(d, t))
    <2>1. d.ev.capacity # None /\ e = [d EXCEPT !.ev.capacity = @ + 1]
      BY <1>2 DEF SupplementaryPlace, HasRoom
    <2> QED BY <2>1, OneMoreStands
  <1> QED BY <1>1, <1>2

LEMMA OfferPlaceToHonest ==
    ASSUME TypeOK, Promises, NEW p \in Person, OfferPlaceTo(p)
    PROVE  HonestStep
  <1> DEFINE e == Expired(db, now)
             until == WaitlistOfferExpiry(now, StartAt)
             people == {p}
             offer(d) == Queued(Offered(d, people, until), people, "offerUntilStart", now)
             done(d) == FillAvailableSpots(offer(d), now)
  <1>1. GoodRows(db) /\ now \in Time
    BY DEF TypeOK
  <1>2. e.reg[p].status = "WAITLISTED" /\ Commit({done(d) : d \in SupplementaryPlace(e, now)})
    BY DEF OfferPlaceTo
  <1>3. until \in Deadline /\ "offerUntilStart" \in MailKind /\ people \in SUBSET Person
    BY <1>1, HoldsEndByTheStart, DeadlineRange DEF MailKind
  <1>4. GoodRows(e) /\ Treats(db, e, p, now) /\ RowTreated(db, e, p, now)
    BY <1>1, ExpiredGood, ExpiredTreats, FilledRow
  <1>5. \A q : q \in people <=> q = p
    OBVIOUS
  <1> HIDE DEF e, until, people
  <1>6. /\ db.reg[p].status = "WAITLISTED" /\ e.inv[p] \in {None, db.inv[p]}
        /\ e.reg[p].outside = db.reg[p].outside
    BY <1>2, <1>4 DEF RowTreated, RowSwept
  <1>7. ASSUME NEW d \in SupplementaryPlace(e, now)
        PROVE  Honest(done(d)) /\ MailStays(done(d))
    <2> DEFINE o == offer(d)
               f == done(d)
    <2>1. GoodRows(d) /\ Treats(e, d, p, now) /\ d.reg = e.reg /\ d.inv = e.inv
      BY <1>1, <1>4, SupplementaryPlaceTreats
    <2>2. GoodRows(o)
      BY <1>1, <1>3, <2>1, OfferedGood, QueuedGood
    <2>3. f = FillAvailableSpots(o, now)
      OBVIOUS
    <2> DEFINE kind == "offerUntilStart"
    <2>4. kind \in MailKind /\ o = Queued(Offered(d, people, until), people, kind, now)
      BY <1>3
    <2> HIDE DEF f, o, done, offer, kind
    <2>5. /\ o.ev = d.ev /\ o.inv = d.inv /\ d.mail \subseteq o.mail
          /\ \A q \in Person : o.reg[q] =
                 IF q \in people THEN Moved(d.reg[q], "WAITLIST_OFFERED", until) ELSE d.reg[q]
      <3>1. GoodRows(d) /\ now \in Time
        BY <1>1, <2>1
      <3> QED BY <1>3, <2>4, <3>1 DEF Queued, Offered, GoodRows, Database
    <2>6. o.reg[p].status = "WAITLIST_OFFERED" /\ o.reg[p].outside = d.reg[p].outside
      <3>1. o.reg[p] = Moved(d.reg[p], "WAITLIST_OFFERED", until)
        BY <1>5, <2>5
      <3>2. d.reg[p] \in Registration
        BY <2>1, RowsAre
      <3> QED BY <3>1, <3>2 DEF Moved, Registration
    <2>7. Treats(d, o, p, now)
      BY <1>5, <2>5, TreatsOthers
    <2>8. Treats(o, f, p, now) /\ RowTreated(o, f, p, now)
      BY <1>1, <2>2, <2>3, FillAvailableSpotsTreats, FilledRow
    <2>9. Treats(db, f, p, now)
      BY <1>4, <2>1, <2>7, <2>8, TreatsTwice
    <2>10. /\ f.inv[p] \in {None, db.inv[p]} /\ f.reg[p].status \in Moving \ {"WAITLISTED"}
           /\ f.reg[p].outside = db.reg[p].outside
      BY <1>6, <2>1, <2>5, <2>6, <2>8 DEF RowTreated, RowSwept, Moving
    <2>11. OwnRow(f, p)
      BY <1>6, <2>10, HolderRow DEF NoPlace, Terminal, Moving
    <2>12. Honest(f) /\ MailStays(f)
      BY <2>9, <2>11, ActedHonest
    <2> QED BY <2>12 DEF f
  <1> HIDE DEF done
  <1> QED BY <1>2, <1>7, CommittedHonest

\* A place with its declaration queued, its hold ahead: the sweep of that instant leaves it.
LEMMA GivenNowTreats ==
    ASSUME NEW d, GoodRows(d), NEW p \in Person, NEW t \in Time, ~Over(d, t),
           NEW hold \in Deadline, hold > t, NEW i \in Invitation \cup {None},
           NEW e, e = FillAvailableSpots(Queued(WithPlace([d EXCEPT !.inv[p] = i], p, hold),
                                                {p}, "declaration", t), t)
    PROVE  /\ Treats(d, e, p, t) /\ e.reg[p].status = "PENDING_DECLARATION"
           /\ e.inv[p] \in {None, i}
  <1> DEFINE free == [d EXCEPT !.inv[p] = i]
             placed == WithPlace(free, p, hold)
             people == {p}
             told == Queued(placed, people, "declaration", t)
  <1>1. e = FillAvailableSpots(told, t) /\ free = [d EXCEPT !.inv[p] = i]
        /\ people \in SUBSET Person /\ "declaration" \in MailKind
    BY DEF MailKind
  <1> HIDE DEF free, people
  <1>2. GoodRows(free)
    BY <1>1, NewInvitation
  <1>a. /\ free.ev = d.ev /\ free.reg = d.reg /\ free.mail = d.mail /\ free.inv[p] = i
        /\ \A q \in Person \ {p} : free.inv[q] = d.inv[q]
    BY <1>1 DEF GoodRows, Database
  <1>3. /\ GoodRows(free) /\ Treats(d, free, p, t) /\ free.ev = d.ev /\ free.inv[p] = i
    BY <1>2, <1>a, TreatsOthers
  <1>4. placed = WithPlace(free, p, hold)
    OBVIOUS
  <1> HIDE DEF placed
  <1>5. /\ GoodRows(placed) /\ Treats(free, placed, p, t) /\ placed.inv = free.inv
        /\ placed.reg[p].status = "PENDING_DECLARATION" /\ placed.reg[p].hold = hold
    BY <1>3, <1>4, PlaceGiven
  <1>6. /\ GoodRows(told) /\ told.ev = placed.ev /\ told.reg = placed.reg /\ told.inv = placed.inv
        /\ placed.mail \subseteq told.mail
    BY <1>1, <1>5, QueuedOnly, QueuedGood
  <1> HIDE DEF told
  <1>7. Treats(placed, told, p, t)
    BY <1>6, TreatsOthers
  <1>8. Treats(told, e, p, t) /\ RowTreated(told, e, p, t)
    BY <1>1, <1>6, FillAvailableSpotsTreats, FilledRow
  <1>9. Treats(d, told, p, t)
    BY <1>3, <1>5, <1>7, TreatsTwice
  <1>10. Treats(d, e, p, t)
    BY <1>8, <1>9, TreatsTwice
  <1>11. Spared(told, p, t)
    <2>1. ~Over(told, t)
      BY <1>9 DEF Treats, Over
    <2>2. ~Past(hold, t)
      BY DeadlineRange DEF Past
    <2> QED BY <1>5, <1>6, <2>1, <2>2 DEF Spared
  <1>12. e.reg[p].status = "PENDING_DECLARATION"
    BY <1>5, <1>6, <1>8, <1>11 DEF RowTreated, RowSwept, Moving, Spared, LineStatus
  <1>13. e.inv[p] \in {None, i}
    BY <1>3, <1>5, <1>6, <1>8 DEF RowTreated
  <1> QED BY <1>10, <1>12, <1>13

LEMMA GivePlaceNowHonest ==
    ASSUME TypeOK, Promises, NEW p \in Person, GivePlaceNow(p)
    PROVE  HonestStep
  <1> DEFINE cleared == [db EXCEPT !.fam[p] = None]
             swept == Expired(cleared, now)
             adopts == LiveInvitation(swept, p, now)
             seat == swept.reg[p].outside \/ (adopts /\ swept.inv[p].outside)
             mine == [swept EXCEPT !.reg[p].outside = seat]
             wanted == IF HasRoom(mine.ev, Occupied(mine, now)) \/ LapsedHolds(mine, now) = {}
                       THEN mine ELSE ExpireStaleHolds(mine, now, 1, "staff")
             hold == VouchedPlaceExpiry(now)
             placed(d) == Queued(WithPlace([d EXCEPT !.inv[p] = IF adopts THEN None ELSE @],
                                           p, hold), {p}, "declaration", now)
             done(d) == FillAvailableSpots(placed(d), now)
             Fit(d) == /\ GoodRows(d) /\ Treats(db, d, p, now)
                       /\ LiveInvitation(db, p, now) \/ d.inv[p] \in {None, db.inv[p]}
  <1>1. GoodRows(db) /\ now \in Time
    BY DEF TypeOK
  <1>2. /\ \/ Commit({done(d) : d \in {mine}})
           \/ Commit({done(d) : d \in SupplementaryPlace(wanted, now)})
        /\ db.ev.status = "SCHEDULED" /\ now < StartAt
        /\ db.reg[p].status = "PENDING_EMAIL_CONFIRMATION"
    BY DEF GivePlaceNow
  <1>3. /\ GoodRows(cleared) /\ cleared.ev = db.ev /\ cleared.reg = db.reg
        /\ cleared.inv = db.inv /\ cleared.mail = db.mail
    BY <1>1, NewFamilyPlace DEF GoodRows, Database
  <1> HIDE DEF cleared
  <1>4. Treats(db, cleared, p, now)
    BY <1>3, TreatsSame
  <1>5. GoodRows(swept) /\ Treats(cleared, swept, p, now) /\ RowTreated(cleared, swept, p, now)
    BY <1>1, <1>3, ExpiredGood, ExpiredTreats, FilledRow
  <1>6. seat \in BOOLEAN
    OBVIOUS
  <1>7. adopts <=> LiveInvitation(swept, p, now)
    OBVIOUS
  <1> HIDE DEF swept, adopts, seat
  <1>8. LiveInvitation(db, p, now) => adopts
    BY <1>3, <1>5, <1>7 DEF RowTreated, LiveInvitation
  <1>9. GoodRows(mine)
    BY <1>5, <1>6, NewOutside
  <1>10. /\ mine.ev = swept.ev /\ mine.mail = swept.mail /\ mine.inv = swept.inv
         /\ \A q \in Person \ {p} : mine.reg[q] = swept.reg[q]
    BY <1>5 DEF GoodRows, Database
  <1> HIDE DEF mine
  <1>11. Fit(mine)
    <2>1. Treats(swept, mine, p, now)
      BY <1>10, TreatsOthers
    <2>2. Treats(db, mine, p, now)
      BY <1>4, <1>5, <2>1, TreatsTwice
    <2> QED BY <1>3, <1>5, <1>9, <1>10, <2>2 DEF RowTreated
  <1>12. Fit(wanted)
    <2> DEFINE after == ExpireStaleHolds(mine, now, 1, "staff")
    <2>1. GoodRows(after) /\ Treats(mine, after, p, now) /\ RowTreated(mine, after, p, now)
      BY <1>1, <1>9, ExpireStaleHoldsGood, ExpireStaleHoldsTreats, FilledRow
    <2>2. wanted \in {mine, after}
      OBVIOUS
    <2> HIDE DEF after, wanted
    <2>3. Treats(db, after, p, now)
      BY <1>11, <2>1, TreatsTwice
    <2> QED BY <1>11, <2>1, <2>2, <2>3 DEF RowTreated
  <1> HIDE DEF wanted
  <1>13. ASSUME NEW d \in SupplementaryPlace(wanted, now) PROVE Fit(d)
    <2>1. GoodRows(d) /\ Treats(wanted, d, p, now) /\ d.inv = wanted.inv
      BY <1>1, <1>12, SupplementaryPlaceTreats
    <2>2. Treats(db, d, p, now)
      BY <1>12, <2>1, TreatsTwice
    <2> QED BY <1>12, <2>1, <2>2
  <1>14. hold \in Deadline /\ hold > now
    <2>1. now \in Nat
      BY <1>1, DeadlineRange
    <2> QED BY <1>2, <2>1, HoldLasts, HoldsEndByTheStart, DeadlineRange, DatesAssumption
  <1> HIDE DEF hold
  <1>15. ASSUME NEW d, Fit(d) PROVE Honest(done(d)) /\ MailStays(done(d))
    <2> DEFINE f == done(d)
    <2>1. PICK i \in Invitation \cup {None} :
              /\ i = (IF adopts THEN None ELSE d.inv[p])
              /\ f = FillAvailableSpots(
                  Queued(WithPlace([d EXCEPT !.inv[p] = i], p, hold), {p}, "declaration", now), now)
      <3>1. d.inv[p] \in Invitation \cup {None}
        BY <1>15 DEF GoodRows, Database
      <3>2. CASE adopts
        BY <3>2
      <3>3. CASE ~adopts
        BY <3>1, <3>3
      <3> QED BY <3>2, <3>3
    <2> HIDE DEF f, done
    <2>2. ~Over(d, now)
      <3>1. now \in Nat /\ StartAt \in Nat
        BY <1>1, DeadlineRange, DatesAssumption
      <3> QED BY <1>2, <1>15, <3>1 DEF Over, Treats
    <2>3. /\ Treats(d, f, p, now) /\ f.reg[p].status = "PENDING_DECLARATION"
          /\ f.inv[p] \in {None, i}
      BY <1>1, <1>14, <1>15, <2>1, <2>2, GivenNowTreats
    <2>4. Treats(db, f, p, now)
      BY <1>15, <2>3, TreatsTwice
    <2>5. ~LiveInvitation(f, p, now)
      BY <1>8, <1>15, <2>1, <2>3 DEF LiveInvitation
    <2>6. OwnRow(f, p)
      BY <1>2, <2>3, <2>5, TakenUpRow DEF NoPlace, HonestTurn
    <2>7. Honest(f) /\ MailStays(f)
      BY <2>4, <2>6, ActedHonest
    <2> QED BY <2>7 DEF f
  <1> HIDE DEF done, Fit
  <1> QED BY <1>2, <1>11, <1>13, <1>15, CommittedHonest

-----------------------------------------------------------------------------
(***************************************************************************)
(* A mark of the hidden list.                                              *)
(***************************************************************************)
LEMMA FillingTreats ==
    ASSUME NEW d, GoodRows(d), NEW x \in Person, NEW t \in Time, NEW e,
           e \in {d, FillAvailableSpots(d, t)}
    PROVE  GoodRows(e) /\ Treats(d, e, x, t) /\ RowTreated(d, e, x, t)
  <1>1. Treats(d, d, x, t) /\ RowTreated(d, d, x, t)
    <2>1. Treats(d, d, None, t)
      BY TreatsAll
    <2> QED BY <2>1, TreatsAll, NobodyIsNobody DEF Treats
  <1> QED BY <1>1, FillAvailableSpotsGood, FillAvailableSpotsTreats, FilledRow

\* The emails of the offer that is left go, but not one being sent.
LEMMA OfferWithdrawn ==
    ASSUME NEW d, GoodRows(d), NEW p \in Person, NEW t \in Time,
           NEW left, left \subseteq d.mail, \A m \in d.mail : m.to # p \/ InFlight(m) => m \in left,
           NEW w, w \in {d, [d EXCEPT !.mail = left]}, NEW e, e = AllocationEmail(w, p, t)
    PROVE  Treats(d, e, p, t) /\ e.reg = d.reg /\ e.inv = d.inv
  <1>1. left \in SUBSET Mail
    BY DEF GoodRows, Database
  <1>3. GoodRows(w)
    BY <1>1, NewMail
  <1>4. /\ w.ev = d.ev /\ w.reg = d.reg /\ w.inv = d.inv /\ w.mail \in {left, d.mail}
    BY DEF GoodRows, Database
  <1>5. e \in {w, Queued(w, {p}, "declaration", t)}
    BY DEF AllocationEmail
  <1>6. e.ev = w.ev /\ e.reg = w.reg /\ e.inv = w.inv /\ w.mail \subseteq e.mail
    BY <1>3, <1>5, QueuedOnly
  <1>7. \A m \in d.mail : m.to # p \/ InFlight(m) => m \in e.mail
    BY <1>4, <1>6
  <1> QED BY <1>4, <1>6, <1>7, TreatsOthers

\* Whose seat changes, in the line or not, keeps what they have.
LEMMA ReseatedRow ==
    ASSUME TypeOK, Promises, NEW p \in Person, NEW e, Treats(db, e, p, now),
           RowTreated(db, e, p, now), GoodRows(e), e.reg[p].status \in Active,
           NEW outside \in BOOLEAN, e.reg[p].outside # outside,
           ~(outside /\ e.reg[p].status \in LineStatus), SetOutside(p, outside),
           NEW c, c.ev = e.ev, c.inv = e.inv, c.mail = e.mail,
           c.reg[p] = [e.reg[p] EXCEPT !.outside = outside],
           NEW f, ~outside => f = c, RowTreated(c, f, p, now)
    PROVE  OwnRow(f, p)
  <1> DEFINE r == e.reg[p]
  <1>1. /\ r \in Registration /\ r.outside \in BOOLEAN
        /\ c.reg[p].status = r.status /\ c.reg[p].hold = r.hold /\ c.reg[p].outside = outside
    BY RowsAre DEF Registration
  <1>2. f.inv[p] \in {None, db.inv[p]}
    BY DEF RowTreated
  <1>a. HonestTurn(f, p)
    <2>1. CASE outside
      BY <1>1, <2>1 DEF HonestTurn, RowTreated, RowSwept
    <2>2. CASE ~outside
      <3>1. outside = FALSE
        BY <2>2
      <3> QED BY <3>1 DEF HonestTurn
    <2> QED BY <2>1, <2>2
  <1>3. CASE db.reg[p].status \in NoPlace
    <2>1. db.reg[p].status = "PENDING_EMAIL_CONFIRMATION" /\ r.status = "PENDING_EMAIL_CONFIRMATION"
      BY <1>3 DEF RowTreated, RowSwept, Moving, LineStatus, NoPlace, Terminal, Active
    <2>2. f.reg[p].status = "PENDING_EMAIL_CONFIRMATION"
      BY <1>1, <2>1 DEF RowTreated, RowSwept, Moving
    <2>3. f.reg[p].hold = db.reg[p].hold \/ (f.reg[p].hold = None /\ Past(db.reg[p].hold, now))
      BY <1>1, <2>1 DEF RowTreated, RowSwept
    <2>4. HoldsFamilyReservation(db, p, now) => HoldsFamilyReservation(f, p, now)
      <3> SUFFICES ASSUME HoldsFamilyReservation(db, p, now) PROVE HoldsFamilyReservation(f, p, now)
        OBVIOUS
      <3>1. db.reg[p].hold # None /\ db.reg[p].hold > now
        BY DEF HoldsFamilyReservation, Ahead
      <3>2. db.reg[p].hold \in Nat /\ now \in Nat
        BY <3>1, RowsAre, DeadlineRange DEF TypeOK, Registration
      <3>3. ~Past(db.reg[p].hold, now)
        BY <3>2, <3>1 DEF Past
      <3> QED BY <2>2, <2>3, <3>1, <3>3 DEF HoldsFamilyReservation, Ahead
    <2>5. f.reg[p].hold # None => f.reg[p].hold <= CloseAt
      BY <2>1, <2>3 DEF Promises, ReservationsEndByClose
    <2>6. p \notin Waiting(db)
      BY <2>1 DEF Waiting, WithStatus
    <2> QED BY <2>1, <2>2, <2>4, <2>5, <2>6 DEF OwnRow, HonestRow, HonestTurn, NoPlace
  <1>4. CASE db.reg[p].status \notin NoPlace
    <2>1. f.reg[p].status # "PENDING_EMAIL_CONFIRMATION"
      BY <1>1, <1>4 DEF RowTreated, RowSwept, Moving, NoPlace
    <2>2. p \notin Waiting(db)
      <3> SUFFICES ASSUME p \in Waiting(db) PROVE FALSE
        OBVIOUS
      <3>1. db.reg[p].status = "WAITLISTED" /\ ~db.reg[p].outside
        BY DEF Waiting, WithStatus
      <3>2. r.status \in LineStatus /\ r.outside = db.reg[p].outside
        BY <3>1 DEF RowTreated, RowSwept, Moving, LineStatus, Active
      <3> QED BY <1>1, <3>1, <3>2
    <2>3. Spared(db, p, now) => f.reg[p].status # "EXPIRED"
      <3>1. CASE ~outside
        BY <1>1, <3>1 DEF Active
      <3>2. CASE outside
        <4> SUFFICES ASSUME Spared(db, p, now) PROVE f.reg[p].status # "EXPIRED"
          OBVIOUS
        <4>1. Spared(e, p, now)
          BY DEF RowTreated
        <4>2. Spared(c, p, now)
          BY <1>1, <3>2, <4>1
             DEF Spared, Over, AwaitingItsFirstEmail, OfferAwaitingItsFirstEmail, EmailQueued
        <4> QED BY <4>2 DEF RowTreated, Spared
      <3> QED BY <3>1, <3>2
    <2> QED BY <1>2, <1>a, <1>4, <2>1, <2>2, <2>3, HolderRow
  <1> QED BY <1>3, <1>4

LEMMA SetOutsideHonest ==
    ASSUME TypeOK, Promises, NEW p \in Person, NEW outside \in BOOLEAN, SetOutside(p, outside)
    PROVE  HonestStep
  <1> DEFINE e == Served(db, now)
             r == e.reg[p]
             seat == [r EXCEPT !.outside = outside]
             flagged == [e EXCEPT !.reg[p] = seat]
             filled == IF outside THEN FillAvailableSpots(flagged, now) ELSE flagged
             left(d) == {m \in d.mail : \/ m.to # p \/ m.kind = "declaration" \/ InFlight(m)}
             withoutOffer(d) ==
                 IF r.status # "WAITLIST_OFFERED" THEN d ELSE [d EXCEPT !.mail = left(d)]
             told(d) == AllocationEmail(withoutOffer(d), p, now)
             how == Entry("staff")
             seated == IF outside /\ r.status \in LineStatus
                       THEN {told(d) : d \in Allocated(filled, p, now, how)}
                       ELSE {filled}
  <1>1. GoodRows(db) /\ now \in Time
    BY DEF TypeOK
  <1>2. /\ Commit({e}) \/ (r.outside # outside /\ Commit(seated))
        /\ r.status \in Active
    BY DEF SetOutside, LineStatus
  <1>3. GoodRows(e) /\ Treats(db, e, p, now) /\ Treats(db, e, None, now) /\ RowTreated(db, e, p, now)
    BY <1>1, ServedGood, ServedTreats, FilledRow
  <1> HIDE DEF e
  <1>4. CASE Commit({e})
    BY <1>3, <1>4, SweptHonest, CommittedHonest
  <1>5. GoodRows(flagged)
    <2>1. GoodRows([e EXCEPT !.reg[p].outside = outside])
      BY <1>3, NewOutside
    <2> QED BY <2>1
  <1>6. /\ flagged.ev = e.ev /\ flagged.mail = e.mail /\ flagged.inv = e.inv
        /\ flagged.reg[p] = seat /\ \A q \in Person \ {p} : flagged.reg[q] = e.reg[q]
    <2>1. flagged = [e EXCEPT !.reg[p] = seat]
      OBVIOUS
    <2> HIDE DEF flagged, seat
    <2> QED BY <1>3, <2>1, RowReplaced
  <1>7. seat = [r EXCEPT !.outside = outside]
    OBVIOUS
  <1>8. filled \in {flagged, FillAvailableSpots(flagged, now)} /\ (~outside => filled = flagged)
    OBVIOUS
  <1> HIDE DEF flagged, seat
  <1>9. GoodRows(filled) /\ Treats(flagged, filled, p, now) /\ RowTreated(flagged, filled, p, now)
    BY <1>1, <1>5, <1>8, FillingTreats
  <1>10. Treats(db, filled, p, now)
    <2>1. Treats(e, flagged, p, now)
      BY <1>6, TreatsOthers
    <2> QED BY <1>3, <1>9, <2>1, TreatsTwice
  <1> HIDE DEF filled
  <1>11. CASE r.outside # outside /\ Commit(seated) /\ ~(outside /\ r.status \in LineStatus)
    <2>1. Commit({filled})
      BY <1>11
    <2>2. OwnRow(filled, p)
      BY <1>2, <1>3, <1>6, <1>7, <1>8, <1>9, <1>11, ReseatedRow
    <2> QED BY <1>10, <2>1, <2>2, ActedHonest, CommittedHonest
  <1>12. CASE r.outside # outside /\ Commit(seated) /\ outside /\ r.status \in LineStatus
    <2>1. db.reg[p].status \in LineStatus
      BY <1>3, <1>12 DEF RowTreated, LineStatus
    <2>2. ~LiveInvitation(db, p, now) /\ db.reg[p].status \notin NoPlace
      BY <2>1 DEF Promises, InvitedHaveNoPlace, LineStatus, NoPlace, Terminal
    <2>3. filled.inv[p] \in {None, db.inv[p]}
      BY <1>3, <1>6, <1>9 DEF RowTreated
    <2>4. filled.reg[p].outside
      <3>1. seat.outside = outside
        BY <1>3, <1>7, RowsAre DEF Registration
      <3> QED BY <1>6, <1>9, <1>12, <3>1 DEF RowTreated, RowSwept
    <2>5. how \in Way /\ ~how.invited
      BY PublicAndStaffWays
    <2> HIDE DEF how
    <2>6. ASSUME NEW d \in Allocated(filled, p, now, how) PROVE Honest(told(d)) /\ MailStays(told(d))
      <3> DEFINE f == told(d)
                 w == withoutOffer(d)
      <3>1. GoodRows(d) /\ Placed(filled, d, p, now, how)
        BY <1>1, <1>9, <2>5, AllocatedTreats
      <3>2. ~Adopts(filled, p, now) /\ HasOwnPlace(filled, p, now, how)
        BY <2>2, <2>3, <2>4 DEF Adopts, LiveInvitation, HasOwnPlace
      <3>3. /\ Treats(filled, d, p, now) /\ d.reg[p].status = "PENDING_DECLARATION"
            /\ d.inv[p] \in {None, filled.inv[p]} /\ d.reg[p].outside
        BY <2>4, <3>1, <3>2 DEF Placed
      <3>4. f = AllocationEmail(w, p, now)
        OBVIOUS
      <3>5. PICK kept :
                /\ kept \subseteq d.mail /\ \A m \in d.mail : m.to # p \/ InFlight(m) => m \in kept
                /\ w \in {d, [d EXCEPT !.mail = kept]}
        <4>1. left(d) \subseteq d.mail /\ \A m \in d.mail : m.to # p \/ InFlight(m) => m \in left(d)
          OBVIOUS
        <4>2. w \in {d, [d EXCEPT !.mail = left(d)]}
          OBVIOUS
        <4> HIDE DEF left, w
        <4> QED BY <4>1, <4>2
      <3> HIDE DEF w, f, told, left, withoutOffer
      <3>6. Treats(d, f, p, now) /\ f.reg = d.reg /\ f.inv = d.inv
        BY <1>1, <3>1, <3>4, <3>5, OfferWithdrawn
      <3>7. Treats(db, f, p, now)
        BY <1>10, <3>3, <3>6, TreatsTwice
      <3>8. f.inv[p] \in {None, db.inv[p]}
        BY <2>3, <3>3, <3>6
      <3>9. OwnRow(f, p)
        BY <2>2, <3>3, <3>6, <3>8, HolderRow
      <3>10. Honest(f) /\ MailStays(f)
        BY <3>7, <3>9, ActedHonest
      <3> QED BY <3>10 DEF f
    <2>7. Commit({told(d) : d \in Allocated(filled, p, now, how)})
      BY <1>12
    <2> HIDE DEF told
    <2> QED BY <2>6, <2>7, CommittedHonest
  <1> QED BY <1>2, <1>4, <1>11, <1>12

-----------------------------------------------------------------------------
(***************************************************************************)
(* Invitations.                                                            *)
(***************************************************************************)
LEMMA RowSweptTwice ==
    ASSUME NEW r, NEW s, NEW u, NEW t, RowSwept(r, s, t), RowSwept(s, u, t)
    PROVE  RowSwept(r, u, t)
  <1>1. "PENDING_EMAIL_CONFIRMATION" \notin Moving
    BY DEF Moving
  <1> QED BY <1>1 DEF RowSwept, Past

\* An invited person's own row is what it was, whatever becomes of the invitation.
LEMMA InvitedRow ==
    ASSUME TypeOK, Promises, NEW p \in Person, db.reg[p].status \in NoPlace,
           NEW e, RowSwept(db.reg[p], e.reg[p], now), e.reg[p].status = db.reg[p].status
    PROVE  OwnRow(e, p)
  <1>1. /\ p \notin Waiting(db)
        /\ db.reg[p].status \notin {"PENDING_DECLARATION", "WAITLIST_OFFERED"}
    BY DEF Waiting, WithStatus, NoPlace, Terminal
  <1>2. HoldsFamilyReservation(db, p, now) => HoldsFamilyReservation(e, p, now)
    <2> SUFFICES ASSUME HoldsFamilyReservation(db, p, now) PROVE HoldsFamilyReservation(e, p, now)
      OBVIOUS
    <2>1. /\ db.reg[p].status = "PENDING_EMAIL_CONFIRMATION"
          /\ db.reg[p].hold # None /\ db.reg[p].hold > now
      BY DEF HoldsFamilyReservation, Ahead
    <2>2. db.reg[p].hold \in Nat /\ now \in Nat
      BY <2>1, RowsAre, DeadlineRange DEF TypeOK, Registration
    <2>3. ~Past(db.reg[p].hold, now)
      BY <2>1, <2>2 DEF Past
    <2> QED BY <2>1, <2>3 DEF RowSwept, HoldsFamilyReservation, Ahead
  <1>3. HoldsFamilyReservation(e, p, now) => e.reg[p].status = "PENDING_EMAIL_CONFIRMATION"
    BY DEF HoldsFamilyReservation
  <1>4. e.reg[p].status = "PENDING_EMAIL_CONFIRMATION" /\ e.reg[p].hold # None
        => e.reg[p].hold <= CloseAt
    BY DEF RowSwept, Promises, ReservationsEndByClose
  <1>5. HonestTurn(e, p)
    BY DEF HonestTurn, NoPlace, Terminal
  <1> QED BY <1>1, <1>2, <1>3, <1>4, <1>5 DEF OwnRow, HonestRow

LEMMA InviteHonest ==
    ASSUME TypeOK, Promises, NEW p \in Person, NEW outside \in BOOLEAN, Invite(p, outside)
    PROVE  HonestStep
  <1> DEFINE e == FillAvailableSpots(db, now)
             more == [e EXCEPT !.ev.capacity = @ + 1]
             i == [until |-> InvitationDeadline(now), outside |-> outside]
             invited(d) == [d EXCEPT !.inv[p] = i]
  <1>1. GoodRows(db) /\ now \in Time
    BY DEF TypeOK
  <1>2. GoodRows(e) /\ Treats(db, e, p, now) /\ RowTreated(db, e, p, now)
    BY <1>1, FillAvailableSpotsGood, FillAvailableSpotsTreats, FilledRow
  <1>3. e.reg[p].status \notin Active /\ e.inv[p] = None
    BY DEF Invite
  <1>4. InvitationDeadline(now) \in Deadline
    BY <1>1, HoldsEndByTheStart, DeadlineRange
  <1>5. i \in Invitation \cup {None}
    BY <1>4 DEF Invitation
  <1> HIDE DEF i
  <1>6. PICK raised : /\ raised = {e} \/ raised = {} \/ (e.ev.capacity # None /\ raised = {more})
                      /\ Commit({invited(d) : d \in raised})
    BY DEF Invite, e, i
  <1> HIDE DEF e
  <1>7. e.ev.capacity # None
        => /\ GoodRows(more) /\ Treats(e, more, p, now)
           /\ more.reg = e.reg /\ more.inv = e.inv /\ more.mail = e.mail
    BY <1>2, OneMoreStands
  <1> HIDE DEF more
  <1>8. ASSUME NEW d \in raised PROVE Honest(invited(d)) /\ MailStays(invited(d))
    <2> DEFINE f == invited(d)
    <2>1. /\ GoodRows(d) /\ Treats(e, d, p, now)
          /\ d.reg = e.reg /\ d.inv = e.inv /\ d.mail = e.mail
      BY <1>2, <1>6, <1>7, <1>8, TreatsAll
    <2>2. f = [d EXCEPT !.inv[p] = i]
      OBVIOUS
    <2> HIDE DEF f, invited
    <2>3. Treats(d, f, p, now) /\ f.reg = d.reg
      BY <1>5, <2>1, <2>2, InvitationLeaves
    <2>5. Treats(db, f, p, now)
      BY <1>2, <2>1, <2>3, TreatsTwice
    <2>6. OwnRow(f, p)
      <3>1. f.reg[p] = e.reg[p] /\ f.reg[p].status \in NoPlace
        <4>1. e.reg[p].status \in Status
          BY <1>2, RowsAre DEF Registration
        <4> QED BY <1>3, <2>1, <2>3, <4>1 DEF NoPlace, Status
      <3>2. f.reg[p].status \notin LineStatus /\ f.reg[p].status # "PENDING_EMAIL_CONFIRMATION"
        BY <1>3, <3>1 DEF LineStatus, Active
      <3>3. ~HoldsFamilyReservation(db, p, now)
        BY <1>2, <3>1, <3>2 DEF HoldsFamilyReservation, RowTreated, RowSwept, Moving
      <3>4. ~LiveInvitation(db, p, now)
        BY <1>2, <1>3 DEF RowTreated, LiveInvitation
      <3>5. Spared(db, p, now) => f.reg[p].status # "EXPIRED"
        BY <1>2, <3>1 DEF RowTreated, Spared
      <3>6. HonestTurn(f, p)
        BY <3>1 DEF HonestTurn, NoPlace, Terminal
      <3> QED BY <3>1, <3>2, <3>3, <3>4, <3>5, <3>6 DEF OwnRow, HonestRow, LineStatus
    <2>7. Honest(f) /\ MailStays(f)
      BY <2>5, <2>6, ActedHonest
    <2> QED BY <2>7 DEF f
  <1> HIDE DEF invited
  <1> QED BY <1>6, <1>8, CommittedHonest

\* Who has a live invitation after the sweep had it before, and no place.
LEMMA InvitedStill ==
    ASSUME TypeOK, Promises, NEW p \in Person, NEW e, e = Expired(db, now),
           LiveInvitation(e, p, now)
    PROVE  /\ GoodRows(e) /\ Treats(db, e, p, now) /\ RowTreated(db, e, p, now)
           /\ db.reg[p].status \in NoPlace /\ e.reg[p].status = db.reg[p].status
  <1>1. GoodRows(e) /\ Treats(db, e, p, now) /\ RowTreated(db, e, p, now)
    BY ExpiredGood, ExpiredTreats, FilledRow DEF TypeOK
  <1>2. db.reg[p].status \in NoPlace
    BY <1>1 DEF RowTreated, LiveInvitation, Promises, InvitedHaveNoPlace
  <1>3. e.reg[p].status = db.reg[p].status
    BY <1>1, <1>2 DEF RowTreated, RowSwept, Moving, LineStatus, NoPlace, Terminal
  <1> QED BY <1>1, <1>2, <1>3

LEMMA ResendInvitationHonest ==
    ASSUME TypeOK, Promises, NEW p \in Person, ResendInvitation(p)
    PROVE  HonestStep
  <1> DEFINE e == Expired(db, now)
             later == [e.inv[p] EXCEPT !.until = InvitationDeadline(now)]
             moved == [e EXCEPT !.inv[p] = later]
  <1>1. now \in Time /\ e = Expired(db, now) /\ LiveInvitation(e, p, now)
        /\ (Commit({e}) \/ Commit({moved}))
    BY DEF TypeOK, ResendInvitation
  <1> HIDE DEF e
  <1>2. /\ GoodRows(e) /\ Treats(db, e, p, now) /\ RowTreated(db, e, p, now)
        /\ db.reg[p].status \in NoPlace /\ e.reg[p].status = db.reg[p].status
    BY <1>1, InvitedStill
  <1>3. InvitationDeadline(now) \in Deadline
    BY <1>1, HoldsEndByTheStart, DeadlineRange
  <1>4. later \in Invitation \cup {None}
    BY <1>1, <1>2, <1>3 DEF LiveInvitation, GoodRows, Database, Invitation
  <1>5. moved = [e EXCEPT !.inv[p] = later]
    OBVIOUS
  <1> HIDE DEF later, moved
  <1>6. Treats(e, moved, p, now) /\ moved.reg = e.reg
    BY <1>2, <1>4, <1>5, InvitationLeaves
  <1>7. Treats(db, moved, p, now)
    BY <1>2, <1>6, TreatsTwice
  <1>8. OwnRow(e, p) /\ OwnRow(moved, p)
    BY <1>2, <1>6, InvitedRow DEF RowTreated
  <1> QED BY <1>1, <1>2, <1>7, <1>8, ActedHonest, CommittedHonest

LEMMA WithdrawInvitationHonest ==
    ASSUME TypeOK, Promises, NEW p \in Person, WithdrawInvitation(p)
    PROVE  HonestStep
  <1> DEFINE e == Expired(db, now)
             withdrawn == [e EXCEPT !.inv[p] = None]
             done == FillAvailableSpots(withdrawn, now)
  <1>1. now \in Time /\ e = Expired(db, now) /\ LiveInvitation(e, p, now) /\ Commit({done})
    BY DEF TypeOK, WithdrawInvitation
  <1> HIDE DEF e
  <1>2. /\ GoodRows(e) /\ Treats(db, e, p, now) /\ RowTreated(db, e, p, now)
        /\ db.reg[p].status \in NoPlace /\ e.reg[p].status = db.reg[p].status
    BY <1>1, InvitedStill
  <1>3. withdrawn = [e EXCEPT !.inv[p] = None]
    OBVIOUS
  <1> HIDE DEF withdrawn
  <1>4. GoodRows(withdrawn) /\ Treats(e, withdrawn, p, now) /\ withdrawn.reg = e.reg
    BY <1>2, <1>3, InvitationGone
  <1>5. Treats(withdrawn, done, p, now) /\ RowTreated(withdrawn, done, p, now)
    BY <1>1, <1>4, FillAvailableSpotsTreats, FilledRow
  <1> HIDE DEF done
  <1>6. Treats(db, done, p, now)
    BY <1>2, <1>4, <1>5, TreatsTwice
  <1>7. RowSwept(db.reg[p], done.reg[p], now)
    BY <1>2, <1>4, <1>5, RowSweptTwice DEF RowTreated
  <1>8. done.reg[p].status = db.reg[p].status
    BY <1>2, <1>4, <1>5 DEF RowTreated, RowSwept, Moving, LineStatus, NoPlace, Terminal
  <1>9. OwnRow(done, p)
    BY <1>2, <1>7, <1>8, InvitedRow
  <1> QED BY <1>1, <1>6, <1>9, ActedHonest, CommittedHonest

LEMMA AcceptInvitationHonest ==
    ASSUME TypeOK, Promises, NEW p \in Person, AcceptInvitation(p)
    PROVE  HonestStep
  <1> DEFINE row == WithForm(db, p, now, FALSE)
             seat == [row.reg[p] EXCEPT !.outside = db.inv[p].outside]
             kind == [row EXCEPT !.reg[p] = seat]
             proved == [row EXCEPT !.reg[p].outside = db.inv[p].outside, !.verified = @ \cup {p}]
             freed(d) == [d EXCEPT !.inv[p] = None]
             how == InvitedEntry
  <1>1. GoodRows(db) /\ now \in Time /\ how \in Way /\ how.invited
    BY Ways DEF TypeOK, InvitedEntry
  <1>2. /\ Commit({freed(d) : d \in AllocatedWithEmail(proved, p, now, how)})
        /\ MayEnter(db, p) /\ db.inv[p] # None /\ LiveInvitation(db, p, now)
    BY DEF AcceptInvitation, LiveInvitation
  <1>3. /\ GoodRows(row) /\ Treats(db, row, p, now)
        /\ row.reg[p].status = "PENDING_EMAIL_CONFIRMATION"
    <2> DEFINE staff == FALSE
    <2>1. staff \in BOOLEAN /\ row = WithForm(db, p, now, staff)
      OBVIOUS
    <2> HIDE DEF row, staff
    <2> QED BY <1>1, <1>2, <2>1, FormTreats
  <1> HIDE DEF row, how
  <1>4. GoodRows(kind)
    <2>1. GoodRows([row EXCEPT !.reg[p].outside = db.inv[p].outside])
      BY <1>1, <1>2, <1>3, OutsideIsBoolean, NewOutside
    <2> QED BY <2>1
  <1>5. /\ kind.verified \cup {p} \in SUBSET Person
        /\ proved = [kind EXCEPT !.verified = kind.verified \cup {p}]
    <2>1. kind.verified \cup {p} \in SUBSET Person
      BY <1>4 DEF GoodRows, Database
    <2>2. proved = [kind EXCEPT !.verified = kind.verified \cup {p}]
      BY <1>3 DEF GoodRows, Database
    <2> QED BY <2>1, <2>2
  <1>6. kind = [row EXCEPT !.reg[p] = seat]
    OBVIOUS
  <1>a. seat.outside = db.inv[p].outside
    BY <1>3, RowsAre DEF Registration
  <1> HIDE DEF kind, proved, seat
  <1>7. /\ kind.ev = row.ev /\ kind.mail = row.mail /\ kind.inv = row.inv
        /\ kind.reg[p] = seat
        /\ \A q \in Person \ {p} : kind.reg[q] = row.reg[q]
    BY <1>3, <1>6, RowReplaced
  <1>8. GoodRows(proved) /\ proved.ev = kind.ev /\ proved.reg = kind.reg
        /\ proved.inv = kind.inv /\ proved.mail = kind.mail
    BY <1>4, <1>5, NewVerified DEF GoodRows, Database
  <1>9. Treats(db, proved, p, now)
    <2>1. Treats(row, proved, p, now)
      BY <1>7, <1>8, TreatsOthers
    <2> QED BY <1>3, <2>1, TreatsTwice
  <1>10. ASSUME NEW d \in AllocatedWithEmail(proved, p, now, how)
         PROVE  Honest(freed(d)) /\ MailStays(freed(d))
    <2> DEFINE f == freed(d)
    <2>1. GoodRows(d) /\ Placed(proved, d, p, now, how)
      BY <1>1, <1>8, AllocatedWithEmailTreats
    <2>2. Treats(proved, d, p, now) /\ d.reg[p].status = "PENDING_DECLARATION"
      BY <1>1, <2>1 DEF Placed, HasOwnPlace
    <2>3. f = [d EXCEPT !.inv[p] = None]
      OBVIOUS
    <2> HIDE DEF f, freed
    <2>4. Treats(d, f, p, now) /\ f.reg = d.reg /\ f.inv[p] = None
      BY <2>1, <2>3, InvitationGone
    <2>5. Treats(db, f, p, now)
      BY <1>9, <2>2, <2>4, TreatsTwice
    <2>6. HonestTurn(f, p)
      <3>1. LiveInvitation(db, p, now) /\ (db.inv[p].outside => d.reg[p].outside)
        BY <1>2, <1>7, <1>8, <1>a, <2>1 DEF Placed
      <3> QED BY <2>4, <3>1, ClaimsOf DEF HonestTurn
    <2>7. OwnRow(f, p)
      BY <1>2, <2>2, <2>4, <2>6, EntrantRow DEF LiveInvitation
    <2>8. Honest(f) /\ MailStays(f)
      BY <2>5, <2>7, ActedHonest
    <2> QED BY <2>8 DEF f
  <1> HIDE DEF freed
  <1> QED BY <1>2, <1>10, CommittedHonest

-----------------------------------------------------------------------------
(***************************************************************************)
(* What moves nobody on.                                                   *)
(***************************************************************************)
LEMMA SameRowHonest ==
    ASSUME Promises, NEW p \in Person, NEW e, e.inv[p] = db.inv[p],
           \/ e.reg[p] = db.reg[p]
           \/ /\ db.reg[p].status \in {"PENDING_DECLARATION", "WAITLIST_OFFERED"}
              /\ e.reg[p].status = db.reg[p].status /\ e.reg[p].outside = db.reg[p].outside
    PROVE  HonestRow(e, p)
  BY SameTurn DEF HonestRow, Spared, Promises, ReservationsEndByClose, InvitedHaveNoPlace, LiveInvitation,
         HoldsFamilyReservation

\* Nobody who waited is offered anything, and the emails fit.
LEMMA StillHonest ==
    ASSUME TypeOK, Promises, NEW e, \A p \in Person : HonestRow(e, p),
           \A p \in Waiting(db) : e.reg[p].status # "WAITLIST_OFFERED"
    PROVE  Honest(e)
  BY DEF Honest, HonestLine, HonestOffers

LEMMA WaitlistClosedRows ==
    ASSUME NEW d, GoodRows(d), NEW e, e = WaitlistClosed(d)
    PROVE  /\ GoodRows(e) /\ e.ev = d.ev /\ e.inv = d.inv /\ e.mail = d.mail
           /\ \A p \in Person : e.reg[p] =
                  IF d.reg[p].status = "WAITLISTED" THEN Moved(d.reg[p], "EXPIRED", None)
                  ELSE d.reg[p]
  <1> DEFINE rows == [p \in Person |->
                 IF d.reg[p].status = "WAITLISTED" THEN Moved(d.reg[p], "EXPIRED", None)
                 ELSE d.reg[p]]
  <1>1. e = [d EXCEPT !.reg = rows]
    BY DEF WaitlistClosed
  <1>2. \A p \in Person : /\ d.reg[p] \in Registration /\ WellFormed(d.reg[p])
                          /\ Moved(d.reg[p], "EXPIRED", None) \in Registration
                          /\ WellFormed(Moved(d.reg[p], "EXPIRED", None))
    BY RowsAre, MovedRow DEF Settled
  <1>3. rows \in [Person -> Registration] /\ \A p \in Person : WellFormed(rows[p])
    BY <1>2
  <1>4. \A p \in Person : rows[p] =
            IF d.reg[p].status = "WAITLISTED" THEN Moved(d.reg[p], "EXPIRED", None)
            ELSE d.reg[p]
    OBVIOUS
  <1> HIDE DEF rows
  <1>5. GoodRows(e)
    BY <1>1, <1>3, NewRows
  <1> QED BY <1>1, <1>4, <1>5 DEF GoodRows, Database

LEMMA SweepHonest ==
    ASSUME TypeOK, Promises, SweepLapsedInvitations \/ Maintenance
    PROVE  HonestStep
  <1> DEFINE left == WaitlistClosed(db)
             served(d) == FillAvailableSpots(d, now)
  <1>1. GoodRows(db) /\ now \in Time
    BY DEF TypeOK
  <1>2. Commit({served(db)}) \/ (StartAt <= now /\ Commit({served(left)}))
    BY DEF SweepLapsedInvitations, Maintenance
  <1>3. Honest(served(db)) /\ MailStays(served(db))
    BY <1>1, FillAvailableSpotsTreats, SweptHonest
  <1>4. CASE StartAt <= now
    <2>1. /\ GoodRows(left) /\ left.ev = db.ev /\ left.inv = db.inv /\ left.mail = db.mail
          /\ \A p \in Person : left.reg[p] =
                 IF db.reg[p].status = "WAITLISTED" THEN Moved(db.reg[p], "EXPIRED", None)
                 ELSE db.reg[p]
      BY <1>1, WaitlistClosedRows
    <2> HIDE DEF left
    <2>3. \A p \in Person :
              \/ left.reg[p] = db.reg[p]
              \/ /\ RowSwept(db.reg[p], left.reg[p], now)
                 /\ left.reg[p].status \notin LineStatus \cup {"PENDING_DECLARATION"}
                 /\ Spared(db, p, now) => Spared(left, p, now)
      <3> SUFFICES ASSUME NEW p \in Person, db.reg[p].status = "WAITLISTED"
                   PROVE  /\ RowSwept(db.reg[p], left.reg[p], now)
                          /\ left.reg[p].status \notin LineStatus \cup {"PENDING_DECLARATION"}
                          /\ Spared(db, p, now) => Spared(left, p, now)
        BY <2>1
      <3>0. left.reg[p] = Moved(db.reg[p], "EXPIRED", None) /\ db.reg[p] \in Registration
        BY <1>1, <2>1, RowsAre
      <3>1. left.reg[p].status = "EXPIRED" /\ left.reg[p].outside = db.reg[p].outside
        BY <3>0 DEF Moved, Registration
      <3>2. ~Spared(db, p, now)
        BY <1>4 DEF Spared, Over
      <3> QED BY <3>1, <3>2 DEF RowSwept, Moving, LineStatus
    <2>4. Treats(db, left, None, now)
      BY <2>1, <2>3, TreatsRows
    <2>5. Treats(left, served(left), None, now)
      BY <1>1, <2>1, FillAvailableSpotsTreats
    <2> HIDE DEF served
    <2>6. Honest(served(left)) /\ MailStays(served(left))
      BY <2>4, <2>5, TreatsTwice, SweptHonest
    <2> QED BY <1>2, <1>3, <2>6, CommittedHonest
  <1>5. CASE ~(StartAt <= now)
    <2> HIDE DEF served
    <2> QED BY <1>2, <1>3, <1>5, CommittedHonest
  <1> QED BY <1>4, <1>5

LEMMA ExpireEmailLinksHonest ==
    ASSUME TypeOK, Promises, ExpireEmailLinks
    PROVE  HonestStep
  <1> DEFINE stale == StaleLinks(db, now)
             left == [db EXCEPT !.reg = [p \in Person |->
                 IF p \in stale THEN Moved(db.reg[p], "EXPIRED", None) ELSE db.reg[p]]]
  <1>1. Commit({left})
    BY DEF ExpireEmailLinks
  <1>2. /\ left.inv = db.inv /\ left.mail = db.mail
        /\ \A p \in Person : left.reg[p] =
               IF p \in stale THEN Moved(db.reg[p], "EXPIRED", None) ELSE db.reg[p]
    BY DEF TypeOK, GoodRows, Database
  <1>3. \A p \in stale : db.reg[p].status = "PENDING_EMAIL_CONFIRMATION" /\ db.reg[p].link <= now
    BY DEF StaleLinks, WithStatus
  <1> HIDE DEF left, stale
  <1>4. ASSUME NEW p \in Person PROVE HonestRow(left, p)
    <2>1. CASE p \in stale
      <3>1. left.reg[p].status = "EXPIRED"
        BY <1>2, <2>1, RowsAre DEF TypeOK, Moved, Registration
      <3> QED BY <1>2, <1>3, <2>1, <3>1 DEF HonestRow, HonestTurn, LiveInvitation, NoPlace, Terminal
    <2>2. CASE p \notin stale
      BY <1>2, <2>2, SameRowHonest
    <2> QED BY <2>1, <2>2
  <1>5. \A p \in Waiting(db) : left.reg[p].status # "WAITLIST_OFFERED"
    BY <1>2, <1>3 DEF Waiting, WithStatus
  <1>6. Honest(left) /\ MailStays(left)
    BY <1>2, <1>4, <1>5, StillHonest DEF MailStays, Promises, SendFits
  <1> QED BY <1>1, <1>6, CommittedHonest

LEMMA EditHonest ==
    ASSUME TypeOK, Promises, NEW form \in EventForms, EditEvent(form)
    PROVE  HonestStep
  <1> DEFINE saved == [db EXCEPT !.ev = Stored(form, db.ev.released)]
             filled == FillAvailableSpots(saved, now)
  <1>1. GoodRows(db) /\ now \in Time
    BY DEF TypeOK
  <1>2. GoodRows(saved)
    <2>1. form \in EventForm /\ db.ev.released \in BOOLEAN
      BY <1>1, EventAssumption DEF GoodRows, Database, StoredEvent
    <2>2. Stored(form, db.ev.released) \in StoredEvent
      BY <2>1 DEF Stored, EventForm, StoredEvent
    <2> QED BY <1>1, <2>2, NewSettings
  <1>3. saved.reg = db.reg /\ saved.inv = db.inv /\ saved.mail = db.mail
    BY <1>1 DEF GoodRows, Database
  <1>4. Commit({saved}) \/ (saved.ev.status = "SCHEDULED" /\ Commit({filled}))
    BY DEF EditEvent, CapacityRaised
  <1> HIDE DEF saved
  <1>5. CASE Commit({saved})
    <2>1. \A p \in Person : HonestRow(saved, p)
      BY <1>3, SameRowHonest
    <2>2. Honest(saved) /\ MailStays(saved)
      BY <1>3, <2>1, StillHonest DEF Waiting, WithStatus, MailStays, Promises, SendFits
    <2> QED BY <1>5, <2>2, CommittedHonest
  <1>6. CASE saved.ev.status = "SCHEDULED" /\ Commit({filled})
    <2>1. Treats(saved, filled, None, now)
      BY <1>1, <1>2, FillAvailableSpotsTreats
    <2> HIDE DEF filled
    <2>2. \A p \in Person : Spared(db, p, now) => Spared(saved, p, now)
      BY <1>3, <1>6
         DEF Spared, Over, AwaitingItsFirstEmail, OfferAwaitingItsFirstEmail, EmailQueued
    <2>3. Honest(filled) /\ MailStays(filled)
      BY <1>3, <2>1, <2>2, TreatedHonest, NobodyIsNobody
    <2> QED BY <1>6, <2>3, CommittedHonest
  <1> QED BY <1>4, <1>5, <1>6

-----------------------------------------------------------------------------
\* A sent email moves the deadline of a place or of an offer, and nothing else.
LEMMA SentHonest ==
    ASSUME TypeOK, Promises, now' = now, SendFits', db'.inv = db.inv,
           \A p \in Person :
               \/ db'.reg[p] = db.reg[p]
               \/ /\ db.reg[p].status \in {"PENDING_DECLARATION", "WAITLIST_OFFERED"}
                  /\ db'.reg[p].status = db.reg[p].status
                  /\ db'.reg[p].outside = db.reg[p].outside
    PROVE  HonestStep
  <1>1. \A p \in Person : HonestRow(db', p)
    BY SameRowHonest
  <1>2. Honest(db')
    BY <1>1, StillHonest DEF Waiting, WithStatus
  <1>3. ReservationsEndByClose(db)' /\ InvitedHaveNoPlace(db, now)'
    BY <1>1 DEF HonestRow, ReservationsEndByClose, InvitedHaveNoPlace, LiveInvitation
  <1> QED BY <1>2, <1>3 DEF HonestStep, Promises

LEMMA RebasedRows ==
    ASSUME NEW d, GoodRows(d), NEW s \in Delivery, NEW e, e = Rebased(d, s)
    PROVE  /\ e.inv = d.inv /\ e.mail = d.mail
           /\ \A p \in Person :
                  \/ e.reg[p] = d.reg[p]
                  \/ /\ d.reg[p].status \in {"PENDING_DECLARATION", "WAITLIST_OFFERED"}
                     /\ e.reg[p].status = d.reg[p].status
                     /\ e.reg[p].outside = d.reg[p].outside
  <1> DEFINE x == s.mail.to
             r == [d.reg[x] EXCEPT !.hold = s.to]
             moved == [d EXCEPT !.reg[x] = r]
  <1>1. x \in Person
    BY DEF Delivery, Mail
  <1>2. \/ e = d
        \/ e = moved /\ d.reg[x].status \in {"PENDING_DECLARATION", "WAITLIST_OFFERED"}
    <2>1. [d EXCEPT !.reg[x].hold = s.to] = moved
      OBVIOUS
    <2> QED BY <2>1 DEF Rebased, StatusOfKind
  <1>3. moved = [d EXCEPT !.reg[x] = r]
    OBVIOUS
  <1>4. r.status = d.reg[x].status /\ r.outside = d.reg[x].outside
    BY <1>1, RowsAre DEF Registration
  <1> HIDE DEF x, r, moved
  <1>5. /\ moved.ev = d.ev /\ moved.mail = d.mail /\ moved.inv = d.inv
        /\ moved.reg[x] = r /\ \A q \in Person \ {x} : moved.reg[q] = d.reg[q]
    BY <1>1, <1>3 DEF GoodRows, Database
  <1> QED BY <1>2, <1>4, <1>5

LEMMA SendingHonest ==
    ASSUME TypeOK, Promises,
           \/ \E m \in db.mail : PlanSend(m)
           \/ OfferAccepted \/ DeclarationAccepted \/ ApplyRebase \/ SendGivesUp \/ WorkerStops
    PROVE  HonestStep
  <1>1. /\ GoodRows(db) /\ SendFits /\ (sending # None => sending \in Delivery)
    BY DEF TypeOK, Promises
  <1>2. now' = now
    BY DEF PlanSend, OfferAccepted, DeclarationAccepted, ApplyRebase, SendGivesUp, WorkerStops
  <1>3. SendFits'
    <2>1. CASE \E m \in db.mail : PlanSend(m)
      <3>1. PICK m \in db.mail : PlanSend(m)
        BY <2>1
      <3>2. m \in Mail
        BY <1>1 DEF GoodRows, Database
      <3>3. db' = db /\ sending' = [mail |-> m, from |-> db.reg[m.to].hold,
                                    to |-> PlannedDeadline(db, m, now), sent |-> FALSE]
        BY <3>1 DEF PlanSend
      <3>4. sending'.to # None => sending'.to <= CloseOfKind(sending'.mail.kind)
        BY <3>2, <3>3, PlannedByTheClose
      <3> QED BY <3>3, <3>4 DEF SendFits
    <2>2. CASE DeclarationAccepted
      <3>1. /\ sending # None /\ sending.mail.kind = "declaration"
            /\ sending' = None \/ sending' = [sending EXCEPT !.sent = TRUE]
        BY <2>2 DEF DeclarationAccepted
      <3> QED BY <1>1, <3>1 DEF SendFits, Delivery
    <2>3. CASE OfferAccepted \/ ApplyRebase \/ SendGivesUp \/ WorkerStops
      BY <2>3 DEF OfferAccepted, ApplyRebase, SendGivesUp, WorkerStops, SendFits
    <2> QED BY <2>1, <2>2, <2>3
  <1>4. PICK d \in {db, Unqueued(db, sending.mail)} :
            db' = d \/ (sending # None /\ db' = Rebased(d, sending))
    BY DEF PlanSend, OfferAccepted, DeclarationAccepted, ApplyRebase, SendGivesUp, WorkerStops
  <1>5. GoodRows(d) /\ d.reg = db.reg /\ d.inv = db.inv
    BY <1>1, UnqueuedGood DEF Unqueued, GoodRows, Database
  <1>6. /\ db'.inv = db.inv
        /\ \A p \in Person :
               \/ db'.reg[p] = db.reg[p]
               \/ /\ db.reg[p].status \in {"PENDING_DECLARATION", "WAITLIST_OFFERED"}
                  /\ db'.reg[p].status = db.reg[p].status
                  /\ db'.reg[p].outside = db.reg[p].outside
    BY <1>1, <1>4, <1>5, RebasedRows
  <1> QED BY <1>2, <1>3, <1>6, SentHonest

LEMMA TickHonest ==
    ASSUME TypeOK, Promises, Tick
    PROVE  HonestStep
  <1>1. db' = db /\ sending' = sending /\ now' = now + 1 /\ now \in Nat
    BY DeadlineRange DEF Tick, TypeOK
  <1>2. \A p \in Person : HonestRow(db', p)
    BY <1>1, SameRowHonest
  <1>3. Honest(db')
    BY <1>1, <1>2, StillHonest DEF Waiting, WithStatus
  <1>4. ASSUME NEW p \in Person, LiveInvitation(db, p, now + 1) PROVE LiveInvitation(db, p, now)
    <2>1. db.inv[p] # None /\ db.inv[p].until > now + 1
      BY <1>4 DEF LiveInvitation
    <2>2. db.inv[p].until \in Nat
      BY <2>1, DeadlineRange DEF TypeOK, GoodRows, Database, Invitation
    <2> QED BY <1>1, <2>1, <2>2 DEF LiveInvitation
  <1>5. InvitedHaveNoPlace(db, now)'
    BY <1>1, <1>4 DEF Promises, InvitedHaveNoPlace, LiveInvitation
  <1>6. SendFits' /\ ReservationsEndByClose(db)'
    BY <1>1 DEF Promises, SendFits, ReservationsEndByClose
  <1> QED BY <1>3, <1>5, <1>6 DEF HonestStep, Promises

-----------------------------------------------------------------------------
(***************************************************************************)
(* Every step keeps its promises.                                          *)
(***************************************************************************)
LEMMA NothingPromisedAtFirst ==
    Init => Promises
  <1> SUFFICES ASSUME Init PROVE Promises
    OBVIOUS
  <1>1. \A p \in Person : db.reg[p].status = "ABSENT" /\ ~LiveInvitation(db, p, now)
    BY DEF Init, Absent, LiveInvitation
  <1>2. SendFits
    BY DEF Init, SendFits
  <1> QED BY <1>1, <1>2 DEF Promises, ReservationsEndByClose, InvitedHaveNoPlace

LEMMA EveryStepHonest ==
    TypeOK /\ Promises /\ [Next]_vars => HonestStep
  <1> SUFFICES ASSUME TypeOK, Promises, [Next]_vars PROVE HonestStep
    OBVIOUS
  <1>1. Relative \subseteq Person /\ Invitee \subseteq Person /\ Desk \subseteq Person
    BY PersonAssumption
  <1>2. CASE UNCHANGED vars
    BY <1>2, UnchangedHonest DEF vars
  <1>3. CASE \E p \in Person :
                 \/ \E channel \in Channel : PassWaitlistCheck(p, channel)
                 \/ Submit(p) \/ SubmitByStaff(p) \/ SubmitVouched(p)
                 \/ \E until \in SittingDeadlines(now) : SubmitInSitting(p, until)
                 \/ \E until \in SittingDeadlines(now) : HoldFamilyPlace(p, until)
                 \/ ConfirmFamilyEntry(p)
    BY <1>3, EntryHonest DEF Channel
  <1>4. CASE \E p \in Person : ConfirmEmail(p) \/ SignDeclaration(p) \/ ConfirmByStaff(p)
                               \/ Unregister(p)
    BY <1>4, ConfirmEmailHonest, SignDeclarationHonest, ConfirmByStaffHonest, UnregisterHonest
  <1>5. CASE \E p \in Person : Promote(p) \/ OfferPlaceTo(p) \/ GivePlaceNow(p)
    BY <1>5, PromoteHonest, OfferPlaceToHonest, GivePlaceNowHonest
  <1>6. CASE \E p \in Person, outside \in BOOLEAN : SetOutside(p, outside) \/ Invite(p, outside)
    BY <1>6, SetOutsideHonest, InviteHonest
  <1>7. CASE \E p \in Person : AcceptInvitation(p) \/ ResendInvitation(p) \/ WithdrawInvitation(p)
    BY <1>7, AcceptInvitationHonest, ResendInvitationHonest, WithdrawInvitationHonest
  <1>8. CASE ExpireEmailLinks \/ SweepLapsedInvitations \/ Maintenance
    BY <1>8, SweepHonest, ExpireEmailLinksHonest
  <1>9. CASE \E form \in EventForms : EditEvent(form)
    BY <1>9, EditHonest
  <1>10. CASE \/ \E m \in db.mail : PlanSend(m)
              \/ OfferAccepted \/ DeclarationAccepted \/ ApplyRebase \/ SendGivesUp \/ WorkerStops
    BY <1>10, SendingHonest
  <1>11. CASE Tick
    BY <1>11, TickHonest
  <1> QED BY <1>1, <1>2, <1>3, <1>4, <1>5, <1>6, <1>7, <1>8, <1>9, <1>10, <1>11
          DEF Next, Channel

-----------------------------------------------------------------------------
(***************************************************************************)
(* The free places that are the club's to give.                            *)
(***************************************************************************)
\* No place of their own, none held for them, and none by an invitation.
LEMMA NoClaimOf ==
    ASSUME NEW d, NEW p \in Person, NEW t, ~Ahead(d.fam[p], t), ~LiveInvitation(d, p, t),
           \/ d.reg[p].outside
           \/ /\ d.reg[p].status \notin {"CONFIRMED", "PENDING_DECLARATION", "WAITLIST_OFFERED"}
              /\ ~HoldsFamilyReservation(d, p, t)
    PROVE  ~HasClaim(d, p, t)
  <1>1. <<"registration", p>> \notin Claims(d, t)
    BY DEF Claims
  <1>2. <<"family", p>> \notin Claims(d, t)
    BY DEF Claims
  <1>3. <<"invitation", p>> \notin Claims(d, t)
    BY DEF Claims
  <1> QED BY <1>1, <1>2, <1>3 DEF HasClaim

LEMMA FamilyClaimOf ==
    ASSUME NEW d, NEW p \in Person, NEW t, ~HasClaim(d, p, t)
    PROVE  ~Ahead(d.fam[p], t)
  <1>1. <<"family", p>> \notin Claims(d, t)
    BY DEF HasClaim
  <1> QED BY <1>1 DEF Claims

LEMMA SameClaimOf ==
    ASSUME NEW d, NEW e, NEW p, NEW t, e.reg = d.reg, e.fam = d.fam, e.inv = d.inv
    PROVE  HasClaim(e, p, t) <=> HasClaim(d, p, t)
  BY SameClaims DEF HasClaim

\* The allocator's opening: what is over goes, no release is left to come.
LEMMA ServedOpens ==
    ASSUME NEW d, GoodRows(d), NEW x \in Person, NEW t \in Time, NEW e, e = Served(d, t)
    PROVE  /\ GoodRows(e) /\ ~ReleaseDue(e, t) /\ Treats(d, e, None, t)
           /\ e.fam[x] \in {None, d.fam[x]} /\ e.inv[x] \in {None, d.inv[x]}
           /\ e.reg[x].outside = d.reg[x].outside
  <1> DEFINE c == Expired(d, t)
  <1>1. GoodRows(c) /\ Swept(d, c, t) /\ ~ReleaseDue(c, t)
    BY ExpiredSwept, ExpiredNotDue
  <1>2. e = FillAvailableSpots(c, t)
    BY DEF Served
  <1> HIDE DEF c
  <1>3. GoodRows(e) /\ Swept(c, e, t) /\ Treats(c, e, x, t)
    BY <1>1, <1>2, FilledSwept, FillAvailableSpotsTreats
  <1>4. ~ReleaseDue(e, t)
    BY <1>1, <1>3 DEF Treats, RulesStand
  <1>5. Swept(d, e, t)
    BY <1>1, <1>3, SweptTwice
  <1>6. Treats(d, e, None, t)
    BY ServedTreats
  <1> QED BY <1>3, <1>4, <1>5, <1>6 DEF Swept, RowSwept

\* Where the free places are the club's, a sweep and an offer bring nobody one.
LEMMA NothingComesBySweeping ==
    ASSUME NEW d, NEW e, NEW x \in Person, NEW t, ~LiveInvitation(d, x, t), ~HasClaim(d, x, t),
           Treats(d, e, None, t), e.fam[x] \in {None, d.fam[x]}, e.inv[x] \in {None, d.inv[x]},
           e.reg[x].outside = d.reg[x].outside, ClubGives(e)
    PROVE  ~HasClaim(e, x, t)
  <1>1. RowTreated(d, e, x, t) /\ OffersAreOpen(d, e, None, t)
    BY NobodyIsNobody DEF Treats
  <1>2. ~LiveInvitation(e, x, t) /\ ~Ahead(e.fam[x], t)
    BY FamilyClaimOf DEF LiveInvitation, Ahead
  <1>3. e.reg[x].status \in {"CONFIRMED", "PENDING_DECLARATION"} => e.reg[x].status = d.reg[x].status
    BY <1>1 DEF RowTreated, RowSwept, Moving
  <1>4. e.reg[x].status = "WAITLIST_OFFERED" => d.reg[x].status = "WAITLIST_OFFERED"
    BY <1>1, NobodyIsNobody DEF OffersAreOpen
  <1>5. HoldsFamilyReservation(e, x, t) => HoldsFamilyReservation(d, x, t)
    BY <1>1 DEF RowTreated, RowSwept, HoldsFamilyReservation, Ahead, Moving
  <1>6. \/ e.reg[x].outside
        \/ /\ e.reg[x].status \notin {"CONFIRMED", "PENDING_DECLARATION", "WAITLIST_OFFERED"}
           /\ ~HoldsFamilyReservation(e, x, t)
    BY <1>3, <1>4, <1>5, ClaimsOf
  <1> QED BY <1>2, <1>6, NoClaimOf

LEMMA PlaceOnly ==
    ASSUME NEW d, GoodRows(d), NEW x \in Person, NEW hold, NEW e, e = WithPlace(d, x, hold)
    PROVE  e.ev = d.ev /\ e.fam = d.fam /\ e.inv = d.inv /\ e.reg[x].outside = d.reg[x].outside
  <1> DEFINE r == Moved(d.reg[x], "PENDING_DECLARATION", hold)
  <1>1. r.outside = d.reg[x].outside
    BY RowsAre DEF Moved, Registration
  <1>2. e = [d EXCEPT !.reg[x] = r]
    BY DEF WithPlace
  <1> HIDE DEF r
  <1> QED BY <1>1, <1>2 DEF GoodRows, Database

\* In the line, whoever came is offered nothing that is the club's.
LEMMA JoinedTheLine ==
    ASSUME NEW d, GoodRows(d), NEW x \in Person, NEW t \in Time,
           NEW e, e = FillAvailableSpots(InLine(d, x, t), t), ClubGives(e)
    PROVE  /\ e.fam[x] \in {None, d.fam[x]} /\ e.inv[x] \in {None, d.inv[x]}
           /\ e.reg[x].status \in {"WAITLISTED", "EXPIRED"}
  <1> DEFINE r == [Moved(d.reg[x], "WAITLISTED", None) EXCEPT !.since = t]
             c == InLine(d, x, t)
  <1>1. c = [d EXCEPT !.reg[x] = r] /\ GoodRows(c)
    BY InLineGood DEF InLine
  <1>2. r.status = "WAITLISTED"
    BY RowsAre DEF Moved, Registration
  <1>3. e = FillAvailableSpots(c, t)
    OBVIOUS
  <1> HIDE DEF c, r
  <1>4. c.reg[x].status = "WAITLISTED" /\ c.fam = d.fam /\ c.inv = d.inv
    BY <1>1, <1>2 DEF GoodRows, Database
  <1>5. Swept(c, e, t) /\ Treats(c, e, None, t) /\ RowTreated(c, e, x, t)
    BY <1>1, <1>3, FilledSwept, FillAvailableSpotsTreats, FilledRow
  <1>6. e.reg[x].status # "WAITLIST_OFFERED"
    BY <1>4, <1>5, NobodyIsNobody DEF Treats, OffersAreOpen
  <1>7. e.reg[x].status \in Moving /\ e.reg[x].status # "PENDING_DECLARATION"
    BY <1>4, <1>5 DEF RowTreated, RowSwept, Moving
  <1> QED BY <1>4, <1>5, <1>6, <1>7 DEF Swept, Moving

\* An entry through the site finds no free place where the free places are the club's.
LEMMA DoorIsClosed ==
    ASSUME NEW d, GoodRows(d), NEW x \in Person, NEW t \in Time, NEW how \in Way,
           how.channel = "public", ~how.invited, ~LiveInvitation(d, x, t), ~HasClaim(d, x, t),
           NEW e \in AllocatedWithEmail(d, x, t, how), ClubGives(e)
    PROVE  ~HasClaim(e, x, t)
  <1> DEFINE adopts == ~how.invited /\ Adopts(d, x, t)
             mine == Claiming(d, x, adopts)
             served == Served(mine, t)
             direct == adopts \/ HasOwnPlace(mine, x, t, how)
  <1>0. PICK c \in Allocated(d, x, t, how) : e = AllocationEmail(c, x, t)
    BY DEF AllocatedWithEmail
  <1>1. c \in PlacedOrQueued(served, x, t, how, direct, adopts)
    BY DEF Allocated
  <1>10. GoodRows(c)
    BY AllocatedGood
  <1>2. ~adopts
    BY DEF Adopts
  <1>3. GoodRows(mine)
    BY <1>2, ClaimingGood
  <1>4. /\ mine.inv = d.inv /\ mine.fam[x] = None
        /\ mine.reg[x] = [d.reg[x] EXCEPT !.outside = @ \/ (adopts /\ d.inv[x].outside)]
    BY DEF Claiming, GoodRows, Database
  <1>5. /\ mine.reg[x].status = d.reg[x].status /\ mine.reg[x].hold = d.reg[x].hold
        /\ mine.reg[x].outside = d.reg[x].outside
    BY <1>2, <1>4, RowsAre DEF Registration
  <1>6. direct => d.reg[x].outside
    <2>1. HoldsFamilyReservation(d, x, t) => d.reg[x].outside
      BY ClaimsOf
    <2> QED BY <1>2, <1>5, <2>1 DEF HasOwnPlace, HoldsFamilyReservation
  <1> HIDE DEF adopts, mine, direct
  <1>7. /\ GoodRows(served) /\ ~ReleaseDue(served, t) /\ served.fam[x] = None
        /\ served.inv[x] \in {None, d.inv[x]} /\ served.reg[x].outside = d.reg[x].outside
    <2>1. served = Served(mine, t)
      OBVIOUS
    <2> HIDE DEF served
    <2>2. /\ GoodRows(served) /\ ~ReleaseDue(served, t)
          /\ served.fam[x] \in {None, mine.fam[x]} /\ served.inv[x] \in {None, mine.inv[x]}
          /\ served.reg[x].outside = mine.reg[x].outside
      BY <1>3, <2>1, ServedOpens
    <2> QED BY <1>4, <1>5, <2>2
  <1> HIDE DEF served
  <1> DEFINE hold == HoldFor(how, t)
             after == ExpireStaleHolds(served, t, 1, how.channel)
  <1>8. \/ c = WithPlace(served, x, hold) /\ (direct \/ FreeFor(served, t, how.channel))
        \/ c = FillAvailableSpots(InLine(served, x, t), t)
        \/ c = WithPlace(after, x, hold) /\ FreeAfterRelease(served, after, t, how.channel)
    BY <1>1, <1>2 DEF PlacedOrQueued, PlaceOfLapsedHold, GivenPlace
  <1>9. GoodRows(after) /\ Treats(served, after, x, t)
    BY <1>7, ExpireStaleHoldsGood, ExpireStaleHoldsTreats
  <1> HIDE DEF after, hold
  <1>11. e.ev = c.ev /\ e.reg = c.reg /\ e.fam = c.fam /\ e.inv = c.inv
    BY <1>0, <1>10, QueuedOnly DEF AllocationEmail
  <1>12. ClubGives(c)
    BY <1>11 DEF ClubGives
  <1>13. \A i \in {None, d.inv[x]} : i # None => ~(i.until > t)
    BY DEF LiveInvitation
  <1>14. ~HasClaim(c, x, t)
    <2>1. CASE c = WithPlace(served, x, hold) /\ (direct \/ FreeFor(served, t, how.channel))
      <3>1. /\ c.ev = served.ev /\ c.fam = served.fam /\ c.inv = served.inv
            /\ c.reg[x].outside = served.reg[x].outside
        BY <1>7, <2>1, PlaceOnly
      <3>2. direct
        BY <1>12, <2>1, <3>1 DEF FreeFor, NewcomerJoinsLine, PublicEntryQueues, ClubGives
      <3> QED BY <1>6, <1>7, <1>13, <3>1, <3>2, NoClaimOf DEF LiveInvitation, Ahead
    <2>2. CASE c = FillAvailableSpots(InLine(served, x, t), t)
      <3>1. /\ c.fam[x] = None /\ c.inv[x] \in {None, d.inv[x]}
            /\ c.reg[x].status \in {"WAITLISTED", "EXPIRED"}
        BY <1>7, <1>12, <2>2, JoinedTheLine
      <3> QED BY <1>13, <3>1, NoClaimOf DEF LiveInvitation, Ahead, HoldsFamilyReservation
    <2>3. CASE c = WithPlace(after, x, hold) /\ FreeAfterRelease(served, after, t, how.channel)
      <3>1. c.ev = after.ev
        BY <1>9, <2>3, PlaceOnly
      <3>2. ~ClubGives(served)
        BY <2>3 DEF FreeAfterRelease, PublicEntryQueues, ClubGives
      <3>3. ~ClubGives(after)
        BY <1>7, <1>9, <3>2 DEF Treats, RulesStand, ClubGives
      <3> QED BY <1>12, <3>1, <3>3 DEF ClubGives
    <2> QED BY <1>8, <2>1, <2>2, <2>3
  <1> QED BY <1>11, <1>14, SameClaimOf

LEMMA CommittedClosed ==
    ASSUME NEW p, NEW dbs, \A e \in dbs : ClubGives(e) => ~HasClaim(e, p, now), Commit(dbs)
    PROVE  ClubGives(db') => ~HasClaim(db', p, now')
  BY DEF Commit

\* A form that waits for its address holds no place.
LEMMA FormHoldsNothing ==
    ASSUME NEW d, GoodRows(d), NEW x \in Person, NEW t \in Time, NEW staff \in BOOLEAN,
           ~LiveInvitation(d, x, t), ~HasClaim(d, x, t), NEW e, e = WithForm(d, x, t, staff)
    PROVE  GoodRows(e) /\ ~LiveInvitation(e, x, t) /\ ~HasClaim(e, x, t)
  <1> DEFINE r == [Absent EXCEPT !.status = "PENDING_EMAIL_CONFIRMATION",
                                 !.link = t + LinkTime, !.staff = staff]
  <1>1. r.status = "PENDING_EMAIL_CONFIRMATION" /\ r.hold = None
    BY DEF Absent
  <1>2. e = [d EXCEPT !.reg[x] = r] /\ GoodRows(e)
    BY WithFormGood DEF WithForm
  <1> HIDE DEF r
  <1>3. e.reg[x] = r /\ e.fam = d.fam /\ e.inv = d.inv
    BY <1>2 DEF GoodRows, Database
  <1>4. ~LiveInvitation(e, x, t) /\ ~Ahead(e.fam[x], t)
    BY <1>3, FamilyClaimOf DEF LiveInvitation
  <1>5. ~HoldsFamilyReservation(e, x, t)
    BY <1>1, <1>3 DEF HoldsFamilyReservation, Ahead
  <1> QED BY <1>1, <1>2, <1>3, <1>4, <1>5, NoClaimOf

\* A returning entry on the row it left holds no place yet.
LEMMA UnmarkedHoldsNothing ==
    ASSUME NEW d, GoodRows(d), NEW x \in Person, NEW t \in Time, MayEnter(d, x),
           ~LiveInvitation(d, x, t), ~HasClaim(d, x, t),
           NEW e, e = [d EXCEPT !.reg[x].outside = FALSE]
    PROVE  GoodRows(e) /\ ~LiveInvitation(e, x, t) /\ ~HasClaim(e, x, t)
  <1> DEFINE r == [d.reg[x] EXCEPT !.outside = FALSE]
  <1>1. r.status \in Terminal \cup {"ABSENT"}
    BY RowsAre DEF Registration, MayEnter
  <1>2. e = [d EXCEPT !.reg[x] = r] /\ GoodRows(e)
    BY NewOutside
  <1> HIDE DEF r
  <1>3. e.reg[x] = r /\ e.fam = d.fam /\ e.inv = d.inv
    BY <1>2 DEF GoodRows, Database
  <1>4. ~LiveInvitation(e, x, t) /\ ~Ahead(e.fam[x], t)
    BY <1>3, FamilyClaimOf DEF LiveInvitation
  <1>5. /\ e.reg[x].status \notin {"CONFIRMED", "PENDING_DECLARATION", "WAITLIST_OFFERED"}
        /\ ~HoldsFamilyReservation(e, x, t)
    BY <1>1, <1>3 DEF HoldsFamilyReservation, Terminal
  <1> QED BY <1>2, <1>4, <1>5, NoClaimOf

\* A sitting's form, whose reservation counts through the allocator's opening.
LEMMA NothingReserved ==
    ASSUME NEW d, GoodRows(d), NEW x \in Person, NEW t \in Time,
           ~LiveInvitation(d, x, t), ~HasClaim(d, x, t), NEW until,
           NEW e, e = Reserved(d, x, t, until), ClubGives(e)
    PROVE  ~HasClaim(e, x, t)
  <1> DEFINE served == Served(d, t)
             held == [served EXCEPT !.reg[x].hold = until]
  <1>1. e = d \/ e = served \/ (e = held /\ FreeFor(served, t, "public"))
    BY DEF Reserved
  <1>2. served = Served(d, t)
    OBVIOUS
  <1> HIDE DEF served
  <1>3. /\ GoodRows(served) /\ Treats(d, served, None, t)
        /\ served.fam[x] \in {None, d.fam[x]} /\ served.inv[x] \in {None, d.inv[x]}
        /\ served.reg[x].outside = d.reg[x].outside
    BY <1>2, ServedOpens
  <1>4. ClubGives(served) => ~HasClaim(served, x, t)
    BY <1>3, NothingComesBySweeping
  <1>5. CASE e = held /\ FreeFor(served, t, "public")
    <2>1. held.ev = served.ev
      BY <1>3 DEF GoodRows, Database
    <2> HIDE DEF held
    <2>2. ~ClubGives(served)
      BY <1>5 DEF FreeFor, NewcomerJoinsLine, PublicEntryQueues, ClubGives
    <2> QED BY <1>5, <2>1, <2>2 DEF ClubGives
  <1> QED BY <1>1, <1>4, <1>5

LEMMA NoFamilyPlaceHeld ==
    ASSUME NEW d, GoodRows(d), NEW x \in Person, NEW t \in Time,
           ~LiveInvitation(d, x, t), ~HasClaim(d, x, t), NEW until,
           NEW e, e = FamilyPlaceHeld(d, x, t, until), ClubGives(e)
    PROVE  ~HasClaim(e, x, t)
  <1> DEFINE cleared == [d EXCEPT !.fam[x] = IF Past(@, t) THEN None ELSE @]
             served == Served(cleared, t)
             held == [served EXCEPT !.fam[x] = until]
  <1>1. e = d \/ e = served \/ (e = held /\ FreeFor(served, t, "public"))
    BY DEF FamilyPlaceHeld
  <1>2. GoodRows(cleared)
    BY NewFamilyPlace DEF GoodRows, Database
  <1>3. /\ cleared.reg = d.reg /\ cleared.inv = d.inv
        /\ cleared.fam[x] \in {None, d.fam[x]}
    BY DEF GoodRows, Database
  <1>4. served = Served(cleared, t)
    OBVIOUS
  <1> HIDE DEF served, cleared
  <1>5. /\ GoodRows(served) /\ Treats(cleared, served, None, t)
        /\ served.fam[x] \in {None, cleared.fam[x]} /\ served.inv[x] \in {None, cleared.inv[x]}
        /\ served.reg[x].outside = cleared.reg[x].outside
    BY <1>2, <1>4, ServedOpens
  <1>6. ~LiveInvitation(cleared, x, t) /\ ~HasClaim(cleared, x, t)
    <2>1. ~LiveInvitation(cleared, x, t) /\ ~Ahead(cleared.fam[x], t)
      BY <1>3, FamilyClaimOf DEF LiveInvitation, Ahead
    <2>2. \/ cleared.reg[x].outside
          \/ /\ cleared.reg[x].status \notin {"CONFIRMED", "PENDING_DECLARATION", "WAITLIST_OFFERED"}
             /\ ~HoldsFamilyReservation(cleared, x, t)
      BY <1>3, ClaimsOf DEF HoldsFamilyReservation
    <2> QED BY <2>1, <2>2, NoClaimOf
  <1>7. ClubGives(served) => ~HasClaim(served, x, t)
    BY <1>5, <1>6, NothingComesBySweeping
  <1>8. CASE e = held /\ FreeFor(served, t, "public")
    <2>1. held.ev = served.ev
      BY <1>5 DEF GoodRows, Database
    <2> HIDE DEF held
    <2>2. ~ClubGives(served)
      BY <1>8 DEF FreeFor, NewcomerJoinsLine, PublicEntryQueues, ClubGives
    <2> QED BY <1>8, <2>1, <2>2 DEF ClubGives
  <1> QED BY <1>1, <1>7, <1>8

\* Nobody is given a place that is the club's through the site's own forms and links.
LEMMA PublicDoorClosed ==
    ASSUME TypeOK, NEW p \in Person, EntersByThePublicDoor(p), ~LiveInvitation(db, p, now),
           ~HasClaim(db, p, now)
    PROVE  ClubGives(db') => ~HasClaim(db', p, now')
  <1> DEFINE public == Entry("public")
  <1>1. GoodRows(db) /\ now \in Time
    BY DEF TypeOK
  <1>2. public \in Way /\ ~public.invited /\ public.channel = "public"
    BY PublicAndStaffWays
  <1> HIDE DEF public
  <1>3. ASSUME NEW d, GoodRows(d), ~LiveInvitation(d, p, now), ~HasClaim(d, p, now)
        PROVE  \A e \in AllocatedWithEmail(d, p, now, public) : ClubGives(e) => ~HasClaim(e, p, now)
    BY <1>1, <1>2, <1>3, DoorIsClosed
  <1> DEFINE form == WithForm(db, p, now, FALSE)
             unmarked == [db EXCEPT !.reg[p].outside = FALSE]
  <1>4. GoodRows(form) /\ ~LiveInvitation(form, p, now) /\ ~HasClaim(form, p, now)
    <2> DEFINE staff == FALSE
    <2>1. staff \in BOOLEAN /\ form = WithForm(db, p, now, staff)
      OBVIOUS
    <2> HIDE DEF form, staff
    <2> QED BY <1>1, <2>1, FormHoldsNothing
  <1>5. MayEnter(db, p)
        => GoodRows(unmarked) /\ ~LiveInvitation(unmarked, p, now) /\ ~HasClaim(unmarked, p, now)
    BY <1>1, UnmarkedHoldsNothing
  <1>6. CASE Submit(p)
    <2>1. MayEnter(db, p) /\ Commit(Entered(db, p, now, public))
      BY <1>6 DEF Submit, public
    <2>2. \/ Entered(db, p, now, public) = AllocatedWithEmail(unmarked, p, now, public)
          \/ Entered(db, p, now, public) = {form}
      BY <1>2 DEF Entered
    <2> HIDE DEF form, unmarked
    <2>3. \A e \in Entered(db, p, now, public) : ClubGives(e) => ~HasClaim(e, p, now)
      BY <1>3, <1>4, <1>5, <2>1, <2>2
    <2> QED BY <2>1, <2>3, CommittedClosed
  <1>7. CASE ConfirmEmail(p) /\ ~db.reg[p].staff
    <2> DEFINE over == [db EXCEPT !.reg[p] = Moved(@, "EXPIRED", None)]
               proved == [db EXCEPT !.verified = @ \cup {p}]
    <2>1. \/ Commit({over})
          \/ Commit(AllocatedWithEmail(proved, p, now, public))
      BY <1>7 DEF ConfirmEmail, public
    <2>2. ~HasClaim(over, p, now)
      <3> DEFINE r == Moved(db.reg[p], "EXPIRED", None)
      <3>1. r.status = "EXPIRED" /\ db.reg[p] \in Registration
        BY <1>1, RowsAre DEF Moved, Registration
      <3>2. over = [db EXCEPT !.reg[p] = r]
        OBVIOUS
      <3> HIDE DEF over, r
      <3>3. over.reg[p] = r /\ over.fam = db.fam /\ over.inv = db.inv
        BY <1>1, <3>2 DEF GoodRows, Database
      <3> QED BY <3>1, <3>3, FamilyClaimOf, NoClaimOf DEF LiveInvitation, HoldsFamilyReservation
    <2>3. /\ GoodRows(proved) /\ proved.reg = db.reg /\ proved.fam = db.fam /\ proved.inv = db.inv
      BY <1>1, NewVerified DEF GoodRows, Database
    <2> HIDE DEF over, proved
    <2>4. ~LiveInvitation(proved, p, now) /\ ~HasClaim(proved, p, now)
      BY <2>3, SameClaimOf DEF LiveInvitation
    <2>5. \A e \in AllocatedWithEmail(proved, p, now, public) : ClubGives(e) => ~HasClaim(e, p, now)
      BY <1>3, <2>3, <2>4
    <2>6. \A e \in {over} : ClubGives(e) => ~HasClaim(e, p, now)
      BY <2>2
    <2> QED BY <2>1, <2>5, <2>6, CommittedClosed
  <1>8. CASE ConfirmFamilyEntry(p)
    <2> DEFINE row == IF p \in db.verified THEN unmarked ELSE form
               freed == [row EXCEPT !.fam[p] = None]
               proved == [freed EXCEPT !.verified = freed.verified \cup {p}]
    <2>1. /\ MayEnter(db, p)
          /\ Commit(AllocatedWithEmail([row EXCEPT !.fam[p] = None, !.verified = @ \cup {p}],
                                       p, now, public))
      BY <1>8 DEF ConfirmFamilyEntry, public
    <2>2. row = unmarked \/ row = form
      OBVIOUS
    <2> HIDE DEF row, form, unmarked
    <2>3. GoodRows(row) /\ ~LiveInvitation(row, p, now) /\ ~HasClaim(row, p, now)
      BY <1>4, <1>5, <2>1, <2>2
    <2>4. [row EXCEPT !.fam[p] = None, !.verified = @ \cup {p}] = proved
      BY <2>3 DEF GoodRows, Database
    <2>5. /\ GoodRows(freed) /\ freed.reg = row.reg /\ freed.inv = row.inv
          /\ freed.fam[p] = None
      BY <2>3, NewFamilyPlace DEF GoodRows, Database
    <2> HIDE DEF freed
    <2>6. GoodRows(proved) /\ proved.reg = freed.reg /\ proved.inv = freed.inv /\ proved.fam = freed.fam
      <3>1. freed.verified \cup {p} \in SUBSET Person
        BY <2>5 DEF GoodRows, Database
      <3> QED BY <2>5, <3>1, NewVerified DEF GoodRows, Database
    <2> HIDE DEF proved
    <2>7. ~LiveInvitation(proved, p, now) /\ ~Ahead(proved.fam[p], now)
      BY <2>3, <2>5, <2>6 DEF LiveInvitation, Ahead
    <2>8. \/ proved.reg[p].outside
          \/ /\ proved.reg[p].status \notin {"CONFIRMED", "PENDING_DECLARATION", "WAITLIST_OFFERED"}
             /\ ~HoldsFamilyReservation(proved, p, now)
      BY <2>3, <2>5, <2>6, ClaimsOf DEF HoldsFamilyReservation
    <2>9. ~HasClaim(proved, p, now)
      BY <2>7, <2>8, NoClaimOf
    <2>10. \A e \in AllocatedWithEmail(proved, p, now, public) : ClubGives(e) => ~HasClaim(e, p, now)
      BY <1>3, <2>6, <2>7, <2>9
    <2> QED BY <2>1, <2>4, <2>10, CommittedClosed
  <1>9. ASSUME NEW until \in SittingDeadlines(now), SubmitInSitting(p, until)
        PROVE  ClubGives(db') => ~HasClaim(db', p, now')
    <2> DEFINE e == Reserved(form, p, now, until)
    <2>1. Commit({e})
      BY <1>9 DEF SubmitInSitting
    <2>2. e = Reserved(form, p, now, until)
      OBVIOUS
    <2> HIDE DEF form, e
    <2>3. ClubGives(e) => ~HasClaim(e, p, now)
      BY <1>1, <1>4, <2>2, NothingReserved
    <2> QED BY <2>1, <2>3, CommittedClosed
  <1>10. ASSUME NEW until \in SittingDeadlines(now), HoldFamilyPlace(p, until)
         PROVE  ClubGives(db') => ~HasClaim(db', p, now')
    <2> DEFINE e == FamilyPlaceHeld(db, p, now, until)
    <2>1. Commit({e})
      BY <1>10 DEF HoldFamilyPlace
    <2>2. e = FamilyPlaceHeld(db, p, now, until)
      OBVIOUS
    <2> HIDE DEF e
    <2>3. ClubGives(e) => ~HasClaim(e, p, now)
      BY <1>1, <2>2, NoFamilyPlaceHeld
    <2> QED BY <2>1, <2>3, CommittedClosed
  <1> HIDE DEF form, unmarked
  <1> QED BY <1>6, <1>7, <1>8, <1>9, <1>10 DEF EntersByThePublicDoor

-----------------------------------------------------------------------------
\* What the promises kept by a step say of its properties.
LEMMA PromisesKept ==
    ASSUME TypeOK, Promises, HonestStep
    PROVE  /\ \A p \in Person :
                  (db'.reg[p].status = "EXPIRED" /\ ~Over(db, now))
                  => /\ db.reg[p].status = "PENDING_DECLARATION" => ~AwaitingItsFirstEmail(db, p)
                     /\ db.reg[p].status = "WAITLIST_OFFERED"
                        => ~OfferAwaitingItsFirstEmail(db, p, now)
           /\ \A p \in Person :
                  (PromisedUntil(p, now) /\ sending.mail.kind # "declaration" /\ ~Over(db, now))
                  => db'.reg[p].status # "EXPIRED"
           /\ \A p, q \in Waiting(db) :
                  (/\ db'.reg[p].status = "WAITLIST_OFFERED" /\ q \in Waiting(db')
                   /\ \/ db.reg[q].since < db.reg[p].since
                      \/ db.reg[q].since = db.reg[p].since /\ q < p)
                  => OfferPlaceTo(p)
  <1>1. ASSUME NEW p \in Person, db'.reg[p].status = "EXPIRED", ~Over(db, now),
               \/ db.reg[p].status = "PENDING_DECLARATION" /\ AwaitingItsFirstEmail(db, p)
               \/ db.reg[p].status = "WAITLIST_OFFERED" /\ OfferAwaitingItsFirstEmail(db, p, now)
        PROVE  FALSE
    <2>1. Spared(db, p, now)
      BY <1>1 DEF Spared
    <2> QED BY <1>1, <2>1 DEF HonestStep, Honest, HonestRow
  <1>2. ASSUME NEW p \in Person, PromisedUntil(p, now), sending.mail.kind # "declaration",
               ~Over(db, now)
        PROVE  db'.reg[p].status # "EXPIRED"
    <2>1. /\ sending # None /\ sending.mail.to = p /\ sending.to # None /\ now < sending.to
          /\ db.reg[p].status = "WAITLIST_OFFERED"
      BY <1>2 DEF PromisedUntil, StatusOfKind
    <2>2. /\ sending \in Delivery /\ sending.mail \in Mail /\ sending.mail \in db.mail
          /\ sending.to <= CloseOfKind(sending.mail.kind)
      BY <1>2, <2>1 DEF TypeOK, Delivery, Promises, SendFits
    <2>3. sending.mail.kind \in {"offer", "offerUntilStart"}
      BY <1>2, <2>2 DEF Mail, MailKind
    <2>4. /\ now \in Nat /\ sending.to \in Nat
          /\ CloseAt \in Nat /\ StartAt \in Nat
      BY <2>1, <2>2, DeadlineRange, DatesAssumption DEF TypeOK, Delivery
    <2>5. sending.mail.kind = "offerUntilStart" => now < StartAt
      BY <2>1, <2>2, <2>4 DEF CloseOfKind
    <2>6. sending.mail.kind = "offer" => now < CloseAt
      BY <2>1, <2>2, <2>4 DEF CloseOfKind
    <2>7. OfferAwaitingItsFirstEmail(db, p, now)
      BY <2>1, <2>2, <2>3, <2>5, <2>6 DEF OfferAwaitingItsFirstEmail, EmailQueued
    <2> QED BY <1>1, <1>2, <2>1, <2>7
  <1>3. ASSUME NEW p \in Waiting(db), NEW q \in Waiting(db),
               db'.reg[p].status = "WAITLIST_OFFERED", q \in Waiting(db'),
               \/ db.reg[q].since < db.reg[p].since
               \/ db.reg[q].since = db.reg[p].since /\ q < p
        PROVE  OfferPlaceTo(p)
    <2>1. p \in Person /\ q \in Person
      BY <1>3 DEF Waiting, WithStatus
    <2>2. Before(q, p, Since(db))
      BY <1>3, <2>1 DEF Before, Since
    <2>3. q \in Waiting(db)'
      BY <1>3 DEF Waiting, WithStatus
    <2> QED BY <1>3, <2>2, <2>3 DEF HonestStep, Honest, HonestLine, Waiting, WithStatus
  <1> QED BY <1>1, <1>2, <1>3

\* No place and no offer is taken for a deadline while the email that tells of it is still
\* queued, until the race itself ends it (awaitingItsFirstEmail, offerAwaitingItsFirstEmail).
THEOREM PlaceWaitsForItsEmailHolds ==
    Spec => PlaceWaitsForItsEmail
  <1>1. TypeOK /\ Promises /\ [Next]_vars =>
            [\A p \in Person :
               (db'.reg[p].status = "EXPIRED" /\ ~Over(db, now))
               => /\ db.reg[p].status = "PENDING_DECLARATION" => ~AwaitingItsFirstEmail(db, p)
                  /\ db.reg[p].status = "WAITLIST_OFFERED"
                     => ~OfferAwaitingItsFirstEmail(db, p, now)]_vars
    BY EveryStepHonest, PromisesKept
  <1>2. TypeOK /\ Promises /\ [Next]_vars => Promises'
    BY EveryStepHonest DEF HonestStep
  <1> QED BY <1>1, <1>2, TypeCorrect, NothingPromisedAtFirst, PTL DEF Spec, PlaceWaitsForItsEmail

\* No offer is taken before the deadline its email, now at the mail server, was rendered
\* with, though the row still holds the earlier one (planDeadlineRebase, applyDeadlineRebase).
THEOREM OfferPromiseKeptHolds ==
    Spec => OfferPromiseKept
  <1>1. TypeOK /\ Promises /\ [Next]_vars =>
            [\A p \in Person :
               (PromisedUntil(p, now) /\ sending.mail.kind # "declaration" /\ ~Over(db, now))
               => db'.reg[p].status # "EXPIRED"]_vars
    BY EveryStepHonest, PromisesKept
  <1>2. TypeOK /\ Promises /\ [Next]_vars => Promises'
    BY EveryStepHonest DEF HonestStep
  <1> QED BY <1>1, <1>2, TypeCorrect, NothingPromisedAtFirst, PTL DEF Spec, OfferPromiseKept

\* Whoever is offered a place has waited the longest of those who still wait after the step,
\* unless the staff chose that person by name (fillAvailableSpots, offerPlaceToByStaff).
THEOREM LongestWaitingServedFirstHolds ==
    Spec => LongestWaitingServedFirst
  <1>1. TypeOK /\ Promises /\ [Next]_vars =>
            [\A p, q \in Waiting(db) :
               (/\ db'.reg[p].status = "WAITLIST_OFFERED" /\ q \in Waiting(db')
                /\ \/ db.reg[q].since < db.reg[p].since
                   \/ db.reg[q].since = db.reg[p].since /\ q < p)
               => OfferPlaceTo(p)]_vars
    BY EveryStepHonest, PromisesKept
  <1>2. TypeOK /\ Promises /\ [Next]_vars => Promises'
    BY EveryStepHonest DEF HonestStep
  <1> QED BY <1>1, <1>2, TypeCorrect, NothingPromisedAtFirst, PTL
          DEF Spec, LongestWaitingServedFirst

LEMMA NobodyOvertaken ==
    ASSUME TypeOK, Promises, HonestStep
    PROVE  \A p \in Person, q \in Waiting(db) :
               (/\ ~HasClaim(db, p, now) /\ q \in Waiting(db') /\ db.reg[p].status # "WAITLISTED"
                /\ db.reg[q].since < now \/ (db.reg[q].since = now /\ q < p)
                /\ db'.reg[p].status \in {"PENDING_DECLARATION", "CONFIRMED"} /\ ~db'.reg[p].outside)
               => GivePlaceNow(p) \/ SetOutside(p, FALSE)
  <1> SUFFICES ASSUME NEW p \in Person, NEW q \in Waiting(db), ~HasClaim(db, p, now),
                      q \in Waiting(db'), db.reg[p].status # "WAITLISTED",
                      db.reg[q].since < now \/ (db.reg[q].since = now /\ q < p),
                      db'.reg[p].status \in {"PENDING_DECLARATION", "CONFIRMED"},
                      ~db'.reg[p].outside
               PROVE  GivePlaceNow(p) \/ SetOutside(p, FALSE)
    OBVIOUS
  <1>1. q \in Waiting(db) \ {p} /\ q \in Waiting(db)'
    BY DEF Waiting, WithStatus
  <1>2. HonestTurn(db', p)
    BY DEF HonestStep, Honest, HonestRow
  <1>3. ~TakesNoTurn(db, db', p, now)
    BY <1>1 DEF TakesNoTurn, Waiting, WithStatus
  <1> QED BY <1>2, <1>3 DEF HonestTurn

\* However many wait, nobody is given a place past one of them, whichever transaction it is
\* and whatever it sweeps and offers on the way, but by the club's own hand
\* (newcomerJoinsLine; givePlaceNowByStaff, setOutsideCapacityByStaff).
THEOREM LineNotOvertakenHolds ==
    Spec => LineNotOvertaken
  <1>1. TypeOK /\ Promises /\ [Next]_vars =>
            [\A p \in Person, q \in Waiting(db) :
               (/\ ~HasClaim(db, p, now) /\ q \in Waiting(db') /\ db.reg[p].status # "WAITLISTED"
                /\ db.reg[q].since < now \/ (db.reg[q].since = now /\ q < p)
                /\ db'.reg[p].status \in {"PENDING_DECLARATION", "CONFIRMED"} /\ ~db'.reg[p].outside)
               => GivePlaceNow(p) \/ SetOutside(p, FALSE)]_vars
    BY EveryStepHonest, NobodyOvertaken
  <1>2. TypeOK /\ Promises /\ [Next]_vars => Promises'
    BY EveryStepHonest DEF HonestStep
  <1> QED BY <1>1, <1>2, TypeCorrect, NothingPromisedAtFirst, PTL DEF Spec, LineNotOvertaken

LEMMA ClubsPlacesStay ==
    ASSUME TypeOK, Promises, HonestStep
    PROVE  (db'.ev.offerOnly /\ db.ev.capacity # None /\ db'.ev.capacity # None)
           => /\ \A p \in Person :
                     (Gains(p) /\ ~LiveInvitation(db, p, now)) => ~EntersByThePublicDoor(p)
              /\ \A p \in Waiting(db) : db'.reg[p].status = "WAITLIST_OFFERED" => OfferPlaceTo(p)
  <1> SUFFICES ASSUME ClubGives(db')
               PROVE  /\ \A p \in Person :
                             (Gains(p) /\ ~LiveInvitation(db, p, now)) => ~EntersByThePublicDoor(p)
                      /\ \A p \in Waiting(db) :
                             db'.reg[p].status = "WAITLIST_OFFERED" => OfferPlaceTo(p)
    BY DEF ClubGives
  <1>1. ASSUME NEW p \in Person, Gains(p), ~LiveInvitation(db, p, now), EntersByThePublicDoor(p)
        PROVE  FALSE
    <2>1. ~HasClaim(db, p, now) /\ HasClaim(db', p, now')
      BY <1>1 DEF Gains
    <2> QED BY <1>1, <2>1, PublicDoorClosed
  <1>2. HonestOffers(db')
    BY DEF HonestStep, Honest
  <1> QED BY <1>1, <1>2 DEF HonestOffers

\* While the free places are the club's to give, whether the editor said so or the deadline's
\* release did, no form and no link of the site gives one, and no step but the club's own
\* choice offers one to the line (publicEntryQueues, fillAvailableSpots).
THEOREM FreePlacesAreTheClubsHolds ==
    Spec => FreePlacesAreTheClubs
  <1>1. TypeOK /\ Promises /\ [Next]_vars =>
            [(db'.ev.offerOnly /\ db.ev.capacity # None /\ db'.ev.capacity # None)
             => /\ \A p \in Person :
                       (Gains(p) /\ ~LiveInvitation(db, p, now)) => ~EntersByThePublicDoor(p)
                /\ \A p \in Waiting(db) :
                       db'.reg[p].status = "WAITLIST_OFFERED" => OfferPlaceTo(p)]_vars
    BY EveryStepHonest, ClubsPlacesStay
  <1>2. TypeOK /\ Promises /\ [Next]_vars => Promises'
    BY EveryStepHonest DEF HonestStep
  <1> QED BY <1>1, <1>2, TypeCorrect, NothingPromisedAtFirst, PTL DEF Spec, FreePlacesAreTheClubs

\* A place reserved in a family's sitting becomes theirs, stays reserved, or ends with the
\* person's own confirmation link (confirmEmail, expireStalePendingEmailConfirmations).
THEOREM FamilyReservationHonouredHolds ==
    Spec => FamilyReservationHonoured
  <1>1. TypeOK /\ Promises /\ [Next]_vars =>
            [\A p \in Person :
               HoldsFamilyReservation(db, p, now)
               => \/ db'.reg[p].status \in {"PENDING_DECLARATION", "CONFIRMED"}
                  \/ db'.reg[p].status = "PENDING_EMAIL_CONFIRMATION"
                     /\ (now' = now => HoldsFamilyReservation(db', p, now) \/ db'.reg[p].outside)
                  \/ db'.reg[p].status = "EXPIRED" /\ db.reg[p].link <= now]_vars
    BY EveryStepHonest DEF HonestStep, Honest, HonestRow
  <1>2. TypeOK /\ Promises /\ [Next]_vars => Promises'
    BY EveryStepHonest DEF HonestStep
  <1> QED BY <1>1, <1>2, TypeCorrect, NothingPromisedAtFirst, PTL
          DEF Spec, FamilyReservationHonoured

\* A live invitation that leaves the books with its person changed leaves that person a
\* place, whatever sweeps and offers the same transaction runs (acceptInvitation).
THEOREM InvitationTurnsIntoPlaceHolds ==
    Spec => InvitationTurnsIntoPlace
  <1>1. TypeOK /\ Promises /\ [Next]_vars =>
            [\A p \in Person :
               (/\ LiveInvitation(db, p, now) /\ db'.inv[p] = None /\ now < CloseAt
                /\ db.reg[p].status # "WAITLIST_OFFERED" /\ db.reg[p].status # db'.reg[p].status)
               => db'.reg[p].status \in {"PENDING_DECLARATION", "CONFIRMED"}]_vars
    BY EveryStepHonest DEF HonestStep, Honest, HonestRow
  <1>2. TypeOK /\ Promises /\ [Next]_vars => Promises'
    BY EveryStepHonest DEF HonestStep
  <1> QED BY <1>1, <1>2, TypeCorrect, NothingPromisedAtFirst, PTL
          DEF Spec, InvitationTurnsIntoPlace

-----------------------------------------------------------------------------
(***************************************************************************)
(* The places a step gives are places there are: with the promises, for an *)
(* email sent late might otherwise bring back an offer nobody counts.      *)
(***************************************************************************)
\* No offer is open again that was not, and no unsigned place counts anew.
LEMMA RebasedTakesNothing ==
    ASSUME NEW d, GoodRows(d), NEW t \in Time, NEW s \in Delivery,
           NEW c, c \in {d, Unqueued(d, s.mail)},
           s.mail.kind # "declaration" => s.mail \in d.mail,
           s.to # None => s.to <= CloseOfKind(s.mail.kind)
    PROVE  Rebased(c, s).ev = d.ev /\ Taken(Rebased(c, s), t) \subseteq Taken(d, t)
  <1> DEFINE e == Rebased(c, s)
             p == s.mail.to
             r == [c.reg[p] EXCEPT !.hold = s.to]
             moved == [c EXCEPT !.reg[p] = r]
  <1>1. p \in Person /\ s.mail.kind \in MailKind
    BY DEF Delivery, Mail
  <1>2. GoodRows(c)
    BY UnqueuedGood
  <1>3. /\ c.ev = d.ev /\ c.reg = d.reg /\ c.fam = d.fam /\ c.inv = d.inv
        /\ c.mail \subseteq d.mail
    BY DEF Unqueued, GoodRows, Database
  <1>4. e = c \/ (e = moved /\ s.to # None /\ c.reg[p].status = StatusOfKind(s.mail.kind))
    <2>1. [c EXCEPT !.reg[p].hold = s.to] = moved
      OBVIOUS
    <2> HIDE DEF moved, r
    <2> QED BY <1>1, <2>1 DEF Rebased
  <1>5. moved = [c EXCEPT !.reg[p] = r] /\ s.mail.to = p
    OBVIOUS
  <1>6. r.status = c.reg[p].status /\ r.outside = c.reg[p].outside /\ r.hold = s.to
    BY <1>1, <1>2, RowsAre DEF Registration
  <1> HIDE DEF e, moved, r, p
  <1>7. CASE e = c
    <2>1. \A q \in Person : RegTaken(c, q, t) => RegTaken(d, q, t)
      BY <1>3 DEF RegTaken, OpenOffer, OfferAwaitingItsFirstEmail, EmailQueued
    <2>2. Taken(c, t) \subseteq Taken(d, t)
      BY <1>3, <2>1, TakenWithin
    <2> QED BY <1>3, <1>7, <2>2 DEF e
  <1>8. CASE e = moved /\ s.to # None /\ c.reg[p].status = StatusOfKind(s.mail.kind)
    <2>1. /\ moved.ev = c.ev /\ moved.mail = c.mail /\ moved.fam = c.fam /\ moved.inv = c.inv
          /\ moved.reg[p] = r /\ \A q \in Person \ {p} : moved.reg[q] = c.reg[q]
      BY <1>1, <1>2, <1>5, RowReplaced
    <2>2. ASSUME NEW q \in Person \ {p}, RegTaken(moved, q, t) PROVE RegTaken(d, q, t)
      BY <1>3, <2>1, <2>2 DEF RegTaken, OpenOffer, OfferAwaitingItsFirstEmail, EmailQueued
    <2>3. ASSUME r.status = "WAITLIST_OFFERED", OpenOffer(moved, p, t) PROVE OpenOffer(d, p, t)
      <3>1. s.mail.kind \in {"offer", "offerUntilStart"} /\ s.mail \in d.mail
        BY <1>1, <1>6, <1>8, <2>3 DEF StatusOfKind, MailKind
      <3>2. CASE t < CloseOfKind(s.mail.kind)
        <4>1. OfferAwaitingItsFirstEmail(d, p, t)
          BY <1>1, <1>5, <3>1, <3>2 DEF OfferAwaitingItsFirstEmail, EmailQueued, CloseOfKind
        <4> QED BY <1>3, <1>6, <2>3, <4>1 DEF OpenOffer
      <3>3. CASE ~(t < CloseOfKind(s.mail.kind))
        <4>1. t \in Nat /\ s.to \in Nat /\ CloseOfKind(s.mail.kind) \in Nat
          BY <1>8, DeadlineRange DEF Delivery, CloseOfKind
        <4>2. ~Ahead(moved.reg[p].hold, t)
          BY <1>6, <1>8, <2>1, <3>3, <4>1 DEF Ahead
        <4>3. OfferAwaitingItsFirstEmail(moved, p, t)
          BY <2>3, <4>2 DEF OpenOffer
        <4>4. OfferAwaitingItsFirstEmail(d, p, t)
          BY <1>3, <2>1, <4>3 DEF OfferAwaitingItsFirstEmail, EmailQueued
        <4> QED BY <1>3, <1>6, <2>3, <4>4 DEF OpenOffer
      <3> QED BY <3>2, <3>3
    <2>4. ASSUME RegTaken(moved, p, t) PROVE RegTaken(d, p, t)
      <3>1. d.reg[p].status \in {"PENDING_DECLARATION", "WAITLIST_OFFERED"}
        BY <1>3, <1>8 DEF StatusOfKind
      <3>2. RegClaim(d.reg[p], t)
        BY <1>3, <1>6, <2>1, <2>4, <3>1 DEF RegTaken, RegClaim
      <3>3. d.reg[p].status = "WAITLIST_OFFERED" => OpenOffer(d, p, t)
        BY <1>3, <1>6, <2>1, <2>3, <2>4 DEF RegTaken
      <3> QED BY <3>2, <3>3 DEF RegTaken
    <2>5. \A q \in Person : RegTaken(moved, q, t) => RegTaken(d, q, t)
      BY <2>2, <2>4
    <2>6. Taken(moved, t) \subseteq Taken(d, t)
      BY <1>3, <2>1, <2>5, TakenWithin
    <2> QED BY <1>3, <1>8, <2>1, <2>6 DEF e
  <1> QED BY <1>4, <1>7, <1>8

LEMMA SendsTakeNothing ==
    ASSUME TypeOK, SendFits, Sends
    PROVE  now' = now /\ Taken(db', now) \subseteq Taken(db, now)
  <1>1. GoodRows(db) /\ now \in Time /\ (sending # None => sending \in Delivery)
    BY DEF TypeOK
  <1>2. now' = now
    BY DEF Sends, PlanSend, OfferAccepted, DeclarationAccepted, ApplyRebase, SendGivesUp, WorkerStops
  <1> DEFINE u == Unqueued(db, sending.mail)
             still == [sending EXCEPT !.to = None]
  <1>3. \/ db' = db
        \/ db' = u
        \/ /\ sending # None /\ db' = Rebased(db, sending) /\ sending.sent
        \/ /\ sending # None /\ db' = Rebased(u, sending) /\ sending.mail.kind # "declaration"
    BY DEF Sends, PlanSend, OfferAccepted, DeclarationAccepted, ApplyRebase, SendGivesUp, WorkerStops
  <1>4. Taken(u, now) \subseteq Taken(db, now)
    <2>1. /\ u.reg = db.reg /\ u.fam = db.fam /\ u.inv = db.inv /\ u.mail \subseteq db.mail
      BY <1>1 DEF Unqueued, GoodRows, Database
    <2> HIDE DEF u
    <2>2. \A q \in Person : RegTaken(u, q, now) => RegTaken(db, q, now)
      BY <2>1 DEF RegTaken, OpenOffer, OfferAwaitingItsFirstEmail, EmailQueued
    <2> QED BY <2>1, <2>2, TakenWithin
  <1>5. ASSUME sending # None
        PROVE  /\ sending.to # None => sending.to <= CloseOfKind(sending.mail.kind)
               /\ sending.mail.kind # "declaration" => sending.mail \in db.mail
               /\ \A c \in {db, u} : Taken(Rebased(c, sending), now) \subseteq Taken(db, now)
    <2>1. /\ sending.to # None => sending.to <= CloseOfKind(sending.mail.kind)
          /\ sending.mail.kind # "declaration" => sending.mail \in db.mail
      BY <1>1, <1>5 DEF SendFits, Delivery
    <2> QED BY <1>1, <1>5, <2>1, RebasedTakesNothing
  <1> HIDE DEF u
  <1> QED BY <1>2, <1>3, <1>4, <1>5

LEMMA TickTakesNothing ==
    ASSUME TypeOK, Tick
    PROVE  Taken(db', now') \subseteq Taken(db, now)
  <1>1. GoodRows(db) /\ now \in Nat
    BY DeadlineRange DEF TypeOK
  <1>2. db' = db /\ now' = now + 1
    BY DEF Tick
  <1>3. ASSUME NEW p \in Person
        PROVE  /\ RegTaken(db, p, now + 1) => RegTaken(db, p, now)
               /\ Ahead(db.fam[p], now + 1) => Ahead(db.fam[p], now)
               /\ InvClaim(db.inv[p], now + 1) => InvClaim(db.inv[p], now)
    <2>1. db.reg[p].hold \in Nat \cup {None} /\ db.fam[p] \in Nat \cup {None}
          /\ (db.inv[p] # None => db.inv[p].until \in Nat)
      BY <1>1, RowsAre, DeadlineRange DEF Registration, GoodRows, Database, Invitation
    <2>2. StartAt \in Nat /\ CloseAt \in Nat
      BY DatesAssumption
    <2>3. /\ Ahead(db.reg[p].hold, now + 1) => Ahead(db.reg[p].hold, now)
          /\ Ahead(db.fam[p], now + 1) => Ahead(db.fam[p], now)
      BY <1>1, <2>1 DEF Ahead
    <2>4. InvClaim(db.inv[p], now + 1) => InvClaim(db.inv[p], now)
      BY <1>1, <2>1 DEF InvClaim
    <2>5. OfferAwaitingItsFirstEmail(db, p, now + 1) => OfferAwaitingItsFirstEmail(db, p, now)
      BY <1>1, <2>2 DEF OfferAwaitingItsFirstEmail
    <2>6. RegTaken(db, p, now + 1) => RegTaken(db, p, now)
      BY <2>3, <2>5 DEF RegTaken, RegClaim, OpenOffer
    <2> QED BY <2>3, <2>4, <2>6
  <1>4. Taken(db, now + 1) \subseteq Taken(db, now)
    BY <1>3, TakenWithin
  <1> QED BY <1>2, <1>4

\* A save that raises the capacity serves the line with what is new.
LEMMA EditGives ==
    ASSUME TypeOK, NEW form \in EventForms, EditEvent(form)
    PROVE  \/ Occupied(db', now) <= Occupied(db, now)
           \/ db'.ev.capacity = None \/ Occupied(db', now) <= db'.ev.capacity
  <1> DEFINE saved == [db EXCEPT !.ev = Stored(form, db.ev.released)]
             served == FillAvailableSpots(saved, now)
  <1>1. GoodRows(db) /\ now \in Time
    BY DEF TypeOK
  <1>2. GoodRows(saved)
    <2>1. form \in EventForm /\ db.ev.released \in BOOLEAN
      BY <1>1, EventAssumption DEF GoodRows, Database, StoredEvent
    <2>2. Stored(form, db.ev.released) \in StoredEvent
      BY <2>1 DEF Stored, EventForm, StoredEvent
    <2> QED BY <1>1, <2>2, NewSettings
  <1>3. saved.reg = db.reg /\ saved.fam = db.fam /\ saved.inv = db.inv /\ saved.mail = db.mail
    BY <1>1 DEF GoodRows, Database
  <1>4. Commit({saved}) \/ Commit({served})
    BY DEF EditEvent
  <1> HIDE DEF saved
  <1>5. Occupied(saved, now) = Occupied(db, now)
    BY <1>3 DEF Occupied, Taken, HoldsFamilyReservation, LiveInvitation, OpenOffer,
                OfferAwaitingItsFirstEmail, EmailQueued
  <1>6. Occupied(db, now) \in Nat /\ saved.ev \in StoredEvent /\ saved.ev.capacity \in Nat \cup {None}
    BY <1>2, TakenFinite, CapacityRange
  <1>7. CASE Commit({saved})
    BY <1>5, <1>6, <1>7 DEF Commit
  <1>8. CASE Commit({served}) /\ saved.ev.capacity = None
    BY <1>1, <1>2, <1>8, FilledSwept DEF Commit, Swept, SamePlaces
  <1>9. CASE Commit({served}) /\ saved.ev.capacity # None
    <2> DEFINE n == IF saved.ev.capacity <= Occupied(db, now) THEN Occupied(db, now)
                    ELSE saved.ev.capacity
    <2>1. /\ n \in Nat /\ saved.ev.capacity <= n /\ Occupied(db, now) <= n
          /\ (n = Occupied(db, now) \/ n = saved.ev.capacity)
      BY <1>6, <1>9
    <2> HIDE DEF n
    <2>2. Allowed(saved.ev, "staff", n) /\ Held(saved, now, saved.ev, n)
      BY <1>5, <2>1 DEF Allowed, Held, SamePlaces, CapacityForEntry
    <2>3. served = saved \/ Fits(served, now, saved.ev, n)
      BY <1>1, <1>2, <1>6, <2>1, <2>2, FillAvailableSpotsFits
    <2>4. Held(served, now, saved.ev, n)
      BY <2>1, <2>2, <2>3, FitsHeld
    <2> HIDE DEF served
    <2>5. Occupied(served, now) <= n /\ served.ev.capacity = saved.ev.capacity
      BY <1>9, <2>4 DEF Held, SamePlaces
    <2> QED BY <1>9, <2>1, <2>5 DEF Commit
  <1> QED BY <1>4, <1>7, <1>8, <1>9

LEMMA OnlyFreePlacesGiven ==
    ASSUME TypeOK, SendFits, [Next]_vars,
           Occupied(db', now') > Occupied(db, now), db'.ev.capacity # None
    PROVE  \/ Occupied(db', now') <= db'.ev.capacity
           \/ \E p \in Desk : /\ db.reg[p].status = "WAITLIST_OFFERED" /\ ~OpenOffer(db, p, now)
                              /\ db'.reg[p].status = "CONFIRMED"
  <1>1. /\ GoodRows(db) /\ Occupied(db, now) \in Nat
        /\ Occupied(db', now) \in Nat /\ Occupied(db', now') \in Nat
        /\ db.ev.capacity \in Nat \cup {None}
    BY TakenFinite, CapacityRange DEF TypeOK
  <1>2. CASE UNCHANGED vars
    BY <1>1, <1>2 DEF vars
  <1>3. CASE now' = now /\ \A n : Counting("staff", n) => Within(db', n)
    <2>1. CASE db.ev.capacity = None
      <3>1. PICK n \in Nat : Allowed(db.ev, "staff", n) /\ Held(db, now, db.ev, n)
        BY <1>1, SomeCount
      <3>2. Within(db', n)
        BY <1>3, <3>1 DEF Counting
      <3> QED BY <2>1, <3>2 DEF Within, Fewer, Fits, SamePlaces
    <2>2. CASE db.ev.capacity # None
      <3> DEFINE n == IF db.ev.capacity <= Occupied(db, now) THEN Occupied(db, now)
                      ELSE db.ev.capacity
      <3>1. /\ n \in Nat /\ db.ev.capacity <= n /\ Occupied(db, now) <= n
            /\ (n = Occupied(db, now) \/ n = db.ev.capacity)
        BY <1>1, <2>2
      <3> HIDE DEF n
      <3>2. Counting("staff", n)
        BY <3>1 DEF Counting, Allowed, Held, SamePlaces, CapacityForEntry
      <3>3. Within(db', n)
        BY <1>3, <3>2
      <3>4. Held(db', now, db.ev, n)
        BY <3>2, <3>3, WithinHeld
      <3>5. Occupied(db', now) <= n /\ db'.ev.capacity = db.ev.capacity
        BY <2>2, <3>4 DEF Held, SamePlaces
      <3> QED BY <1>1, <1>3, <3>1, <3>5
    <2> QED BY <2>1, <2>2
  <1>4. CASE \E p \in Desk : LapsedOfferConfirmed(p)
    BY <1>4 DEF LapsedOfferConfirmed
  <1>5. CASE now' = now /\ \A n \in Nat : Given(db', n)
    <2>1. db'.ev.capacity \in Nat
      <3>1. 0 \in Nat
        OBVIOUS
      <3>2. Supplemented(db'.ev, db.ev)
        BY <1>5, <3>1 DEF Given
      <3> QED BY <1>1, <3>2 DEF Supplemented
    <2> DEFINE n == IF db'.ev.capacity <= Occupied(db, now) THEN Occupied(db, now)
                    ELSE db'.ev.capacity
    <2>2. /\ n \in Nat /\ db'.ev.capacity <= n /\ Occupied(db, now) <= n
          /\ (n = Occupied(db, now) \/ n = db'.ev.capacity)
      BY <1>1, <2>1
    <2> HIDE DEF n
    <2>3. Fits(db', now, db'.ev, n)
      BY <1>5, <2>2 DEF Given, Allowed, CapacityForEntry
    <2>4. Held(db', now, db'.ev, n)
      BY <2>2, <2>3, FitsHeld
    <2>5. Occupied(db', now) <= n
      BY <2>4 DEF Held
    <2> QED BY <1>1, <1>5, <2>2, <2>5
  <1>6. CASE now' = now /\ \E form \in EventForms : EditEvent(form)
    BY <1>1, <1>6, EditGives
  <1>7. CASE Sends \/ Tick
    <2>1. Taken(db', now') \subseteq Taken(db, now)
      BY <1>7, SendsTakeNothing, TickTakesNothing
    <2>2. Occupied(db', now') <= Occupied(db, now)
      BY <2>1, TakenFinite, FS_Subset DEF Occupied
    <2> QED BY <1>1, <2>2
  <1> QED BY <1>2, <1>3, <1>4, <1>5, <1>6, <1>7, StepsGive

\* However many people there are, and even where the editor lowers the capacity below what
\* is claimed: whoever is given a place is given one that is there, but for the holder of a
\* lapsed offer whom the desk confirms (countOccupied, confirmByStaff).
THEOREM PlacesGivenWithinCapacityHolds ==
    Spec => PlacesGivenWithinCapacity
  <1>1. TypeOK /\ Promises /\ [Next]_vars =>
            [(Occupied(db', now') > Occupied(db, now) /\ db'.ev.capacity # None)
             => \/ Occupied(db', now') <= db'.ev.capacity
                \/ \E p \in Desk : /\ db.reg[p].status = "WAITLIST_OFFERED" /\ ~OpenOffer(db, p, now)
                                   /\ db'.reg[p].status = "CONFIRMED"]_vars
    BY OnlyFreePlacesGiven DEF Promises
  <1>2. TypeOK /\ Promises /\ [Next]_vars => Promises'
    BY EveryStepHonest DEF HonestStep
  <1> QED BY <1>1, <1>2, TypeCorrect, NothingPromisedAtFirst, PTL
          DEF Spec, PlacesGivenWithinCapacity

=============================================================================
