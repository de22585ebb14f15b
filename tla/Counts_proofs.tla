---------------------------- MODULE Counts_proofs ----------------------------
(***************************************************************************)
(* The line never outgrows its limit, for every value of the constants:    *)
(* while nobody lowers the limit, no order of transactions, sends and ticks*)
(* leaves more people waiting, or with an open offer, than it allows.      *)
(*                                                                         *)
(* Those in the line are a finite set.  The sweeps, the offers and whatever*)
(* gives or frees a place only make it smaller; one operator makes it      *)
(* larger, by one, after it looked.  An offer whose deadline passed is out *)
(* of the line and must not come back: its deadline may be moved by the    *)
(* email that announces it, and this email, while it is on its way, still  *)
(* keeps the offer open - or can only move it to a moment already over.    *)
(*                                                                         *)
(* The door counts the same line, without the lock: the last section shows *)
(* that it lets nobody in whom the allocator would then refuse.            *)
(***************************************************************************)
EXTENDS Places_proofs, WellFoundedInduction

-----------------------------------------------------------------------------
(***************************************************************************)
(* Who stands in the line.                                                 *)
(***************************************************************************)
LineStatus == {"WAITLISTED", "WAITLIST_OFFERED"}

StandsInLine(d, p, t) ==
    ~d.reg[p].outside /\ (d.reg[p].status = "WAITLISTED" \/ OpenOffer(d, p, t))

Line(d, t) == {p \in Person : StandsInLine(d, p, t)}

\* A row in the line that its limit does not count: it would be one more once counted again.
Outsider(d, p) == d.reg[p].outside /\ d.reg[p].status \in LineStatus

Short(d, t) == d.ev.waitCap = None \/ Cardinality(Line(d, t)) <= d.ev.waitCap

Fine(d, t) == Short(d, t) /\ \A p \in Person : ~Outsider(d, p)

\* ... but for one person, on the way to a seat of another kind.
FineBut(d, p, t) == Short(d, t) /\ \A q \in Person \ {p} : ~Outsider(d, q)

LEMMA LimitRange ==
    ASSUME NEW d, GoodRows(d)
    PROVE  d.ev.waitCap \in Nat \cup {None} /\ d.ev \in StoredEvent
  BY DEF GoodRows, Database, StoredEvent

LEMMA LineFinite ==
    ASSUME NEW d, NEW t
    PROVE  IsFiniteSet(Line(d, t)) /\ Cardinality(Line(d, t)) \in Nat
  <1>1. Line(d, t) \in SUBSET Person
    BY DEF Line
  <1> QED BY <1>1, PersonAssumption, FS_Subset, FS_CardinalityType

\* What the code counts: those who wait, and the offers still open.
LEMMA LineIsCounted ==
    ASSUME NEW d, NEW t
    PROVE  Cardinality(Line(d, t)) = Cardinality(Waiting(d)) + OpenOffers(d, t)
  <1> DEFINE offers == {p \in Person : ~d.reg[p].outside /\ OpenOffer(d, p, t)}
  <1>1. Line(d, t) = Waiting(d) \cup offers
    BY DEF Line, StandsInLine, Waiting, WithStatus
  <1>2. Waiting(d) \cap offers = {}
    BY DEF Waiting, WithStatus, OpenOffer
  <1>3. Waiting(d) \in SUBSET Person /\ offers \in SUBSET Person
    BY DEF Waiting, WithStatus
  <1> HIDE DEF offers
  <1>4. IsFiniteSet(Waiting(d)) /\ IsFiniteSet(offers)
    BY <1>3, PersonAssumption, FS_Subset
  <1>5. /\ Cardinality(Waiting(d) \cup offers) = Cardinality(Waiting(d)) + Cardinality(offers)
                                                  - Cardinality(Waiting(d) \cap offers)
        /\ Cardinality(Waiting(d) \cap offers) = 0
    BY <1>2, <1>4, FS_Union, FS_EmptySet
  <1>6. Cardinality(Waiting(d)) \in Nat /\ Cardinality(offers) \in Nat
    BY <1>4, FS_CardinalityType
  <1> QED BY <1>1, <1>5, <1>6 DEF OpenOffers, offers

LEMMA ShortWithFewer ==
    ASSUME NEW d, NEW e, NEW t, NEW u, GoodRows(d), GoodRows(e), Short(d, t),
           e.ev.waitCap = None \/ (d.ev.waitCap # None /\ d.ev.waitCap <= e.ev.waitCap),
           \A p \in Person : StandsInLine(e, p, u) => StandsInLine(d, p, t)
    PROVE  Short(e, u)
  <1>1. Line(e, u) \in SUBSET Line(d, t)
    BY DEF Line
  <1>2. Cardinality(Line(e, u)) <= Cardinality(Line(d, t))
    BY <1>1, LineFinite, FS_Subset
  <1> QED BY <1>2, LineFinite, LimitRange DEF Short

LEMMA ShortWithOneMore ==
    ASSUME NEW d, NEW e, NEW t, NEW p, GoodRows(d), LineTakesOneMore(d, t),
           e.ev.waitCap = d.ev.waitCap,
           \A q \in Person : StandsInLine(e, q, t) => StandsInLine(d, q, t) \/ q = p
    PROVE  Short(e, t)
  <1>1. Line(e, t) \in SUBSET (Line(d, t) \cup {p})
    BY DEF Line
  <1>2. /\ IsFiniteSet(Line(d, t) \cup {p})
        /\ Cardinality(Line(d, t) \cup {p}) <= Cardinality(Line(d, t)) + 1
    BY LineFinite, OneElementMore
  <1>3. Cardinality(Line(e, t)) <= Cardinality(Line(d, t) \cup {p})
    BY <1>1, <1>2, FS_Subset
  <1>4. Cardinality(Line(d, t) \cup {p}) \in Nat
    BY <1>2, FS_CardinalityType
  <1>5. d.ev.waitCap # None
        => d.ev.waitCap - (Cardinality(Waiting(d)) + OpenOffers(d, t)) > 0
    BY DEF LineTakesOneMore, LineHasRoom
  <1> QED BY <1>2, <1>3, <1>4, <1>5, LineFinite, LineIsCounted, LimitRange DEF Short

-----------------------------------------------------------------------------
(***************************************************************************)
(* What keeps the line as it is, or makes it smaller.                      *)
(***************************************************************************)
Keeps(d, e, t) ==
    /\ e.ev.waitCap = d.ev.waitCap
    /\ d.mail \subseteq e.mail
    /\ \A p \in Person : StandsInLine(e, p, t) => StandsInLine(d, p, t)
    /\ \A p \in Person : Outsider(e, p) => Outsider(d, p)
    /\ \A p \in Person : e.reg[p].outside = d.reg[p].outside

LEMMA KeepsTwice ==
    ASSUME NEW d, NEW e, NEW f, NEW t, Keeps(d, e, t), Keeps(e, f, t)
    PROVE  Keeps(d, f, t)
  BY DEF Keeps

LEMMA KeepsAll ==
    ASSUME NEW d, NEW t
    PROVE  Keeps(d, d, t)
  BY DEF Keeps

LEMMA KeepsFine ==
    ASSUME NEW d, NEW e, NEW t, GoodRows(d), GoodRows(e), Keeps(d, e, t)
    PROVE  /\ Short(d, t) => Short(e, t)
           /\ Fine(d, t) => Fine(e, t)
           /\ \A p \in Person : FineBut(d, p, t) => FineBut(e, p, t)
  <1>1. Short(d, t) => Short(e, t)
    <2>1. e.ev.waitCap = None \/ (d.ev.waitCap # None /\ d.ev.waitCap <= e.ev.waitCap)
      BY LimitRange DEF Keeps
    <2> QED BY <2>1, ShortWithFewer DEF Keeps
  <1> QED BY <1>1 DEF Fine, FineBut, Keeps

\* Rows that stay, or leave the line, and no other email about an offer.
LEMMA KeepsRows ==
    ASSUME NEW d, NEW e, NEW t,
           e.ev.waitCap = d.ev.waitCap,
           d.mail \subseteq e.mail, \A m \in e.mail \ d.mail : m.kind = "declaration",
           \A p \in Person : \/ e.reg[p] = d.reg[p]
                             \/ /\ e.reg[p].status \notin LineStatus
                                /\ e.reg[p].outside = d.reg[p].outside
    PROVE  Keeps(d, e, t)
  <1>1. ASSUME NEW p \in Person
        PROVE  /\ StandsInLine(e, p, t) => StandsInLine(d, p, t)
               /\ Outsider(e, p) => Outsider(d, p)
               /\ e.reg[p].outside = d.reg[p].outside
    <2>1. CASE e.reg[p] = d.reg[p]
      <3>1. EmailQueued(e, p, {"offer", "offerUntilStart"}) => EmailQueued(d, p, {"offer", "offerUntilStart"})
        BY DEF EmailQueued
      <3>2. EmailQueued(e, p, {"offerUntilStart"}) => EmailQueued(d, p, {"offerUntilStart"})
        BY DEF EmailQueued
      <3>3. OpenOffer(e, p, t) => OpenOffer(d, p, t)
        BY <2>1, <3>1, <3>2 DEF OpenOffer, OfferAwaitingItsFirstEmail
      <3> QED BY <2>1, <3>3 DEF StandsInLine, Outsider
    <2>2. CASE e.reg[p].status \notin LineStatus /\ e.reg[p].outside = d.reg[p].outside
      BY <2>2 DEF StandsInLine, OpenOffer, Outsider, LineStatus
    <2> QED BY <2>1, <2>2
  <1> QED BY <1>1 DEF Keeps

LEMMA ExpireByClockKeeps ==
    ASSUME NEW d, GoodRows(d), NEW t \in Time
    PROVE  Keeps(d, ExpireByClock(d, t), t)
  <1> DEFINE e == ExpireByClock(d, t)
  <1>1. /\ e.ev = d.ev /\ e.mail = d.mail
        /\ \A p \in Person : e.reg[p] =
               IF OfferLapsed(d, p, t) THEN Moved(d.reg[p], "EXPIRED", None)
               ELSE IF ReservationLapsed(d, p, t) THEN [d.reg[p] EXCEPT !.hold = None]
               ELSE d.reg[p]
    BY DEF ExpireByClock, GoodRows, Database
  <1> HIDE DEF e
  <1>2. ASSUME NEW p \in Person
        PROVE  \/ e.reg[p] = d.reg[p]
               \/ e.reg[p].status \notin LineStatus /\ e.reg[p].outside = d.reg[p].outside
    <2>1. d.reg[p] \in Registration
      BY RowsAre
    <2>2. CASE OfferLapsed(d, p, t)
      BY <1>1, <2>1, <2>2 DEF Moved, Registration, LineStatus
    <2>3. CASE ~OfferLapsed(d, p, t) /\ ReservationLapsed(d, p, t)
      BY <1>1, <2>1, <2>3 DEF ReservationLapsed, Registration, LineStatus
    <2> QED BY <1>1, <2>2, <2>3
  <1>3. Keeps(d, e, t)
    BY <1>1, <1>2, KeepsRows
  <1> QED BY <1>3 DEF e

LEMMA ReleaseHoldsKeeps ==
    ASSUME NEW d, GoodRows(d), NEW t, NEW released
    PROVE  Keeps(d, ReleaseHolds(d, released), t)
  <1> DEFINE e == ReleaseHolds(d, released)
  <1>1. /\ e.ev = d.ev /\ e.mail = d.mail
        /\ \A p \in Person : e.reg[p] =
               IF p \in released THEN [Moved(d.reg[p], "EXPIRED", None) EXCEPT !.late = TRUE]
               ELSE d.reg[p]
    BY DEF ReleaseHolds, GoodRows, Database
  <1> HIDE DEF e
  <1>2. ASSUME NEW p \in Person, p \in released
        PROVE  e.reg[p].status \notin LineStatus /\ e.reg[p].outside = d.reg[p].outside
    <2>1. d.reg[p] \in Registration
      BY RowsAre
    <2>2. e.reg[p] = [Moved(d.reg[p], "EXPIRED", None) EXCEPT !.late = TRUE]
      BY <1>1, <1>2
    <2> QED BY <2>1, <2>2 DEF Moved, Registration, LineStatus
  <1>3. Keeps(d, e, t)
    BY <1>1, <1>2, KeepsRows
  <1> QED BY <1>3 DEF e

LEMMA ExpireStaleHoldsKeeps ==
    ASSUME NEW d, GoodRows(d), NEW t \in Time, NEW wanting, NEW channel
    PROVE  Keeps(d, ExpireStaleHolds(d, t, wanting, channel), t)
  <1> DEFINE c == ExpireByClock(d, t)
             freed == ReleaseWanted(c, t, wanting, channel)
             after == AfterDeadlineRelease(freed)
  <1>1. GoodRows(c) /\ Keeps(d, c, t)
    BY ExpireByClockGood, ExpireByClockKeeps
  <1>2. GoodRows(freed) /\ Keeps(c, freed, t)
    BY <1>1, ReleaseHoldsGood, ReleaseHoldsKeeps DEF ReleaseWanted
  <1> HIDE DEF c, freed
  <1>3. Keeps(d, freed, t)
    BY <1>1, <1>2, KeepsTwice
  <1>4. Keeps(freed, after, t)
    <2>1. after.ev.waitCap = freed.ev.waitCap /\ after.reg = freed.reg /\ after.mail = freed.mail
      BY <1>2 DEF AfterDeadlineRelease, GoodRows, Database, StoredEvent
    <2> HIDE DEF after
    <2> QED BY <2>1, KeepsRows
  <1>5. ExpireStaleHolds(d, t, wanting, channel) \in {freed, after}
    BY DEF ExpireStaleHolds, c, freed
  <1> QED BY <1>3, <1>4, <1>5, KeepsTwice

LEMMA ExpiredKeeps ==
    ASSUME NEW d, GoodRows(d), NEW t \in Time
    PROVE  Keeps(d, Expired(d, t), t)
  BY ExpireStaleHoldsKeeps DEF Expired

\* Whoever is offered a place waited before: they stand in the line as they did.
LEMMA OfferedKeeps ==
    ASSUME NEW d, GoodRows(d), NEW people \in SUBSET Waiting(d), NEW hold \in Deadline,
           NEW kind \in MailKind, NEW t \in Time,
           NEW e, e = Queued(Offered(d, people, hold), people, kind, t)
    PROVE  Keeps(d, e, t)
  <1>1. /\ people \in SUBSET Person
        /\ \A p \in people : d.reg[p].status = "WAITLISTED" /\ ~d.reg[p].outside
    BY DEF Waiting, WithStatus
  <1>2. /\ e.ev = d.ev /\ d.mail \subseteq e.mail
        /\ \A p \in Person : e.reg[p] =
               IF p \in people THEN Moved(d.reg[p], "WAITLIST_OFFERED", hold) ELSE d.reg[p]
    <2> DEFINE c == Offered(d, people, hold)
    <2>1. /\ c.ev = d.ev /\ c.mail = d.mail
          /\ \A p \in Person : c.reg[p] =
                 IF p \in people THEN Moved(d.reg[p], "WAITLIST_OFFERED", hold) ELSE d.reg[p]
      BY DEF Offered, GoodRows, Database
    <2>2. GoodRows(c)
      BY OfferedGood
    <2> HIDE DEF c
    <2>3. e.ev = c.ev /\ e.reg = c.reg /\ c.mail \subseteq e.mail
      BY <2>2, QueuedOnly DEF c
    <2> QED BY <2>1, <2>3
  <1>3. \A m \in e.mail \ d.mail : m.to \in people
    <2>1. Offered(d, people, hold).mail = d.mail
      BY DEF Offered, GoodRows, Database
    <2>2. Offered(d, people, hold) = [Offered(d, people, hold) EXCEPT !.mail = d.mail]
          /\ "mail" \in DOMAIN Offered(d, people, hold)
      BY DEF Offered, GoodRows, Database
    <2>3. e.mail \subseteq d.mail \cup {[to |-> p, kind |-> kind, at |-> t] : p \in people}
      BY <2>1, <2>2 DEF Queued
    <2> QED BY <2>3
  <1>4. ASSUME NEW p \in Person
        PROVE  /\ StandsInLine(e, p, t) => StandsInLine(d, p, t)
               /\ Outsider(e, p) => Outsider(d, p)
               /\ e.reg[p].outside = d.reg[p].outside
    <2>1. CASE p \in people
      <3>1. e.reg[p].outside = d.reg[p].outside
        <4>1. e.reg[p] = Moved(d.reg[p], "WAITLIST_OFFERED", hold) /\ d.reg[p] \in Registration
          BY <1>2, <2>1, RowsAre
        <4> QED BY <4>1 DEF Moved, Registration
      <3> QED BY <1>1, <2>1, <3>1 DEF StandsInLine, Outsider
    <2>2. CASE p \notin people
      <3>1. e.reg[p] = d.reg[p]
        BY <1>2, <2>2
      <3>2. ASSUME NEW kinds PROVE EmailQueued(e, p, kinds) => EmailQueued(d, p, kinds)
        BY <1>3, <2>2 DEF EmailQueued
      <3>3. OpenOffer(e, p, t) => OpenOffer(d, p, t)
        BY <3>1, <3>2 DEF OpenOffer, OfferAwaitingItsFirstEmail
      <3> QED BY <3>1, <3>3 DEF StandsInLine, Outsider
    <2> QED BY <2>1, <2>2
  <1> QED BY <1>2, <1>4 DEF Keeps

LEMMA FillAvailableSpotsKeeps ==
    ASSUME NEW d, GoodRows(d), NEW t \in Time
    PROVE  Keeps(d, FillAvailableSpots(d, t), t)
  <1> DEFINE e == Expired(d, t)
  <1>1. GoodRows(e) /\ Keeps(d, e, t)
    BY ExpiredGood, ExpiredKeeps
  <1> HIDE DEF e
  <1>2. Keeps(e, OfferTo(e, NextInLine(e, t), t), t)
    <2>1. NextInLine(e, t) \in SUBSET Waiting(e)
      BY NextInLineWaits
    <2>2. WaitlistOfferExpiry(t, CloseAt) \in Deadline
      BY HoldsEndByTheStart, DeadlineRange
    <2> QED BY <1>1, <2>1, <2>2, OfferedKeeps DEF OfferTo, MailKind
  <1>3. Keeps(e, OfferPlaces(e, t), t)
    BY <1>2, KeepsAll DEF OfferPlaces
  <1> QED BY <1>1, <1>3, KeepsTwice, KeepsAll DEF FillAvailableSpots, e

LEMMA ServedKeeps ==
    ASSUME NEW d, GoodRows(d), NEW t \in Time
    PROVE  Keeps(d, Served(d, t), t)
  BY ExpiredGood, ExpiredKeeps, FillAvailableSpotsKeeps, KeepsTwice DEF Served

-----------------------------------------------------------------------------
(***************************************************************************)
(* One person's row.                                                       *)
(***************************************************************************)
LEMMA SameLine ==
    ASSUME NEW d, NEW e, NEW t, e.ev.waitCap = d.ev.waitCap, e.reg = d.reg, e.mail = d.mail
    PROVE  Keeps(d, e, t)
  BY KeepsRows

\* A person who comes to neither wait nor be offered a place is no outsider any more.
LEMMA RowFine ==
    ASSUME NEW d, GoodRows(d), NEW p \in Person, NEW t, FineBut(d, p, t),
           NEW r, r.status \notin LineStatus, NEW e, e = [d EXCEPT !.reg[p] = r], GoodRows(e)
    PROVE  Fine(e, t) /\ e.mail = d.mail
  <1>1. /\ e.ev = d.ev /\ e.mail = d.mail
        /\ e.reg[p] = r /\ \A q \in Person \ {p} : e.reg[q] = d.reg[q]
    BY DEF GoodRows, Database
  <1>2. ~StandsInLine(e, p, t) /\ ~Outsider(e, p)
    BY <1>1 DEF StandsInLine, Outsider, OpenOffer, LineStatus
  <1>3. ASSUME NEW q \in Person \ {p}
        PROVE  /\ StandsInLine(e, q, t) => StandsInLine(d, q, t)
               /\ Outsider(e, q) => Outsider(d, q)
    BY <1>1 DEF StandsInLine, Outsider, OpenOffer, OfferAwaitingItsFirstEmail, EmailQueued
  <1>4. e.ev.waitCap = None \/ (d.ev.waitCap # None /\ d.ev.waitCap <= e.ev.waitCap)
    BY <1>1, LimitRange
  <1>5. \A q \in Person : StandsInLine(e, q, t) => StandsInLine(d, q, t)
    BY <1>2, <1>3
  <1>6. Short(e, t)
    BY <1>4, <1>5, ShortWithFewer DEF FineBut
  <1> QED BY <1>1, <1>2, <1>3, <1>6 DEF Fine, FineBut

LEMMA MovedFine ==
    ASSUME NEW d, GoodRows(d), NEW p \in Person, NEW t, FineBut(d, p, t),
           NEW status, status \notin LineStatus, NEW hold,
           NEW e, e = [d EXCEPT !.reg[p] = Moved(@, status, hold)], GoodRows(e)
    PROVE  Fine(e, t) /\ e.mail = d.mail
  <1>1. Moved(d.reg[p], status, hold).status = status
    BY RowsAre DEF Moved, Registration
  <1>2. e = [d EXCEPT !.reg[p] = Moved(d.reg[p], status, hold)]
    OBVIOUS
  <1> QED BY <1>1, <1>2, RowFine

\* A row whose seat alone changes, and onto the hidden list, takes nobody's place in the line.
LEMMA SeatFineBut ==
    ASSUME NEW d, GoodRows(d), NEW p \in Person, NEW t, FineBut(d, p, t), NEW e, GoodRows(e),
           e.ev.waitCap = d.ev.waitCap, e.mail = d.mail,
           \A q \in Person \ {p} : e.reg[q] = d.reg[q],
           e.reg[p].status = d.reg[p].status, e.reg[p].hold = d.reg[p].hold,
           d.reg[p].outside => e.reg[p].outside
    PROVE  FineBut(e, p, t)
  <1>1. ASSUME NEW q \in Person, StandsInLine(e, q, t) PROVE StandsInLine(d, q, t)
    <2>1. CASE q = p
      BY <1>1, <2>1 DEF StandsInLine, OpenOffer, OfferAwaitingItsFirstEmail, EmailQueued
    <2>2. CASE q # p
      BY <1>1, <2>2 DEF StandsInLine, OpenOffer, OfferAwaitingItsFirstEmail, EmailQueued
    <2> QED BY <2>1, <2>2
  <1>2. e.ev.waitCap = None \/ (d.ev.waitCap # None /\ d.ev.waitCap <= e.ev.waitCap)
    BY LimitRange
  <1>3. Short(e, t)
    BY <1>1, <1>2, ShortWithFewer DEF FineBut
  <1> QED BY <1>3 DEF FineBut, Outsider

LEMMA FineIsFineBut ==
    ASSUME NEW d, NEW t, Fine(d, t)
    PROVE  \A p \in Person : FineBut(d, p, t)
  BY DEF Fine, FineBut

LEMMA FillAvailableSpotsFine ==
    ASSUME NEW d, GoodRows(d), NEW t \in Time, Fine(d, t)
    PROVE  Fine(FillAvailableSpots(d, t), t) /\ d.mail \subseteq FillAvailableSpots(d, t).mail
  <1>1. Keeps(d, FillAvailableSpots(d, t), t) /\ GoodRows(FillAvailableSpots(d, t))
    BY FillAvailableSpotsKeeps, FillAvailableSpotsGood
  <1>2. Fine(FillAvailableSpots(d, t), t)
    BY <1>1, KeepsFine
  <1> QED BY <1>1, <1>2 DEF Keeps

LEMMA ExpiredFine ==
    ASSUME NEW d, GoodRows(d), NEW t \in Time, Fine(d, t)
    PROVE  Fine(Expired(d, t), t) /\ d.mail \subseteq Expired(d, t).mail
  <1>1. Keeps(d, Expired(d, t), t) /\ GoodRows(Expired(d, t))
    BY ExpiredKeeps, ExpiredGood
  <1>2. Fine(Expired(d, t), t)
    BY <1>1, KeepsFine
  <1> QED BY <1>1, <1>2 DEF Keeps

LEMMA ServedFine ==
    ASSUME NEW d, GoodRows(d), NEW t \in Time, Fine(d, t)
    PROVE  Fine(Served(d, t), t) /\ d.mail \subseteq Served(d, t).mail
  <1>1. Keeps(d, Served(d, t), t) /\ GoodRows(Served(d, t))
    BY ServedKeeps, ServedGood
  <1>2. Fine(Served(d, t), t)
    BY <1>1, KeepsFine
  <1> QED BY <1>1, <1>2 DEF Keeps

-----------------------------------------------------------------------------
(***************************************************************************)
(* The allocator.                                                          *)
(***************************************************************************)
LEMMA GivenPlaceFine ==
    ASSUME NEW d, GoodRows(d), NEW p \in Person, NEW t \in Time, NEW how \in Way,
           NEW adopts \in BOOLEAN, FineBut(d, p, t), NEW e, e = GivenPlace(d, p, t, how, adopts)
    PROVE  Fine(e, t) /\ d.mail \subseteq e.mail
  <1> DEFINE placed == WithPlace(d, p, HoldFor(how, t))
             taken == [placed EXCEPT !.inv[p] = None]
  <1>1. GoodRows(placed)
    BY WithPlaceGood, HoldForRange
  <1>2. placed = [d EXCEPT !.reg[p] = Moved(@, "PENDING_DECLARATION", HoldFor(how, t))]
    BY DEF WithPlace
  <1>3. e = IF adopts THEN FillAvailableSpots(taken, t) ELSE placed
    BY DEF GivenPlace
  <1> HIDE DEF placed
  <1>4. Fine(placed, t) /\ placed.mail = d.mail
    <2>1. "PENDING_DECLARATION" \notin LineStatus
      BY DEF LineStatus
    <2> QED BY <1>1, <1>2, <2>1, MovedFine
  <1>5. GoodRows(taken)
    BY <1>1, NewInvitation
  <1>6. taken.ev = placed.ev /\ taken.reg = placed.reg /\ taken.mail = placed.mail
    BY <1>1 DEF GoodRows, Database
  <1> HIDE DEF taken
  <1>7. Fine(taken, t)
    BY <1>1, <1>4, <1>5, <1>6, SameLine, KeepsFine
  <1> QED BY <1>3, <1>4, <1>5, <1>6, <1>7, FillAvailableSpotsFine

\* The line takes one more where it looked and found room, behind the event's lock.
LEMMA InLineFine ==
    ASSUME NEW d, GoodRows(d), NEW p \in Person, NEW t \in Time, LineTakesOneMore(d, t),
           Fine(d, t), ~d.reg[p].outside
    PROVE  Fine(InLine(d, p, t), t) /\ InLine(d, p, t).mail = d.mail
  <1> DEFINE r == [Moved(d.reg[p], "WAITLISTED", None) EXCEPT !.since = t]
             e == [d EXCEPT !.reg[p] = r]
  <1>1. InLine(d, p, t) = e
    BY DEF InLine
  <1>2. ~r.outside
    BY RowsAre DEF Moved, Registration
  <1> HIDE DEF r
  <1>3. e = [d EXCEPT !.reg[p] = r]
    OBVIOUS
  <1> HIDE DEF e
  <1>4. /\ e.ev = d.ev /\ e.mail = d.mail
        /\ e.reg[p] = r /\ \A q \in Person \ {p} : e.reg[q] = d.reg[q]
    BY <1>3, RowReplaced
  <1>5. ASSUME NEW q \in Person \ {p}
        PROVE  /\ StandsInLine(e, q, t) => StandsInLine(d, q, t)
               /\ Outsider(e, q) => Outsider(d, q)
    BY <1>4 DEF StandsInLine, Outsider, OpenOffer, OfferAwaitingItsFirstEmail, EmailQueued
  <1>6. Short(e, t)
    BY <1>4, <1>5, ShortWithOneMore
  <1>7. ~Outsider(e, p)
    BY <1>2, <1>4 DEF Outsider
  <1> QED BY <1>1, <1>4, <1>5, <1>6, <1>7 DEF Fine

LEMMA PlacedOrQueuedFine ==
    ASSUME NEW d, GoodRows(d), NEW p \in Person, NEW t \in Time, NEW how \in Way,
           FineBut(d, p, t), NEW direct, NEW adopts \in BOOLEAN, d.reg[p].outside => direct,
           NEW e \in PlacedOrQueued(d, p, t, how, direct, adopts)
    PROVE  Fine(e, t) /\ d.mail \subseteq e.mail
  <1>1. CASE direct \/ FreeFor(d, t, how.channel)
    <2>1. e = GivenPlace(d, p, t, how, adopts)
      BY <1>1 DEF PlacedOrQueued
    <2> QED BY <2>1, GivenPlaceFine
  <1>2. CASE ~(direct \/ FreeFor(d, t, how.channel)) /\ LineTakesOneMore(d, t)
    <2>1. e = FillAvailableSpots(InLine(d, p, t), t)
      BY <1>2 DEF PlacedOrQueued
    <2>2. Fine(d, t)
      BY <1>2 DEF Fine, FineBut, Outsider
    <2>3. Fine(InLine(d, p, t), t) /\ InLine(d, p, t).mail = d.mail
      BY <1>2, <2>2, InLineFine
    <2> QED BY <2>1, <2>3, InLineGood, FillAvailableSpotsFine
  <1>3. CASE ~(direct \/ FreeFor(d, t, how.channel)) /\ ~LineTakesOneMore(d, t)
    <2> DEFINE after == ExpireStaleHolds(d, t, 1, how.channel)
    <2>1. e = GivenPlace(after, p, t, how, FALSE)
      BY <1>3 DEF PlacedOrQueued, PlaceOfLapsedHold
    <2>2. GoodRows(after) /\ Keeps(d, after, t)
      BY ExpireStaleHoldsGood, ExpireStaleHoldsKeeps
    <2> HIDE DEF after
    <2>3. FineBut(after, p, t) /\ d.mail \subseteq after.mail
      BY <2>2, KeepsFine DEF Keeps
    <2>4. Fine(e, t) /\ after.mail \subseteq e.mail
      BY <2>1, <2>2, <2>3, GivenPlaceFine
    <2> QED BY <2>3, <2>4
  <1> QED BY <1>1, <1>2, <1>3

\* Whoever the allocator takes up ends on a place, or in the line where it has room.
LEMMA AllocatedFine ==
    ASSUME NEW d, GoodRows(d), NEW p \in Person, NEW t \in Time, NEW how \in Way,
           FineBut(d, p, t), NEW e \in Allocated(d, p, t, how)
    PROVE  Fine(e, t) /\ d.mail \subseteq e.mail
  <1> DEFINE adopts == ~how.invited /\ Adopts(d, p, t)
             mine == Claiming(d, p, adopts)
             served == Served(mine, t)
             direct == adopts \/ HasOwnPlace(mine, p, t, how)
  <1>1. e \in PlacedOrQueued(served, p, t, how, direct, adopts)
    BY DEF Allocated
  <1>2. GoodRows(mine)
    BY ClaimingGood DEF Adopts, LiveInvitation
  <1>3. mine.reg[p].outside => direct
    BY DEF HasOwnPlace
  <1>b. adopts \in BOOLEAN
    OBVIOUS
  <1>4. /\ mine.ev = d.ev /\ mine.mail = d.mail
        /\ \A q \in Person \ {p} : mine.reg[q] = d.reg[q]
        /\ mine.reg[p] = [d.reg[p] EXCEPT !.outside = @ \/ (adopts /\ d.inv[p].outside)]
    BY DEF Claiming, GoodRows, Database
  <1> HIDE DEF adopts, mine, direct
  <1>5. FineBut(mine, p, t)
    <2>1. /\ mine.reg[p].status = d.reg[p].status /\ mine.reg[p].hold = d.reg[p].hold
          /\ d.reg[p].outside => mine.reg[p].outside
      BY <1>4, RowsAre DEF Registration
    <2>2. mine.ev.waitCap = d.ev.waitCap
      BY <1>4
    <2>3. mine.mail = d.mail /\ \A q \in Person \ {p} : mine.reg[q] = d.reg[q]
      BY <1>4
    <2> QED BY <1>2, <2>1, <2>2, <2>3, SeatFineBut
  <1>6. GoodRows(served) /\ Keeps(mine, served, t)
    BY <1>2, ServedGood, ServedKeeps
  <1> HIDE DEF served
  <1>7. /\ FineBut(served, p, t) /\ d.mail \subseteq served.mail
        /\ served.reg[p].outside => direct
    BY <1>2, <1>3, <1>4, <1>5, <1>6, KeepsFine DEF Keeps
  <1>8. Fine(e, t) /\ served.mail \subseteq e.mail
    BY <1>1, <1>b, <1>6, <1>7, PlacedOrQueuedFine
  <1> QED BY <1>7, <1>8

\* The email of a row as it was placed is no offer's.
LEMMA AllocationEmailFine ==
    ASSUME NEW d, GoodRows(d), NEW p \in Person, NEW t \in Time, Fine(d, t)
    PROVE  Fine(AllocationEmail(d, p, t), t) /\ d.mail \subseteq AllocationEmail(d, p, t).mail
  <1> DEFINE e == Queued(d, {p}, "declaration", t)
  <1>1. e.ev = d.ev /\ e.reg = d.reg /\ d.mail \subseteq e.mail
    BY QueuedOnly
  <1>2. \A m \in e.mail \ d.mail : m.kind = "declaration"
    BY DEF Queued, GoodRows, Database
  <1>3. GoodRows(e)
    BY QueuedGood DEF MailKind
  <1>4. AllocationEmail(d, p, t) \in {d, e}
    BY DEF AllocationEmail
  <1> HIDE DEF e
  <1>5. Fine(e, t)
    BY <1>1, <1>2, <1>3, KeepsRows, KeepsFine
  <1> QED BY <1>1, <1>4, <1>5

LEMMA AllocatedWithEmailFine ==
    ASSUME NEW d, GoodRows(d), NEW p \in Person, NEW t \in Time, NEW how \in Way,
           FineBut(d, p, t), NEW e \in AllocatedWithEmail(d, p, t, how)
    PROVE  Fine(e, t) /\ d.mail \subseteq e.mail
  <1>1. PICK c \in Allocated(d, p, t, how) : e = AllocationEmail(c, p, t)
    BY DEF AllocatedWithEmail
  <1>2. GoodRows(c) /\ Fine(c, t) /\ d.mail \subseteq c.mail
    BY AllocatedGood, AllocatedFine
  <1> QED BY <1>1, <1>2, AllocationEmailFine

-----------------------------------------------------------------------------
(***************************************************************************)
(* What a step must keep.                                                  *)
(***************************************************************************)
\* An offer's email on its way is still queued, and moves its deadline to the close at most.
SendFits ==
    sending # None =>
        /\ sending.sent => sending.mail.kind = "declaration"
        /\ ~sending.sent => sending.mail \in db.mail
        /\ sending.to # None => sending.to <= CloseOfKind(sending.mail.kind)

LineInv == Fine(db, now) /\ SendFits

Kept(d) == Fine(d, now) /\ (sending # None /\ ~sending.sent => sending.mail \in d.mail)

LEMMA CommittedKept ==
    ASSUME LineInv, NEW dbs, \A d \in dbs : Kept(d), Commit(dbs)
    PROVE  LineInv'
  <1>1. now' = now /\ sending' = sending /\ Kept(db')
    BY DEF Commit
  <1>2. Fine(db', now')
    BY <1>1 DEF Kept
  <1>3. SendFits'
    BY <1>1 DEF Kept, SendFits, LineInv
  <1> QED BY <1>2, <1>3 DEF LineInv, Fine, Short, Line, StandsInLine, Outsider

\* Whatever unqueues nothing leaves the email on its way where it was.
LEMMA MailKept ==
    ASSUME LineInv, NEW d, Fine(d, now), db.mail \subseteq d.mail
    PROVE  Kept(d)
  BY DEF LineInv, SendFits, Kept

-----------------------------------------------------------------------------
(***************************************************************************)
(* Entries.                                                                *)
(***************************************************************************)
LEMMA EnteringFine ==
    ASSUME NEW d, GoodRows(d), NEW p \in Person, NEW t \in Time, MayEnter(d, p), Fine(d, t)
    PROVE  /\ Fine([d EXCEPT !.reg[p].outside = FALSE], t)
           /\ [d EXCEPT !.reg[p].outside = FALSE].mail = d.mail
           /\ \A staff \in BOOLEAN : /\ Fine(WithForm(d, p, t, staff), t)
                                     /\ WithForm(d, p, t, staff).mail = d.mail
  <1>1. FineBut(d, p, t)
    BY FineIsFineBut
  <1>2. /\ Fine([d EXCEPT !.reg[p].outside = FALSE], t)
        /\ [d EXCEPT !.reg[p].outside = FALSE].mail = d.mail
    <2> DEFINE r == [d.reg[p] EXCEPT !.outside = FALSE]
               e == [d EXCEPT !.reg[p].outside = FALSE]
    <2>1. r.status \notin LineStatus
      BY RowsAre DEF Registration, MayEnter, Terminal, LineStatus
    <2>2. e = [d EXCEPT !.reg[p] = r] /\ GoodRows(e)
      BY NewOutside
    <2> HIDE DEF r, e
    <2>3. Fine(e, t) /\ e.mail = d.mail
      BY <1>1, <2>1, <2>2, RowFine
    <2> QED BY <2>3 DEF e
  <1>3. ASSUME NEW staff \in BOOLEAN
        PROVE  Fine(WithForm(d, p, t, staff), t) /\ WithForm(d, p, t, staff).mail = d.mail
    <2> DEFINE r == [Absent EXCEPT !.status = "PENDING_EMAIL_CONFIRMATION",
                                   !.link = t + LinkTime, !.staff = staff]
               e == WithForm(d, p, t, staff)
    <2>1. r.status \notin LineStatus
      BY DEF Absent, LineStatus
    <2>2. e = [d EXCEPT !.reg[p] = r] /\ GoodRows(e)
      BY WithFormGood DEF WithForm
    <2> HIDE DEF r, e
    <2>3. Fine(e, t) /\ e.mail = d.mail
      BY <1>1, <2>1, <2>2, RowFine
    <2> QED BY <2>3 DEF e
  <1> QED BY <1>2, <1>3

LEMMA EnteredFine ==
    ASSUME NEW d, GoodRows(d), NEW p \in Person, NEW t \in Time, NEW how \in Way,
           MayEnter(d, p), Fine(d, t), NEW e \in Entered(d, p, t, how)
    PROVE  Fine(e, t) /\ d.mail \subseteq e.mail
  <1> DEFINE c == [d EXCEPT !.reg[p].outside = FALSE]
  <1>1. GoodRows(c) /\ Fine(c, t) /\ c.mail = d.mail
    BY NewOutside, EnteringFine
  <1>2. \/ e \in AllocatedWithEmail(c, p, t, how)
        \/ e = WithForm(d, p, t, how.channel = "staff")
    BY DEF Entered
  <1> HIDE DEF c
  <1>3. \A f \in AllocatedWithEmail(c, p, t, how) : Fine(f, t) /\ c.mail \subseteq f.mail
    BY <1>1, FineIsFineBut, AllocatedWithEmailFine
  <1>4. Fine(WithForm(d, p, t, how.channel = "staff"), t)
        /\ WithForm(d, p, t, how.channel = "staff").mail = d.mail
    BY EnteringFine
  <1> QED BY <1>1, <1>2, <1>3, <1>4

LEMMA ReservedFine ==
    ASSUME NEW d, GoodRows(d), NEW p \in Person, NEW t \in Time, NEW until \in Deadline,
           d.reg[p].status = "PENDING_EMAIL_CONFIRMATION", Fine(d, t),
           NEW e, e = Reserved(d, p, t, until)
    PROVE  Fine(e, t) /\ d.mail \subseteq e.mail
  <1> DEFINE served == Served(d, t)
             r == [served.reg[p] EXCEPT !.hold = until]
             held == [served EXCEPT !.reg[p] = r]
  <1>1. /\ GoodRows(served) /\ Fine(served, t) /\ d.mail \subseteq served.mail
        /\ served.reg[p].status = "PENDING_EMAIL_CONFIRMATION"
    BY ServedGood, ServedFine, UnconfirmedStays
  <1>2. GoodRows([served EXCEPT !.reg[p].hold = until])
    BY <1>1, NewHold DEF Active
  <1>3. held = [served EXCEPT !.reg[p].hold = until]
    OBVIOUS
  <1>4. e \in {d, served, held}
    BY <1>3 DEF Reserved
  <1>5. r.status \notin LineStatus
    BY <1>1, RowsAre DEF Registration, LineStatus
  <1> HIDE DEF served, r
  <1>6. held = [served EXCEPT !.reg[p] = r]
    OBVIOUS
  <1> HIDE DEF held
  <1>7. Fine(held, t) /\ held.mail = served.mail
    BY <1>1, <1>2, <1>3, <1>5, <1>6, FineIsFineBut, RowFine
  <1> QED BY <1>1, <1>4, <1>7

\* Rows and emails as they were, under the same limit.
LEMMA SameLineFine ==
    ASSUME NEW d, GoodRows(d), NEW e, GoodRows(e), NEW t, Fine(d, t),
           e.ev.waitCap = d.ev.waitCap, e.reg = d.reg, e.mail = d.mail
    PROVE  Fine(e, t)
  BY SameLine, KeepsFine

LEMMA FamilyPlaceHeldFine ==
    ASSUME NEW d, GoodRows(d), NEW p \in Person, NEW t \in Time, NEW until \in Deadline,
           Fine(d, t), NEW e, e = FamilyPlaceHeld(d, p, t, until)
    PROVE  Fine(e, t) /\ d.mail \subseteq e.mail
  <1> DEFINE cleared == [d EXCEPT !.fam[p] = IF Past(@, t) THEN None ELSE @]
             served == Served(cleared, t)
             held == [served EXCEPT !.fam[p] = until]
  <1>1. GoodRows(cleared)
    BY NewFamilyPlace DEF GoodRows, Database
  <1>2. cleared.ev = d.ev /\ cleared.reg = d.reg /\ cleared.mail = d.mail
    BY DEF GoodRows, Database
  <1>3. e \in {d, served, held}
    BY DEF FamilyPlaceHeld
  <1> HIDE DEF cleared
  <1>4. Fine(cleared, t)
    BY <1>1, <1>2, SameLineFine
  <1>5. GoodRows(served) /\ Fine(served, t) /\ d.mail \subseteq served.mail
    BY <1>1, <1>2, <1>4, ServedGood, ServedFine
  <1> HIDE DEF served
  <1>6. GoodRows(held)
    BY <1>5, NewFamilyPlace
  <1>7. held.ev = served.ev /\ held.reg = served.reg /\ held.mail = served.mail
    BY <1>5 DEF GoodRows, Database
  <1> HIDE DEF held
  <1>8. Fine(held, t)
    BY <1>5, <1>6, <1>7, SameLineFine
  <1> QED BY <1>3, <1>5, <1>7, <1>8

LEMMA EntryKeepsLine ==
    ASSUME TypeOK, LineInv, NEW p \in Person,
           \/ PassWaitlistCheck(p, "public")
           \/ PassWaitlistCheck(p, "staff")
           \/ Submit(p)
           \/ SubmitByStaff(p)
           \/ SubmitVouched(p)
           \/ ConfirmFamilyEntry(p)
           \/ \E until \in SittingDeadlines(now) : SubmitInSitting(p, until)
           \/ \E until \in SittingDeadlines(now) : HoldFamilyPlace(p, until)
    PROVE  LineInv'
  <1>1. GoodRows(db) /\ now \in Time /\ Fine(db, now)
    BY DEF TypeOK, LineInv
  <1>2. ASSUME NEW until \in SittingDeadlines(now) PROVE until \in Deadline
    <2>1. PICK opened \in 0..now : until = FamilyReservationExpiry(opened)
      BY DEF SittingDeadlines
    <2>2. opened \in Nat
      BY <1>1, DeadlineRange
    <2> QED BY <2>1, <2>2, HoldsEndByTheStart, DeadlineRange
  <1>3. CASE PassWaitlistCheck(p, "public") \/ PassWaitlistCheck(p, "staff")
    <2>1. db' = db /\ now' = now /\ sending' = sending
      BY <1>3 DEF PassWaitlistCheck
    <2> QED BY <2>1 DEF LineInv, Fine, Short, Line, StandsInLine, Outsider, SendFits
  <1>4. CASE Submit(p)
    <2>1. \A e \in Entered(db, p, now, Entry("public")) : Kept(e)
      BY <1>1, <1>4, PublicAndStaffWays, EnteredFine, MailKept DEF Submit
    <2> QED BY <1>4, <2>1, CommittedKept DEF Submit
  <1>5. CASE SubmitByStaff(p)
    <2>1. \A e \in Entered(db, p, now, Entry("staff")) : Kept(e)
      BY <1>1, <1>5, PublicAndStaffWays, EnteredFine, MailKept DEF SubmitByStaff
    <2> QED BY <1>5, <2>1, CommittedKept DEF SubmitByStaff
  <1>6. CASE SubmitVouched(p)
    <2> DEFINE row == IF p \in db.verified THEN [db EXCEPT !.reg[p].outside = FALSE]
                      ELSE WithForm(db, p, now, TRUE)
    <2>1. GoodRows(row) /\ Fine(row, now) /\ row.mail = db.mail
      BY <1>1, <1>6, NewOutside, WithFormGood, EnteringFine DEF SubmitVouched
    <2>2. Commit(AllocatedWithEmail(row, p, now, VouchedEntry))
      BY <1>6 DEF SubmitVouched
    <2> HIDE DEF row
    <2>3. FineBut(row, p, now)
      BY <2>1, FineIsFineBut
    <2>4. \A e \in AllocatedWithEmail(row, p, now, VouchedEntry) : Kept(e)
      BY <1>1, <2>1, <2>3, PublicAndStaffWays, AllocatedWithEmailFine, MailKept
    <2> QED BY <2>2, <2>4, CommittedKept
  <1>7. CASE ConfirmFamilyEntry(p)
    <2> DEFINE row == IF p \in db.verified THEN [db EXCEPT !.reg[p].outside = FALSE]
                      ELSE WithForm(db, p, now, FALSE)
               proved == [row EXCEPT !.fam[p] = None, !.verified = @ \cup {p}]
    <2>1. GoodRows(row) /\ Fine(row, now) /\ row.mail = db.mail
      BY <1>1, <1>7, NewOutside, WithFormGood, EnteringFine DEF ConfirmFamilyEntry
    <2>2. Commit(AllocatedWithEmail(proved, p, now, Entry("public")))
      BY <1>7 DEF ConfirmFamilyEntry
    <2> HIDE DEF row
    <2>3. GoodRows(proved)
      <3> DEFINE freed == [row EXCEPT !.fam[p] = None]
      <3>1. GoodRows(freed)
        BY <2>1, NewFamilyPlace
      <3>2. freed.verified \cup {p} \in SUBSET Person /\ freed.verified = row.verified
        BY <2>1 DEF GoodRows, Database
      <3>3. proved = [freed EXCEPT !.verified = freed.verified \cup {p}]
        BY <2>1 DEF GoodRows, Database
      <3> HIDE DEF freed, proved
      <3> QED BY <3>1, <3>2, <3>3, NewVerified
    <2>4. proved.ev = row.ev /\ proved.reg = row.reg /\ proved.mail = row.mail
      BY <2>1 DEF GoodRows, Database
    <2> HIDE DEF proved
    <2>5. FineBut(proved, p, now)
      BY <2>1, <2>3, <2>4, SameLineFine, FineIsFineBut
    <2>6. \A e \in AllocatedWithEmail(proved, p, now, Entry("public")) : Kept(e)
      BY <1>1, <2>1, <2>3, <2>4, <2>5, PublicAndStaffWays, AllocatedWithEmailFine, MailKept
    <2> QED BY <2>2, <2>6, CommittedKept
  <1>8. CASE \E until \in SittingDeadlines(now) : SubmitInSitting(p, until)
    <2>1. PICK until \in SittingDeadlines(now) : SubmitInSitting(p, until)
      BY <1>8
    <2> DEFINE row == WithForm(db, p, now, FALSE)
               e == Reserved(row, p, now, until)
    <2>2. GoodRows(row) /\ Fine(row, now) /\ row.mail = db.mail
      BY <1>1, <2>1, WithFormGood, EnteringFine DEF SubmitInSitting
    <2>3. row.reg[p].status = "PENDING_EMAIL_CONFIRMATION"
      BY <1>1 DEF WithForm, Absent, GoodRows, Database
    <2>4. Commit({e})
      BY <2>1 DEF SubmitInSitting
    <2> HIDE DEF row
    <2>5. Fine(e, now) /\ row.mail \subseteq e.mail
      BY <1>1, <1>2, <2>2, <2>3, ReservedFine
    <2> HIDE DEF e
    <2> QED BY <2>2, <2>4, <2>5, MailKept, CommittedKept
  <1>9. CASE \E until \in SittingDeadlines(now) : HoldFamilyPlace(p, until)
    <2>1. PICK until \in SittingDeadlines(now) : HoldFamilyPlace(p, until)
      BY <1>9
    <2> DEFINE e == FamilyPlaceHeld(db, p, now, until)
    <2>2. Commit({e})
      BY <2>1 DEF HoldFamilyPlace
    <2>3. Fine(e, now) /\ db.mail \subseteq e.mail
      BY <1>1, <1>2, FamilyPlaceHeldFine
    <2> HIDE DEF e
    <2> QED BY <2>2, <2>3, MailKept, CommittedKept
  <1> QED BY <1>3, <1>4, <1>5, <1>6, <1>7, <1>8, <1>9

-----------------------------------------------------------------------------
(***************************************************************************)
(* Confirming and signing.                                                 *)
(***************************************************************************)
LEMMA ConfirmedFine ==
    ASSUME NEW d, GoodRows(d), NEW p \in Person, NEW t, Fine(d, t)
    PROVE  Fine(Confirmed(d, p), t) /\ Confirmed(d, p).mail = d.mail
  <1> DEFINE e == Confirmed(d, p)
  <1>1. e = [d EXCEPT !.reg[p] = Moved(@, "CONFIRMED", None)] /\ GoodRows(e)
    BY ConfirmedGood DEF Confirmed
  <1>2. "CONFIRMED" \notin LineStatus
    BY DEF LineStatus
  <1> HIDE DEF e
  <1>3. Fine(e, t) /\ e.mail = d.mail
    BY <1>1, <1>2, FineIsFineBut, MovedFine
  <1> QED BY <1>3 DEF e

LEMMA LeavingFine ==
    ASSUME NEW d, GoodRows(d), NEW p \in Person, NEW t, Fine(d, t),
           NEW status \in {"CANCELLED", "EXPIRED"},
           NEW e, e = [d EXCEPT !.reg[p] = Moved(@, status, None)]
    PROVE  GoodRows(e) /\ Fine(e, t) /\ e.mail = d.mail
  <1>1. GoodRows(e)
    BY MovedGood DEF Settled
  <1>2. status \notin LineStatus
    BY DEF LineStatus
  <1> QED BY <1>1, <1>2, FineIsFineBut, MovedFine

LEMMA ConfirmationKeepsLine ==
    ASSUME TypeOK, LineInv, NEW p \in Person,
           ConfirmEmail(p) \/ SignDeclaration(p) \/ ConfirmByStaff(p) \/ Unregister(p)
    PROVE  LineInv'
  <1>1. GoodRows(db) /\ now \in Time /\ Fine(db, now)
    BY DEF TypeOK, LineInv
  <1>2. CASE ConfirmEmail(p)
    <2> DEFINE proved == [db EXCEPT !.verified = @ \cup {p}]
               how == Entry(IF db.reg[p].staff THEN "staff" ELSE "public")
               left == [db EXCEPT !.reg[p] = Moved(@, "EXPIRED", None)]
    <2>1. GoodRows(proved)
      <3>1. db.verified \cup {p} \in SUBSET Person
        BY <1>1 DEF GoodRows, Database
      <3> QED BY <1>1, <3>1, NewVerified
    <2>2. proved.ev = db.ev /\ proved.reg = db.reg /\ proved.mail = db.mail
      BY <1>1 DEF GoodRows, Database
    <2>3. how \in Way
      BY PublicAndStaffWays
    <2>4. Commit({left}) \/ Commit(AllocatedWithEmail(proved, p, now, how))
      BY <1>2 DEF ConfirmEmail
    <2>5. left = [db EXCEPT !.reg[p] = Moved(@, "EXPIRED", None)]
      OBVIOUS
    <2> HIDE DEF proved, how, left
    <2>6. FineBut(proved, p, now)
      BY <1>1, <2>1, <2>2, SameLineFine, FineIsFineBut
    <2>7. \A e \in AllocatedWithEmail(proved, p, now, how) : Kept(e)
      BY <1>1, <2>1, <2>2, <2>3, <2>6, AllocatedWithEmailFine, MailKept
    <2>8. Kept(left)
      BY <1>1, <2>5, LeavingFine, MailKept
    <2> QED BY <2>4, <2>7, <2>8, CommittedKept
  <1>3. CASE SignDeclaration(p)
    <2> DEFINE first == IF ReleaseDue(db, now) THEN Expired(db, now) ELSE db
               swept == Expired(first, now)
               placed == IF swept.reg[p].status = "EXPIRED"
                         THEN Allocated(swept, p, now, Entry("staff")) ELSE {swept}
               signed(d) == IF d.reg[p].status = "WAITLISTED" THEN d
                            ELSE FillAvailableSpots(Confirmed(d, p), now)
    <2>1. GoodRows(first) /\ Fine(first, now) /\ db.mail \subseteq first.mail
      BY <1>1, ExpiredGood, ExpiredFine
    <2>2. Commit({first})
          \/ Commit({signed(d) : d \in {c \in placed : c.reg[p].status # "EXPIRED"}})
      BY <1>3 DEF SignDeclaration
    <2> HIDE DEF first
    <2>3. GoodRows(swept) /\ Fine(swept, now) /\ first.mail \subseteq swept.mail
      BY <1>1, <2>1, ExpiredGood, ExpiredFine
    <2> HIDE DEF swept
    <2>4. ASSUME NEW d \in placed
          PROVE  GoodRows(d) /\ Fine(d, now) /\ swept.mail \subseteq d.mail
      <3>1. CASE swept.reg[p].status = "EXPIRED"
        <4>1. d \in Allocated(swept, p, now, Entry("staff"))
          BY <3>1
        <4>2. FineBut(swept, p, now)
          BY <2>3, FineIsFineBut
        <4> QED BY <1>1, <2>3, <4>1, <4>2, PublicAndStaffWays, AllocatedGood, AllocatedFine
      <3>2. CASE swept.reg[p].status # "EXPIRED"
        BY <2>3, <3>2
      <3> QED BY <3>1, <3>2
    <2> HIDE DEF placed
    <2>5. ASSUME NEW d \in placed PROVE Kept(signed(d))
      <3>1. GoodRows(Confirmed(d, p)) /\ Fine(Confirmed(d, p), now) /\ Confirmed(d, p).mail = d.mail
        BY <2>4, ConfirmedGood, ConfirmedFine
      <3>2. Fine(signed(d), now) /\ d.mail \subseteq signed(d).mail
        BY <1>1, <2>4, <3>1, FillAvailableSpotsFine
      <3> HIDE DEF signed
      <3> QED BY <2>1, <2>3, <2>4, <3>2, MailKept
    <2> HIDE DEF signed
    <2>6. \A e \in {signed(d) : d \in {c \in placed : c.reg[p].status # "EXPIRED"}} : Kept(e)
      BY <2>5
    <2>7. Kept(first)
      BY <2>1, MailKept
    <2> QED BY <2>2, <2>6, <2>7, CommittedKept
  <1>4. CASE ConfirmByStaff(p)
    <2> DEFINE r == db.reg[p]
               placed == IF r.status = "PENDING_EMAIL_CONFIRMATION" \/ LateSigner(r)
                         THEN Allocated(db, p, now, Entry("staff")) ELSE {db}
               desked(d) == IF d.reg[p].status = "WAITLISTED" THEN d ELSE Confirmed(d, p)
               accepted == {desked(d) : d \in {e \in placed : e.reg[p].status # "EXPIRED"}}
    <2>1. ASSUME NEW d \in placed
          PROVE  GoodRows(d) /\ Fine(d, now) /\ db.mail \subseteq d.mail
      <3>1. CASE r.status = "PENDING_EMAIL_CONFIRMATION" \/ LateSigner(r)
        <4>1. d \in Allocated(db, p, now, Entry("staff"))
          BY <3>1
        <4>2. FineBut(db, p, now)
          BY <1>1, FineIsFineBut
        <4> QED BY <1>1, <4>1, <4>2, PublicAndStaffWays, AllocatedGood, AllocatedFine
      <3>2. CASE ~(r.status = "PENDING_EMAIL_CONFIRMATION" \/ LateSigner(r))
        BY <1>1, <3>2
      <3> QED BY <3>1, <3>2
    <2>2. Commit(accepted)
      BY <1>4 DEF ConfirmByStaff
    <2> HIDE DEF placed
    <2>3. ASSUME NEW d \in placed PROVE Kept(desked(d))
      <3>1. Fine(Confirmed(d, p), now) /\ Confirmed(d, p).mail = d.mail
        BY <2>1, ConfirmedFine
      <3>2. Fine(desked(d), now) /\ db.mail \subseteq desked(d).mail
        BY <2>1, <3>1
      <3> HIDE DEF desked
      <3> QED BY <3>2, MailKept
    <2> HIDE DEF desked
    <2>4. \A e \in accepted : Kept(e)
      BY <2>3
    <2> HIDE DEF accepted
    <2> QED BY <2>2, <2>4, CommittedKept
  <1>5. CASE Unregister(p)
    <2> DEFINE left == [db EXCEPT !.reg[p] = Moved(@, "CANCELLED", None)]
    <2>1. left = [db EXCEPT !.reg[p] = Moved(@, "CANCELLED", None)]
      OBVIOUS
    <2>2. Commit({FillAvailableSpots(left, now)})
      BY <1>5 DEF Unregister
    <2> HIDE DEF left
    <2>3. GoodRows(left) /\ Fine(left, now) /\ left.mail = db.mail
      BY <1>1, <2>1, LeavingFine
    <2>4. Kept(FillAvailableSpots(left, now))
      BY <1>1, <2>3, FillAvailableSpotsFine, MailKept
    <2> QED BY <2>2, <2>4, CommittedKept
  <1> QED BY <1>2, <1>3, <1>4, <1>5

-----------------------------------------------------------------------------
(***************************************************************************)
(* The staff's own moves.                                                  *)
(***************************************************************************)
LEMMA SupplementaryPlaceKeeps ==
    ASSUME NEW d, GoodRows(d), NEW t \in Time, NEW u, NEW e \in SupplementaryPlace(d, t)
    PROVE  GoodRows(e) /\ Keeps(d, e, u) /\ e.reg = d.reg
  <1>1. GoodRows(e)
    BY SupplementaryPlaceGood
  <1>2. e.ev.waitCap = d.ev.waitCap /\ e.reg = d.reg /\ e.mail = d.mail
    BY DEF SupplementaryPlace, GoodRows, Database, StoredEvent
  <1> QED BY <1>1, <1>2, SameLine

\* A place queued with its declaration, on a seat of any kind, and the line served after it.
LEMMA GivenNowFine ==
    ASSUME NEW d, GoodRows(d), NEW p \in Person, NEW t \in Time, FineBut(d, p, t),
           NEW hold \in Deadline, NEW i \in {None, d.inv[p]},
           NEW e, e = FillAvailableSpots(Queued(WithPlace([d EXCEPT !.inv[p] = i], p, hold),
                                                {p}, "declaration", t), t)
    PROVE  Fine(e, t) /\ d.mail \subseteq e.mail
  <1> DEFINE free == [d EXCEPT !.inv[p] = i]
             placed == WithPlace(free, p, hold)
             told == Queued(placed, {p}, "declaration", t)
  <1>1. GoodRows(free)
    BY NewInvitation DEF GoodRows, Database
  <1>2. free.ev = d.ev /\ free.reg = d.reg /\ free.mail = d.mail
    BY DEF GoodRows, Database
  <1>3. e = FillAvailableSpots(told, t)
    OBVIOUS
  <1> HIDE DEF free
  <1>4. FineBut(free, p, t)
    BY <1>1, <1>2, SameLine, KeepsFine
  <1>5. GoodRows(placed) /\ placed = [free EXCEPT !.reg[p] = Moved(@, "PENDING_DECLARATION", hold)]
    BY <1>1, WithPlaceGood DEF WithPlace
  <1> HIDE DEF placed
  <1>6. Fine(placed, t) /\ placed.mail = free.mail
    <2>1. "PENDING_DECLARATION" \notin LineStatus
      BY DEF LineStatus
    <2> QED BY <1>1, <1>4, <1>5, <2>1, MovedFine
  <1>7. GoodRows(told) /\ Keeps(placed, told, t)
    <2>1. told.ev = placed.ev /\ told.reg = placed.reg /\ placed.mail \subseteq told.mail
      BY <1>5 DEF Queued, GoodRows, Database
    <2>2. \A m \in told.mail \ placed.mail : m.kind = "declaration"
      BY <1>5 DEF Queued, GoodRows, Database
    <2>3. GoodRows(told)
      BY <1>5, QueuedGood DEF MailKind
    <2> HIDE DEF told
    <2> QED BY <2>1, <2>2, <2>3, KeepsRows
  <1> HIDE DEF told
  <1>8. Fine(told, t) /\ placed.mail \subseteq told.mail
    BY <1>5, <1>6, <1>7, KeepsFine DEF Keeps
  <1>9. Fine(e, t) /\ told.mail \subseteq e.mail
    BY <1>3, <1>7, <1>8, FillAvailableSpotsFine
  <1> QED BY <1>2, <1>6, <1>8, <1>9

LEMMA StaffPlaceKeepsLine ==
    ASSUME TypeOK, LineInv, NEW p \in Person,
           Promote(p) \/ OfferPlaceTo(p) \/ GivePlaceNow(p)
    PROVE  LineInv'
  <1>1. GoodRows(db) /\ now \in Time /\ Fine(db, now)
    BY DEF TypeOK, LineInv
  <1>2. CASE Promote(p)
    <2> DEFINE e == Expired(db, now)
               done == FillAvailableSpots(Confirmed(e, p), now)
    <2>1. Commit({done})
      BY <1>2 DEF Promote
    <2>2. GoodRows(e) /\ Fine(e, now) /\ db.mail \subseteq e.mail
      BY <1>1, ExpiredGood, ExpiredFine
    <2> HIDE DEF e
    <2>3. GoodRows(Confirmed(e, p)) /\ Fine(Confirmed(e, p), now) /\ Confirmed(e, p).mail = e.mail
      BY <2>2, ConfirmedGood, ConfirmedFine
    <2>4. Fine(done, now) /\ db.mail \subseteq done.mail
      BY <1>1, <2>2, <2>3, FillAvailableSpotsFine
    <2> HIDE DEF done
    <2> QED BY <2>1, <2>4, MailKept, CommittedKept
  <1>3. CASE OfferPlaceTo(p)
    <2> DEFINE e == Expired(db, now)
               until == WaitlistOfferExpiry(now, StartAt)
               offer(d) == Queued(Offered(d, {p}, until), {p}, "offerUntilStart", now)
               done(d) == FillAvailableSpots(offer(d), now)
    <2>1. e.reg[p].status = "WAITLISTED" /\ Commit({done(d) : d \in SupplementaryPlace(e, now)})
      BY <1>3 DEF OfferPlaceTo
    <2>2. until \in Deadline /\ "offerUntilStart" \in MailKind
      BY <1>1, HoldsEndByTheStart, DeadlineRange DEF MailKind
    <2>3. GoodRows(e) /\ Fine(e, now) /\ db.mail \subseteq e.mail
      BY <1>1, ExpiredGood, ExpiredFine
    <2> HIDE DEF e, until
    <2>4. ~e.reg[p].outside
      BY <2>1, <2>3 DEF Fine, Outsider, LineStatus
    <2>5. ASSUME NEW d \in SupplementaryPlace(e, now) PROVE Kept(done(d))
      <3>1. GoodRows(d) /\ Keeps(e, d, now) /\ d.reg = e.reg
        BY <1>1, <2>3, SupplementaryPlaceKeeps
      <3>2. Fine(d, now) /\ e.mail \subseteq d.mail
        BY <2>3, <3>1, KeepsFine DEF Keeps
      <3>3. {p} \in SUBSET Waiting(d)
        BY <2>1, <2>4, <3>1 DEF Waiting, WithStatus
      <3>4. GoodRows(offer(d))
        BY <1>1, <2>2, <3>1, OfferedGood, QueuedGood
      <3>5. Keeps(d, offer(d), now)
        <4> DEFINE people == {p}
                   o == offer(d)
        <4>1. people \in SUBSET Waiting(d)
              /\ o = Queued(Offered(d, people, until), people, "offerUntilStart", now)
          BY <3>3
        <4> HIDE DEF people, o
        <4>2. Keeps(d, o, now)
          BY <1>1, <2>2, <3>1, <4>1, OfferedKeeps
        <4> QED BY <4>2 DEF o
      <3> HIDE DEF offer
      <3>6. Fine(offer(d), now) /\ d.mail \subseteq offer(d).mail
        BY <3>1, <3>2, <3>4, <3>5, KeepsFine DEF Keeps
      <3>7. Fine(done(d), now) /\ db.mail \subseteq done(d).mail
        BY <1>1, <2>3, <3>2, <3>4, <3>6, FillAvailableSpotsFine
      <3> HIDE DEF done
      <3> QED BY <3>7, MailKept
    <2> HIDE DEF done
    <2> QED BY <2>1, <2>5, CommittedKept
  <1>4. CASE GivePlaceNow(p)
    <2> DEFINE cleared == [db EXCEPT !.fam[p] = None]
               swept == Expired(cleared, now)
               adopts == LiveInvitation(swept, p, now)
               seat == swept.reg[p].outside \/ (adopts /\ swept.inv[p].outside)
               mine == [swept EXCEPT !.reg[p].outside = seat]
               wanted == IF HasRoom(mine.ev, Occupied(mine, now)) \/ LapsedHolds(mine, now) = {}
                         THEN mine ELSE ExpireStaleHolds(mine, now, 1, "staff")
               placed(d) == Queued(WithPlace([d EXCEPT !.inv[p] = IF adopts THEN None ELSE @],
                                             p, VouchedPlaceExpiry(now)), {p}, "declaration", now)
               done(d) == FillAvailableSpots(placed(d), now)
    <2>1. \/ Commit({done(d) : d \in {mine}})
          \/ Commit({done(d) : d \in SupplementaryPlace(wanted, now)})
      BY <1>4 DEF GivePlaceNow
    <2>2. GoodRows(cleared) /\ cleared.ev = db.ev /\ cleared.reg = db.reg /\ cleared.mail = db.mail
      BY <1>1, NewFamilyPlace DEF GoodRows, Database
    <2> HIDE DEF cleared
    <2>3. Fine(cleared, now)
      BY <1>1, <2>2, SameLineFine
    <2>4. GoodRows(swept) /\ Fine(swept, now) /\ db.mail \subseteq swept.mail
      BY <1>1, <2>2, <2>3, ExpiredGood, ExpiredFine
    <2>5. seat \in BOOLEAN
      OBVIOUS
    <2> HIDE DEF swept, adopts
    <2>6. swept.reg[p].outside => seat
      OBVIOUS
    <2> HIDE DEF seat
    <2>7. GoodRows(mine)
      BY <2>4, <2>5, NewOutside
    <2>8. /\ mine.ev = swept.ev /\ mine.mail = swept.mail
          /\ \A q \in Person \ {p} : mine.reg[q] = swept.reg[q]
          /\ mine.reg[p] = [swept.reg[p] EXCEPT !.outside = seat]
      BY <2>4 DEF GoodRows, Database
    <2> HIDE DEF mine
    <2>9. FineBut(mine, p, now) /\ db.mail \subseteq mine.mail
      <3>1. /\ mine.reg[p].status = swept.reg[p].status /\ mine.reg[p].hold = swept.reg[p].hold
            /\ swept.reg[p].outside => mine.reg[p].outside
        BY <2>4, <2>6, <2>8, RowsAre DEF Registration
      <3>2. FineBut(swept, p, now)
        BY <2>4, FineIsFineBut
      <3> QED BY <2>4, <2>7, <2>8, <3>1, <3>2, SeatFineBut
    <2>10. GoodRows(wanted) /\ FineBut(wanted, p, now) /\ db.mail \subseteq wanted.mail
      <3> DEFINE after == ExpireStaleHolds(mine, now, 1, "staff")
      <3>1. GoodRows(after) /\ Keeps(mine, after, now)
        BY <1>1, <2>7, ExpireStaleHoldsGood, ExpireStaleHoldsKeeps
      <3>2. wanted \in {mine, after}
        OBVIOUS
      <3> HIDE DEF after, wanted
      <3>3. FineBut(after, p, now) /\ mine.mail \subseteq after.mail
        BY <2>7, <2>9, <3>1, KeepsFine DEF Keeps
      <3> QED BY <2>7, <2>9, <3>1, <3>2, <3>3
    <2> HIDE DEF wanted
    <2>11. ASSUME NEW d, GoodRows(d), FineBut(d, p, now), db.mail \subseteq d.mail
           PROVE  Kept(done(d))
      <3>1. VouchedPlaceExpiry(now) \in Deadline
        BY <1>1, HoldsEndByTheStart, DeadlineRange
      <3>2. PICK i \in {None, d.inv[p]} :
                done(d) = FillAvailableSpots(
                    Queued(WithPlace([d EXCEPT !.inv[p] = i], p, VouchedPlaceExpiry(now)),
                           {p}, "declaration", now), now)
        <4>1. CASE adopts
          BY <4>1
        <4>2. CASE ~adopts
          BY <4>2
        <4> QED BY <4>1, <4>2
      <3> HIDE DEF done
      <3>3. Fine(done(d), now) /\ d.mail \subseteq done(d).mail
        BY <1>1, <2>11, <3>1, <3>2, GivenNowFine
      <3> QED BY <2>11, <3>3, MailKept
    <2>12. ASSUME NEW d \in SupplementaryPlace(wanted, now)
           PROVE  GoodRows(d) /\ FineBut(d, p, now) /\ db.mail \subseteq d.mail
      <3>1. GoodRows(d) /\ Keeps(wanted, d, now)
        BY <1>1, <2>10, SupplementaryPlaceKeeps
      <3>2. FineBut(d, p, now) /\ wanted.mail \subseteq d.mail
        BY <2>10, <3>1, KeepsFine DEF Keeps
      <3> QED BY <2>10, <3>1, <3>2
    <2> HIDE DEF done
    <2> QED BY <2>1, <2>7, <2>9, <2>11, <2>12, CommittedKept
  <1> QED BY <1>2, <1>3, <1>4

\* A seat on the hidden list: whoever waited for a counted one is placed at once, and only
\* the emails of the offer they leave are withdrawn.
LEMMA SetOutsideKeepsLine ==
    ASSUME TypeOK, LineInv, NEW p \in Person, NEW outside \in BOOLEAN, SetOutside(p, outside)
    PROVE  LineInv'
  <1> DEFINE e == Served(db, now)
             r == e.reg[p]
             seat == [r EXCEPT !.outside = outside]
             flagged == [e EXCEPT !.reg[p] = seat]
             filled == IF outside THEN FillAvailableSpots(flagged, now) ELSE flagged
             withoutOffer(d) ==
                 IF r.status # "WAITLIST_OFFERED" THEN d
                 ELSE [d EXCEPT !.mail = {m \in @ : \/ m.to # p \/ m.kind = "declaration"
                                                    \/ InFlight(m)}]
             told(d) == AllocationEmail(withoutOffer(d), p, now)
             seated == IF outside /\ r.status \in LineStatus
                       THEN {told(d) : d \in Allocated(filled, p, now, Entry("staff"))}
                       ELSE {filled}
  <1>1. GoodRows(db) /\ now \in Time /\ Fine(db, now)
    BY DEF TypeOK, LineInv
  <1>2. \/ Commit({e})
        \/ r.outside # outside /\ Commit(seated)
    BY DEF SetOutside, LineStatus
  <1>3. GoodRows(e) /\ Fine(e, now) /\ db.mail \subseteq e.mail
    BY <1>1, ServedGood, ServedFine
  <1> HIDE DEF e
  <1>4. /\ r \in Registration /\ ~(r.outside /\ r.status \in LineStatus)
        /\ seat.status = r.status /\ seat.hold = r.hold /\ seat.outside = outside
    BY <1>3, RowsAre DEF Fine, Outsider, Registration
  <1>5. GoodRows(flagged)
    <2>1. GoodRows([e EXCEPT !.reg[p].outside = outside])
      BY <1>3, NewOutside
    <2> QED BY <2>1
  <1>6. /\ flagged.ev = e.ev /\ flagged.mail = e.mail /\ flagged.reg[p] = seat
        /\ \A q \in Person \ {p} : flagged.reg[q] = e.reg[q]
    <2>1. flagged = [e EXCEPT !.reg[p] = seat]
      OBVIOUS
    <2> HIDE DEF flagged, seat
    <2> QED BY <1>3, <2>1, RowReplaced
  <1>7. r.outside # outside /\ r.status \notin LineStatus => Fine(flagged, now)
    <2>1. flagged = [e EXCEPT !.reg[p] = seat]
      OBVIOUS
    <2>2. FineBut(e, p, now)
      BY <1>3, FineIsFineBut
    <2> HIDE DEF flagged, seat
    <2> QED BY <1>3, <1>4, <1>5, <2>1, <2>2, RowFine
  <1>8. r.outside # outside /\ r.status \in LineStatus => outside /\ FineBut(flagged, p, now)
    <2> SUFFICES ASSUME r.outside # outside, r.status \in LineStatus
                 PROVE  outside /\ FineBut(flagged, p, now)
      OBVIOUS
    <2>1. outside /\ ~r.outside
      BY <1>4 DEF Registration
    <2>2. FineBut(e, p, now)
      BY <1>3, FineIsFineBut
    <2> HIDE DEF flagged, seat
    <2> QED BY <1>3, <1>4, <1>5, <1>6, <2>1, <2>2, SeatFineBut
  <1> HIDE DEF flagged, seat
  <1>9. CASE r.outside # outside /\ Commit(seated) /\ r.status \notin LineStatus
    <2>1. Fine(filled, now) /\ flagged.mail \subseteq filled.mail
      BY <1>1, <1>5, <1>7, <1>9, FillAvailableSpotsFine
    <2> HIDE DEF filled
    <2>2. Kept(filled)
      BY <1>3, <1>6, <2>1, MailKept
    <2>3. Commit({filled})
      BY <1>9
    <2> QED BY <2>2, <2>3, CommittedKept
  <1>10. CASE r.outside # outside /\ Commit(seated) /\ r.status \in LineStatus
    <2>1. GoodRows(filled) /\ FineBut(filled, p, now) /\ flagged.mail \subseteq filled.mail
      <3> DEFINE f == FillAvailableSpots(flagged, now)
      <3>1. GoodRows(f) /\ Keeps(flagged, f, now)
        BY <1>1, <1>5, FillAvailableSpotsGood, FillAvailableSpotsKeeps
      <3>2. filled = f
        BY <1>8, <1>10
      <3> HIDE DEF f, filled
      <3>3. FineBut(f, p, now) /\ flagged.mail \subseteq f.mail
        BY <1>5, <1>8, <1>10, <3>1, KeepsFine DEF Keeps
      <3> QED BY <3>1, <3>2, <3>3
    <2> HIDE DEF filled
    <2>3. ASSUME NEW d \in Allocated(filled, p, now, Entry("staff")) PROVE Kept(told(d))
      <3>1. GoodRows(d) /\ Fine(d, now) /\ filled.mail \subseteq d.mail
        BY <1>1, <2>1, <2>3, PublicAndStaffWays, AllocatedGood, AllocatedFine
      <3> DEFINE w == withoutOffer(d)
      <3>3. /\ w.ev = d.ev /\ w.reg = d.reg
            /\ w.mail \subseteq d.mail
            /\ \A m \in d.mail : InFlight(m) => m \in w.mail
            /\ GoodRows(w)
        <4> DEFINE left == {m \in d.mail : \/ m.to # p \/ m.kind = "declaration" \/ InFlight(m)}
        <4>1. left \subseteq d.mail /\ (\A m \in d.mail : InFlight(m) => m \in left)
          OBVIOUS
        <4>2. w \in {d, [d EXCEPT !.mail = left]}
          OBVIOUS
        <4> HIDE DEF left, w
        <4>3. left \in SUBSET Mail
          BY <3>1, <4>1 DEF GoodRows, Database
        <4>4. GoodRows([d EXCEPT !.mail = left])
          BY <3>1, <4>3, NewMail
        <4> QED BY <3>1, <4>1, <4>2, <4>4 DEF GoodRows, Database
      <3> HIDE DEF w
      <3>4. Fine(w, now)
        <4>1. ASSUME NEW q \in Person, StandsInLine(w, q, now) PROVE StandsInLine(d, q, now)
          BY <3>3, <4>1 DEF StandsInLine, OpenOffer, OfferAwaitingItsFirstEmail, EmailQueued
        <4>2. w.ev.waitCap = None \/ (d.ev.waitCap # None /\ d.ev.waitCap <= w.ev.waitCap)
          BY <3>1, <3>3, LimitRange
        <4>3. Short(w, now)
          BY <3>1, <3>3, <4>1, <4>2, ShortWithFewer DEF Fine
        <4> QED BY <3>1, <3>3, <4>3 DEF Fine, Outsider
      <3>5. Fine(told(d), now) /\ w.mail \subseteq told(d).mail
        BY <1>1, <3>3, <3>4, AllocationEmailFine DEF w
      <3> HIDE DEF told
      <3>6. sending # None /\ ~sending.sent => sending.mail \in told(d).mail
        <4> SUFFICES ASSUME sending # None, ~sending.sent PROVE sending.mail \in told(d).mail
          OBVIOUS
        <4>1. sending.mail \in db.mail
          BY DEF LineInv, SendFits
        <4>2. sending.mail \in d.mail
          BY <1>3, <1>6, <2>1, <3>1, <4>1
        <4> QED BY <3>3, <3>5, <4>2 DEF InFlight
      <3> QED BY <3>5, <3>6 DEF Kept
    <2>4. Commit({told(d) : d \in Allocated(filled, p, now, Entry("staff"))})
      BY <1>8, <1>10
    <2> HIDE DEF told
    <2> QED BY <2>3, <2>4, CommittedKept
  <1>11. CASE Commit({e})
    <2>1. Kept(e)
      BY <1>3, MailKept
    <2> QED BY <1>11, <2>1, CommittedKept
  <1> QED BY <1>2, <1>9, <1>10, <1>11

-----------------------------------------------------------------------------
(***************************************************************************)
(* Invitations.                                                            *)
(***************************************************************************)
LEMMA InvitationKeepsLine ==
    ASSUME TypeOK, LineInv, NEW p \in Person,
           \/ \E outside \in BOOLEAN : Invite(p, outside)
           \/ ResendInvitation(p) \/ WithdrawInvitation(p)
    PROVE  LineInv'
  <1>1. GoodRows(db) /\ now \in Time /\ Fine(db, now)
    BY DEF TypeOK, LineInv
  <1>2. InvitationDeadline(now) \in Deadline
    BY <1>1, HoldsEndByTheStart, DeadlineRange
  <1>3. ASSUME NEW d, GoodRows(d), Fine(d, now), db.mail \subseteq d.mail,
               NEW i \in Invitation \cup {None}
        PROVE  /\ GoodRows([d EXCEPT !.inv[p] = i]) /\ Fine([d EXCEPT !.inv[p] = i], now)
               /\ db.mail \subseteq [d EXCEPT !.inv[p] = i].mail
    <2> DEFINE f == [d EXCEPT !.inv[p] = i]
    <2>1. GoodRows(f)
      BY <1>3, NewInvitation
    <2>2. f.ev = d.ev /\ f.reg = d.reg /\ f.mail = d.mail
      BY <1>3 DEF GoodRows, Database
    <2> HIDE DEF f
    <2>3. Fine(f, now)
      BY <1>3, <2>1, <2>2, SameLineFine
    <2> QED BY <1>3, <2>1, <2>2, <2>3 DEF f
  <1>4. CASE \E outside \in BOOLEAN : Invite(p, outside)
    <2>1. PICK outside \in BOOLEAN : Invite(p, outside)
      BY <1>4
    <2> DEFINE e == FillAvailableSpots(db, now)
               more == [e EXCEPT !.ev.capacity = @ + 1]
               i == [until |-> InvitationDeadline(now), outside |-> outside]
    <2>2. GoodRows(e) /\ Fine(e, now) /\ db.mail \subseteq e.mail
      BY <1>1, FillAvailableSpotsGood, FillAvailableSpotsFine
    <2>3. i \in Invitation \cup {None}
      BY <1>2 DEF Invitation
    <2> HIDE DEF e
    <2>4. e.ev.capacity # None
          => GoodRows(more) /\ Fine(more, now) /\ db.mail \subseteq more.mail
      <3> SUFFICES ASSUME e.ev.capacity # None
                   PROVE  GoodRows(more) /\ Fine(more, now) /\ db.mail \subseteq more.mail
        OBVIOUS
      <3>1. [e.ev EXCEPT !.capacity = @ + 1] \in StoredEvent
        BY <2>2 DEF GoodRows, Database, StoredEvent
      <3>2. GoodRows(more)
        BY <2>2, <3>1, NewSettings
      <3>3. more.ev.waitCap = e.ev.waitCap /\ more.reg = e.reg /\ more.mail = e.mail
        BY <2>2 DEF GoodRows, Database, StoredEvent
      <3> HIDE DEF more
      <3>4. Fine(more, now)
        BY <2>2, <3>2, <3>3, SameLineFine
      <3> QED BY <2>2, <3>2, <3>3, <3>4
    <2>5. PICK raised : /\ raised = {e} \/ raised = {} \/ (e.ev.capacity # None /\ raised = {more})
                        /\ Commit({[d EXCEPT !.inv[p] = i] : d \in raised})
      BY <2>1 DEF Invite, e
    <2> HIDE DEF i, more
    <2>6. \A d \in raised : GoodRows(d) /\ Fine(d, now) /\ db.mail \subseteq d.mail
      BY <2>2, <2>4, <2>5
    <2>7. \A f \in {[d EXCEPT !.inv[p] = i] : d \in raised} : Kept(f)
      <3> SUFFICES ASSUME NEW d \in raised PROVE Kept([d EXCEPT !.inv[p] = i])
        OBVIOUS
      <3>1. /\ Fine([d EXCEPT !.inv[p] = i], now)
            /\ db.mail \subseteq [d EXCEPT !.inv[p] = i].mail
        BY <1>3, <2>3, <2>6
      <3> QED BY <3>1, MailKept
    <2> QED BY <2>5, <2>7, CommittedKept
  <1>5. CASE ResendInvitation(p)
    <2> DEFINE e == Expired(db, now)
               later == [e.inv[p] EXCEPT !.until = InvitationDeadline(now)]
               moved == [e EXCEPT !.inv[p] = later]
    <2>1. GoodRows(e) /\ e.inv[p] # None /\ Fine(e, now) /\ db.mail \subseteq e.mail
      BY <1>1, <1>5, ExpiredGood, ExpiredFine DEF ResendInvitation, LiveInvitation
    <2>2. Commit({e}) \/ Commit({moved})
      BY <1>5 DEF ResendInvitation
    <2> HIDE DEF e
    <2>3. later \in Invitation \cup {None}
      BY <1>2, <2>1 DEF GoodRows, Database, Invitation
    <2> HIDE DEF later
    <2>4. Fine(moved, now) /\ db.mail \subseteq moved.mail
      BY <1>3, <2>1, <2>3
    <2> HIDE DEF moved
    <2>5. Kept(e) /\ Kept(moved)
      BY <2>1, <2>4, MailKept
    <2> QED BY <2>2, <2>5, CommittedKept
  <1>6. CASE WithdrawInvitation(p)
    <2> DEFINE e == Expired(db, now)
               withdrawn == [e EXCEPT !.inv[p] = None]
               done == FillAvailableSpots(withdrawn, now)
    <2>1. GoodRows(e) /\ Fine(e, now) /\ db.mail \subseteq e.mail
      BY <1>1, ExpiredGood, ExpiredFine
    <2>2. Commit({done})
      BY <1>6 DEF WithdrawInvitation
    <2> HIDE DEF e
    <2>3. GoodRows(withdrawn) /\ Fine(withdrawn, now) /\ db.mail \subseteq withdrawn.mail
      BY <1>3, <2>1
    <2> HIDE DEF withdrawn
    <2>4. Fine(done, now) /\ db.mail \subseteq done.mail
      BY <1>1, <2>3, FillAvailableSpotsFine
    <2> HIDE DEF done
    <2> QED BY <2>2, <2>4, MailKept, CommittedKept
  <1> QED BY <1>4, <1>5, <1>6

LEMMA AcceptInvitationKeepsLine ==
    ASSUME TypeOK, LineInv, NEW p \in Person, AcceptInvitation(p)
    PROVE  LineInv'
  <1> DEFINE row == WithForm(db, p, now, FALSE)
             seat == [row.reg[p] EXCEPT !.outside = db.inv[p].outside]
             kind == [row EXCEPT !.reg[p] = seat]
             proved == [row EXCEPT !.reg[p].outside = db.inv[p].outside, !.verified = @ \cup {p}]
             freed(d) == [d EXCEPT !.inv[p] = None]
  <1>1. GoodRows(db) /\ now \in Time /\ Fine(db, now)
    BY DEF TypeOK, LineInv
  <1>2. GoodRows(row) /\ Fine(row, now) /\ row.mail = db.mail
    BY <1>1, WithFormGood, EnteringFine DEF AcceptInvitation
  <1>3. row.reg[p].status = "PENDING_EMAIL_CONFIRMATION"
    BY <1>1 DEF WithForm, Absent, GoodRows, Database
  <1>4. Commit({freed(d) : d \in AllocatedWithEmail(proved, p, now, InvitedEntry)})
    BY DEF AcceptInvitation
  <1> HIDE DEF row
  <1>5. GoodRows(kind)
    <2>1. GoodRows([row EXCEPT !.reg[p].outside = db.inv[p].outside])
      BY <1>1, <1>2, OutsideIsBoolean, NewOutside DEF AcceptInvitation, LiveInvitation
    <2> QED BY <2>1
  <1>6. seat.status \notin LineStatus
    BY <1>2, <1>3, RowsAre DEF Registration, LineStatus
  <1>7. /\ kind.verified \cup {p} \in SUBSET Person
        /\ proved = [kind EXCEPT !.verified = kind.verified \cup {p}]
    <2>1. kind.verified \cup {p} \in SUBSET Person
      BY <1>5 DEF GoodRows, Database
    <2>2. proved = [kind EXCEPT !.verified = kind.verified \cup {p}]
      BY <1>2 DEF GoodRows, Database
    <2> QED BY <2>1, <2>2
  <1>8. kind = [row EXCEPT !.reg[p] = seat]
    OBVIOUS
  <1> HIDE DEF kind, proved, seat
  <1>9. Fine(kind, now) /\ kind.mail = row.mail
    BY <1>2, <1>5, <1>6, <1>8, FineIsFineBut, RowFine
  <1>10. GoodRows(proved) /\ FineBut(proved, p, now) /\ proved.mail = kind.mail
    <2>1. GoodRows(proved)
      BY <1>5, <1>7, NewVerified
    <2>2. proved.ev = kind.ev /\ proved.reg = kind.reg /\ proved.mail = kind.mail
      BY <1>5, <1>7 DEF GoodRows, Database
    <2> QED BY <1>5, <1>9, <2>1, <2>2, SameLineFine, FineIsFineBut
  <1>11. ASSUME NEW d \in AllocatedWithEmail(proved, p, now, InvitedEntry) PROVE Kept(freed(d))
    <2>1. GoodRows(d) /\ Fine(d, now) /\ proved.mail \subseteq d.mail
      BY <1>1, <1>10, Ways, AllocatedWithEmailGood, AllocatedWithEmailFine
    <2>2. GoodRows(freed(d))
      BY <2>1, NewInvitation
    <2>3. freed(d).ev = d.ev /\ freed(d).reg = d.reg /\ freed(d).mail = d.mail
      BY <2>1 DEF GoodRows, Database
    <2> HIDE DEF freed
    <2>4. Fine(freed(d), now)
      BY <2>1, <2>2, <2>3, SameLineFine
    <2> QED BY <1>2, <1>9, <1>10, <2>1, <2>3, <2>4, MailKept
  <1> HIDE DEF freed
  <1> QED BY <1>4, <1>11, CommittedKept

-----------------------------------------------------------------------------
(***************************************************************************)
(* The sweeps and the editor.                                              *)
(***************************************************************************)
LEMMA RowsLeaveFine ==
    ASSUME NEW d, GoodRows(d), NEW t, Fine(d, t), NEW rows, NEW e, e = [d EXCEPT !.reg = rows],
           GoodRows(e),
           \A p \in Person : \/ rows[p] = d.reg[p]
                             \/ rows[p] = Moved(d.reg[p], "EXPIRED", None)
    PROVE  Fine(e, t) /\ e.mail = d.mail
  <1>1. e.ev = d.ev /\ e.reg = rows /\ e.mail = d.mail
    BY DEF GoodRows, Database
  <1>2. ASSUME NEW p \in Person, rows[p] = Moved(d.reg[p], "EXPIRED", None)
        PROVE  rows[p].status \notin LineStatus /\ rows[p].outside = d.reg[p].outside
    <2>1. d.reg[p] \in Registration
      BY RowsAre
    <2> QED BY <1>2, <2>1 DEF Moved, Registration, LineStatus
  <1>3. Keeps(d, e, t)
    BY <1>1, <1>2, KeepsRows
  <1> QED BY <1>1, <1>3, KeepsFine

LEMMA SweepKeepsLine ==
    ASSUME TypeOK, LineInv, ExpireEmailLinks \/ SweepLapsedInvitations \/ Maintenance
    PROVE  LineInv'
  <1>1. GoodRows(db) /\ now \in Time /\ Fine(db, now)
    BY DEF TypeOK, LineInv
  <1>2. ASSUME NEW left, NEW rows, left = [db EXCEPT !.reg = rows],
               rows \in [Person -> Registration],
               \A p \in Person : /\ WellFormed(rows[p])
                                 /\ \/ rows[p] = db.reg[p]
                                    \/ rows[p] = Moved(db.reg[p], "EXPIRED", None)
        PROVE  GoodRows(left) /\ Fine(left, now) /\ left.mail = db.mail
    <2>1. GoodRows(left)
      BY <1>1, <1>2, NewRows
    <2> QED BY <1>1, <1>2, <2>1, RowsLeaveFine
  <1>3. ASSUME NEW p \in Person
        PROVE  /\ db.reg[p] \in Registration /\ WellFormed(db.reg[p])
               /\ Moved(db.reg[p], "EXPIRED", None) \in Registration
               /\ WellFormed(Moved(db.reg[p], "EXPIRED", None))
    BY <1>1, RowsAre, MovedRow DEF Settled
  <1>4. CASE ExpireEmailLinks
    <2> DEFINE rows == [p \in Person |->
                   IF p \in StaleLinks(db, now) THEN Moved(db.reg[p], "EXPIRED", None)
                   ELSE db.reg[p]]
               left == [db EXCEPT !.reg = rows]
    <2>1. Commit({left}) /\ left = [db EXCEPT !.reg = rows]
      BY <1>4 DEF ExpireEmailLinks
    <2>2. rows \in [Person -> Registration]
          /\ \A p \in Person : /\ WellFormed(rows[p])
                               /\ \/ rows[p] = db.reg[p]
                                  \/ rows[p] = Moved(db.reg[p], "EXPIRED", None)
      BY <1>3
    <2> HIDE DEF rows, left
    <2>3. Fine(left, now) /\ left.mail = db.mail
      BY <1>2, <2>1, <2>2
    <2> QED BY <2>1, <2>3, MailKept, CommittedKept
  <1>5. CASE SweepLapsedInvitations
    <2> DEFINE done == FillAvailableSpots(db, now)
    <2>1. Commit({done})
      BY <1>5 DEF SweepLapsedInvitations
    <2>2. Fine(done, now) /\ db.mail \subseteq done.mail
      BY <1>1, FillAvailableSpotsFine
    <2> HIDE DEF done
    <2> QED BY <2>1, <2>2, MailKept, CommittedKept
  <1>6. CASE Maintenance
    <2> DEFINE rows == [p \in Person |->
                   IF db.reg[p].status = "WAITLISTED" THEN Moved(db.reg[p], "EXPIRED", None)
                   ELSE db.reg[p]]
               left == [db EXCEPT !.reg = rows]
    <2>1. /\ left = [db EXCEPT !.reg = rows]
          /\ Commit({FillAvailableSpots(left, now)}) \/ Commit({FillAvailableSpots(db, now)})
      BY <1>6 DEF Maintenance, WaitlistClosed
    <2>2. rows \in [Person -> Registration]
          /\ \A p \in Person : /\ WellFormed(rows[p])
                               /\ \/ rows[p] = db.reg[p]
                                  \/ rows[p] = Moved(db.reg[p], "EXPIRED", None)
      BY <1>3
    <2> HIDE DEF rows, left
    <2>3. GoodRows(left) /\ Fine(left, now) /\ left.mail = db.mail
      BY <1>2, <2>1, <2>2
    <2>4. Kept(FillAvailableSpots(left, now)) /\ Kept(FillAvailableSpots(db, now))
      BY <1>1, <2>3, FillAvailableSpotsFine, MailKept
    <2> QED BY <2>1, <2>4, CommittedKept
  <1> QED BY <1>4, <1>5, <1>6

\* The limit of the step's own database is no lower than the one before: or there is none.
LimitStands ==
    db'.ev.waitCap = None \/ (db.ev.waitCap # None /\ db.ev.waitCap <= db'.ev.waitCap)

LEMMA EditKeepsLine ==
    ASSUME TypeOK, LineInv, LimitStands, NEW form \in EventForms, EditEvent(form)
    PROVE  LineInv'
  <1> DEFINE saved == [db EXCEPT !.ev = Stored(form, db.ev.released)]
             filled == FillAvailableSpots(saved, now)
  <1>1. GoodRows(db) /\ now \in Time /\ Fine(db, now)
    BY DEF TypeOK, LineInv
  <1>2. GoodRows(saved)
    <2>1. form \in EventForm /\ db.ev.released \in BOOLEAN
      BY <1>1, EventAssumption DEF GoodRows, Database, StoredEvent
    <2>2. Stored(form, db.ev.released) \in StoredEvent
      BY <2>1 DEF Stored, EventForm, StoredEvent
    <2> QED BY <1>1, <2>2, NewSettings
  <1>3. saved.reg = db.reg /\ saved.mail = db.mail
    BY <1>1 DEF GoodRows, Database
  <1>4. Commit({saved}) \/ Commit({filled})
    BY DEF EditEvent
  <1> HIDE DEF saved
  <1>5. GoodRows(filled) /\ Keeps(saved, filled, now)
    BY <1>1, <1>2, FillAvailableSpotsGood, FillAvailableSpotsKeeps
  <1> HIDE DEF filled
  <1>6. db'.ev.waitCap = saved.ev.waitCap
    BY <1>4, <1>5 DEF Commit, Keeps
  <1>7. Fine(saved, now)
    <2>1. saved.ev.waitCap = None \/ (db.ev.waitCap # None /\ db.ev.waitCap <= saved.ev.waitCap)
      BY <1>6 DEF LimitStands
    <2>2. \A p \in Person : StandsInLine(saved, p, now) => StandsInLine(db, p, now)
      BY <1>3 DEF StandsInLine, OpenOffer, OfferAwaitingItsFirstEmail, EmailQueued
    <2>3. Short(saved, now)
      BY <1>1, <1>2, <2>1, <2>2, ShortWithFewer DEF Fine
    <2> QED BY <1>1, <1>3, <2>3 DEF Fine, Outsider
  <1>8. Fine(filled, now) /\ saved.mail \subseteq filled.mail
    BY <1>2, <1>5, <1>7, KeepsFine DEF Keeps
  <1>9. Kept(saved) /\ Kept(filled)
    BY <1>3, <1>7, <1>8, MailKept
  <1> QED BY <1>4, <1>9, CommittedKept

-----------------------------------------------------------------------------
(***************************************************************************)
(* The emails.                                                             *)
(***************************************************************************)
LEMMA PlannedByTheClose ==
    ASSUME NEW d, NEW m \in Mail, NEW t, PlannedDeadline(d, m, t) # None
    PROVE  PlannedDeadline(d, m, t) <= CloseOfKind(m.kind)
  <1> DEFINE close == CloseOfKind(m.kind)
             until == d.reg[m.to].hold + (t - m.at)
  <1>1. close \in Nat /\ StartAt \in Nat /\ close <= StartAt
    BY DatesAssumption DEF CloseOfKind
  <1>2. PlannedDeadline(d, m, t) = CapHoldExpiry(until, close)
    BY DEF PlannedDeadline, RebasedDeadline
  <1>3. PlannedDeadline(d, m, t) > d.reg[m.to].hold /\ d.reg[m.to].hold > m.at
    BY DEF PlannedDeadline, RebasedDeadline
  <1> HIDE DEF close, until
  <1>4. CapHoldExpiry(until, close) = IF until <= close THEN until ELSE close
    BY <1>1 DEF CapHoldExpiry, Least
  <1> QED BY <1>1, <1>2, <1>4 DEF close

\* An email that leaves the queue opens no offer.
LEMMA UnqueuedFine ==
    ASSUME NEW d, GoodRows(d), NEW m, NEW t, Fine(d, t)
    PROVE  Fine(Unqueued(d, m), t)
  <1> DEFINE e == Unqueued(d, m)
  <1>1. GoodRows(e)
    BY UnqueuedGood
  <1>2. e.ev = d.ev /\ e.reg = d.reg /\ e.mail \subseteq d.mail
    BY DEF Unqueued, GoodRows, Database
  <1> HIDE DEF e
  <1>3. ASSUME NEW p \in Person, StandsInLine(e, p, t) PROVE StandsInLine(d, p, t)
    BY <1>2, <1>3 DEF StandsInLine, OpenOffer, OfferAwaitingItsFirstEmail, EmailQueued
  <1>4. e.ev.waitCap = None \/ (d.ev.waitCap # None /\ d.ev.waitCap <= e.ev.waitCap)
    BY <1>2, LimitRange
  <1>5. Short(e, t)
    BY <1>1, <1>3, <1>4, ShortWithFewer DEF Fine
  <1>6. Fine(e, t)
    BY <1>2, <1>5 DEF Fine, Outsider
  <1> QED BY <1>6 DEF e

\* The move an offer's email makes: while the email was queued the offer was open, or the
\* close it may last to is over.
LEMMA RebasedOfferFine ==
    ASSUME NEW d, GoodRows(d), NEW t \in Time, Fine(d, t),
           NEW s \in Delivery, s.mail.kind # "declaration", s.mail \in d.mail,
           s.to # None => s.to <= CloseOfKind(s.mail.kind)
    PROVE  Fine(Rebased(Unqueued(d, s.mail), s), t)
  <1> DEFINE c == Unqueued(d, s.mail)
             e == Rebased(c, s)
             p == s.mail.to
             r == [c.reg[p] EXCEPT !.hold = s.to]
             moved == [c EXCEPT !.reg[p] = r]
  <1>1. p \in Person /\ s.mail.kind \in {"offer", "offerUntilStart"}
    BY DEF Delivery, Mail, MailKind
  <1>2. GoodRows(c) /\ Fine(c, t) /\ GoodRows(e)
    BY UnqueuedGood, UnqueuedFine, RebasedGood
  <1>3. c.ev = d.ev /\ c.reg = d.reg /\ c.mail \subseteq d.mail
    BY DEF Unqueued, GoodRows, Database
  <1>4. e = c \/ (e = moved /\ s.to # None /\ c.reg[p].status = "WAITLIST_OFFERED")
    <2>1. [c EXCEPT !.reg[p].hold = s.to] = moved
      OBVIOUS
    <2> HIDE DEF c
    <2> QED BY <1>1, <2>1 DEF Rebased, StatusOfKind
  <1>5. moved = [c EXCEPT !.reg[p] = r]
    OBVIOUS
  <1>6. s.mail.to = p
    OBVIOUS
  <1> HIDE DEF c
  <1>7. r.status = c.reg[p].status /\ r.outside = c.reg[p].outside /\ r.hold = s.to
    BY <1>1, <1>2, RowsAre DEF Registration
  <1> HIDE DEF e, moved, r, p
  <1>8. CASE e = moved /\ s.to # None /\ c.reg[p].status = "WAITLIST_OFFERED"
    <2>1. /\ moved.ev = c.ev /\ moved.mail = c.mail
          /\ moved.reg[p] = r /\ \A q \in Person \ {p} : moved.reg[q] = c.reg[q]
      BY <1>1, <1>2, <1>5 DEF GoodRows, Database
    <2>2. ASSUME NEW q \in Person \ {p}, StandsInLine(moved, q, t) PROVE StandsInLine(d, q, t)
      BY <1>3, <2>1, <2>2 DEF StandsInLine, OpenOffer, OfferAwaitingItsFirstEmail, EmailQueued
    <2>3. ASSUME OpenOffer(moved, p, t) PROVE OpenOffer(d, p, t)
      <3>1. CASE t < CloseOfKind(s.mail.kind)
        <4>1. OfferAwaitingItsFirstEmail(d, p, t)
          BY <1>1, <1>6, <3>1 DEF OfferAwaitingItsFirstEmail, EmailQueued, CloseOfKind
        <4> QED BY <1>3, <1>8, <4>1 DEF OpenOffer
      <3>2. CASE ~(t < CloseOfKind(s.mail.kind))
        <4>1. t \in Nat /\ s.to \in Nat /\ CloseOfKind(s.mail.kind) \in Nat
          BY <1>8, DeadlineRange DEF Delivery, CloseOfKind
        <4>2. ~Ahead(moved.reg[p].hold, t)
          BY <1>7, <1>8, <2>1, <3>2, <4>1 DEF Ahead
        <4>3. OfferAwaitingItsFirstEmail(moved, p, t)
          BY <2>3, <4>2 DEF OpenOffer
        <4>4. OfferAwaitingItsFirstEmail(d, p, t)
          BY <1>3, <2>1, <4>3 DEF OfferAwaitingItsFirstEmail, EmailQueued
        <4> QED BY <1>3, <1>8, <4>4 DEF OpenOffer
      <3> QED BY <3>1, <3>2
    <2>4. ASSUME NEW q \in Person, StandsInLine(moved, q, t) PROVE StandsInLine(d, q, t)
      <3>1. CASE q = p
        BY <1>3, <1>7, <1>8, <2>1, <2>3, <2>4, <3>1 DEF StandsInLine
      <3>2. CASE q # p
        BY <2>2, <2>4, <3>2
      <3> QED BY <3>1, <3>2
    <2>5. moved.ev.waitCap = None \/ (d.ev.waitCap # None /\ d.ev.waitCap <= moved.ev.waitCap)
      BY <1>3, <2>1, LimitRange
    <2>6. Short(moved, t)
      BY <1>2, <1>8, <2>4, <2>5, ShortWithFewer DEF Fine
    <2>7. \A q \in Person : ~Outsider(moved, q)
      BY <1>2, <1>7, <2>1 DEF Fine, Outsider
    <2> QED BY <1>8, <2>6, <2>7 DEF Fine, e, c
  <1>9. CASE e = c
    BY <1>2, <1>9 DEF e, c
  <1> QED BY <1>4, <1>8, <1>9

\* A declaration's move touches no row of the line.
LEMMA RebasedDeclarationFine ==
    ASSUME NEW d, GoodRows(d), NEW t, Fine(d, t),
           NEW s \in Delivery, s.mail.kind = "declaration"
    PROVE  Fine(Rebased(d, s), t)
  <1> DEFINE e == Rebased(d, s)
             p == s.mail.to
             r == [d.reg[p] EXCEPT !.hold = s.to]
             moved == [d EXCEPT !.reg[p] = r]
  <1>1. p \in Person
    BY DEF Delivery, Mail
  <1>2. GoodRows(e)
    BY RebasedGood
  <1>3. e = d \/ (e = moved /\ d.reg[p].status = "PENDING_DECLARATION")
    <2>1. [d EXCEPT !.reg[p].hold = s.to] = moved
      OBVIOUS
    <2> QED BY <2>1 DEF Rebased, StatusOfKind
  <1>4. moved = [d EXCEPT !.reg[p] = r]
    OBVIOUS
  <1>5. r.status = d.reg[p].status
    BY <1>1, RowsAre DEF Registration
  <1> HIDE DEF e, moved, r, p
  <1>6. CASE e = moved /\ d.reg[p].status = "PENDING_DECLARATION"
    <2>1. r.status \notin LineStatus
      BY <1>5, <1>6 DEF LineStatus
    <2>2. Fine(moved, t)
      BY <1>1, <1>2, <1>4, <1>6, <2>1, FineIsFineBut, RowFine
    <2> QED BY <1>6, <2>2 DEF e
  <1>7. CASE e = d
    BY <1>7 DEF e
  <1> QED BY <1>3, <1>6, <1>7

LEMMA SendingKeepsLine ==
    ASSUME TypeOK, LineInv,
           \/ \E m \in db.mail : PlanSend(m)
           \/ OfferAccepted \/ DeclarationAccepted \/ ApplyRebase \/ SendGivesUp \/ WorkerStops
    PROVE  LineInv'
  <1>1. /\ GoodRows(db) /\ now \in Time /\ Fine(db, now) /\ SendFits
        /\ sending # None => sending \in Delivery
    BY DEF TypeOK, LineInv
  <1>2. now' = now
    BY DEF PlanSend, OfferAccepted, DeclarationAccepted, ApplyRebase, SendGivesUp, WorkerStops
  <1>4. ASSUME Fine(db', now), SendFits' PROVE LineInv'
    BY <1>2, <1>4 DEF LineInv, Fine, Short, Line, StandsInLine, Outsider
  <1>5. Fine(Unqueued(db, sending.mail), now)
    BY <1>1, UnqueuedFine
  <1>6. CASE \E m \in db.mail : PlanSend(m)
    <2>1. PICK m \in db.mail : PlanSend(m)
      BY <1>6
    <2>2. m \in Mail
      BY <1>1 DEF GoodRows, Database
    <2>3. db' = db /\ sending' = [mail |-> m, from |-> db.reg[m.to].hold,
                                  to |-> PlannedDeadline(db, m, now), sent |-> FALSE]
      BY <2>1 DEF PlanSend
    <2>4. sending'.to # None => sending'.to <= CloseOfKind(sending'.mail.kind)
      BY <2>2, <2>3, PlannedByTheClose
    <2>5. SendFits'
      BY <2>3, <2>4 DEF SendFits
    <2> QED BY <1>1, <1>4, <2>3, <2>5
  <1>7. CASE OfferAccepted \/ SendGivesUp \/ WorkerStops
    <2>1. sending' = None
      BY <1>7 DEF OfferAccepted, SendGivesUp, WorkerStops
    <2>2. SendFits'
      BY <2>1 DEF SendFits
    <2>3. CASE OfferAccepted
      <3>1. sending # None /\ sending.mail.kind # "declaration" /\ ~sending.sent
        BY <1>1, <2>3 DEF OfferAccepted, SendFits
      <3>2. Fine(Rebased(Unqueued(db, sending.mail), sending), now)
        BY <1>1, <3>1, RebasedOfferFine DEF SendFits
      <3> QED BY <1>4, <1>5, <2>2, <2>3, <3>2 DEF OfferAccepted
    <2>4. CASE SendGivesUp \/ WorkerStops
      BY <1>1, <1>4, <1>5, <2>2, <2>4 DEF SendGivesUp, WorkerStops
    <2> QED BY <1>7, <2>3, <2>4
  <1>8. CASE DeclarationAccepted
    <2>1. db' = Unqueued(db, sending.mail) /\ sending # None /\ sending.mail.kind = "declaration"
      BY <1>8 DEF DeclarationAccepted
    <2>2. sending' = None \/ sending' = [sending EXCEPT !.sent = TRUE]
      BY <1>8 DEF DeclarationAccepted
    <2>3. SendFits'
      BY <1>1, <2>1, <2>2 DEF SendFits, Delivery
    <2> QED BY <1>4, <1>5, <2>1, <2>3
  <1>9. CASE ApplyRebase
    <2>1. sending # None /\ sending.sent /\ db' = Rebased(db, sending) /\ sending' = None
      BY <1>9 DEF ApplyRebase
    <2>2. Fine(Rebased(db, sending), now)
      BY <1>1, <2>1, RebasedDeclarationFine DEF SendFits
    <2>3. SendFits'
      BY <2>1 DEF SendFits
    <2> QED BY <1>4, <2>1, <2>2, <2>3
  <1> QED BY <1>6, <1>7, <1>8, <1>9

\* The clock only closes offers.
LEMMA TickKeepsLine ==
    ASSUME TypeOK, LineInv, Tick
    PROVE  LineInv'
  <1>1. GoodRows(db) /\ now \in Nat /\ Fine(db, now)
    BY DeadlineRange DEF TypeOK, LineInv
  <1>2. db' = db /\ sending' = sending /\ now' = now + 1
    BY DEF Tick
  <1>3. ASSUME NEW p \in Person, StandsInLine(db, p, now + 1) PROVE StandsInLine(db, p, now)
    <2>1. db.reg[p].hold \in Nat \cup {None}
      BY <1>1, RowsAre, DeadlineRange DEF Registration
    <2>2. StartAt \in Nat /\ CloseAt \in Nat
      BY DatesAssumption
    <2>3. Ahead(db.reg[p].hold, now + 1) => Ahead(db.reg[p].hold, now)
      BY <1>1, <2>1 DEF Ahead
    <2>4. OfferAwaitingItsFirstEmail(db, p, now + 1) => OfferAwaitingItsFirstEmail(db, p, now)
      BY <1>1, <2>2 DEF OfferAwaitingItsFirstEmail
    <2> QED BY <1>3, <2>3, <2>4 DEF StandsInLine, OpenOffer
  <1>4. db.ev.waitCap = None \/ (db.ev.waitCap # None /\ db.ev.waitCap <= db.ev.waitCap)
    BY <1>1, LimitRange
  <1>5. Short(db, now + 1)
    BY <1>1, <1>3, <1>4, ShortWithFewer DEF Fine
  <1>6. Fine(db, now + 1)
    BY <1>1, <1>5 DEF Fine
  <1>7. SendFits'
    BY <1>2 DEF LineInv, SendFits
  <1> QED BY <1>2, <1>6, <1>7 DEF LineInv, Fine, Short, Line, StandsInLine, Outsider

-----------------------------------------------------------------------------
LEMMA NobodyInLineAtFirst ==
    Init => LineInv
  <1> SUFFICES ASSUME Init PROVE LineInv
    OBVIOUS
  <1>1. \A p \in Person : ~StandsInLine(db, p, now) /\ ~Outsider(db, p)
    BY DEF Init, Absent, StandsInLine, OpenOffer, Outsider
  <1>2. Line(db, now) = {}
    BY <1>1 DEF Line
  <1>3. Cardinality(Line(db, now)) = 0
    BY <1>2, FS_EmptySet
  <1>4. db.ev.waitCap \in Nat \cup {None}
    BY EventAssumption DEF Init, Stored, EventForm
  <1>5. SendFits
    BY DEF Init, SendFits
  <1> QED BY <1>1, <1>3, <1>4, <1>5 DEF LineInv, Fine, Short

LEMMA LineInvIsEnough ==
    LineInv => LineWithinItsLimit
  BY LineIsCounted DEF LineInv, Fine, Short, LineWithinItsLimit

\* However many people pass the unlocked look at the line together, and whatever the emails,
\* the deadlines and the staff do meanwhile, those who wait and those with an open offer are
\* never more than the limit, as long as the editor only raises or lifts it
\* (allocateOrWaitlist, offerAwaitingItsFirstEmail, applyDeadlineRebase).
THEOREM LineWithinItsLimitHolds ==
    Spec /\ [][LimitStands]_vars => []LineWithinItsLimit
  <1>1. TypeOK /\ LineInv /\ [Next]_vars /\ [LimitStands]_vars => LineInv'
    <2> SUFFICES ASSUME TypeOK, LineInv, [Next]_vars, [LimitStands]_vars PROVE LineInv'
      OBVIOUS
    <2>1. Relative \subseteq Person /\ Invitee \subseteq Person /\ Desk \subseteq Person
      BY PersonAssumption
    <2>2. CASE UNCHANGED vars
      BY <2>2 DEF vars, LineInv, Fine, Short, Line, StandsInLine, Outsider, SendFits
    <2>3. CASE \E p \in Person :
                   \/ \E channel \in Channel : PassWaitlistCheck(p, channel)
                   \/ Submit(p) \/ SubmitByStaff(p) \/ SubmitVouched(p)
                   \/ \E until \in SittingDeadlines(now) : SubmitInSitting(p, until)
                   \/ \E until \in SittingDeadlines(now) : HoldFamilyPlace(p, until)
                   \/ ConfirmFamilyEntry(p)
      BY <2>3, EntryKeepsLine DEF Channel
    <2>4. CASE \E p \in Person : ConfirmEmail(p) \/ SignDeclaration(p) \/ ConfirmByStaff(p)
                                 \/ Unregister(p)
      BY <2>4, ConfirmationKeepsLine
    <2>5. CASE \E p \in Person : Promote(p) \/ OfferPlaceTo(p) \/ GivePlaceNow(p)
      BY <2>5, StaffPlaceKeepsLine
    <2>6. CASE \E p \in Person, outside \in BOOLEAN : SetOutside(p, outside) \/ Invite(p, outside)
      BY <2>6, SetOutsideKeepsLine, InvitationKeepsLine
    <2>7. CASE \E p \in Person : AcceptInvitation(p) \/ ResendInvitation(p)
                                 \/ WithdrawInvitation(p)
      BY <2>7, AcceptInvitationKeepsLine, InvitationKeepsLine
    <2>8. CASE ExpireEmailLinks \/ SweepLapsedInvitations \/ Maintenance
      BY <2>8, SweepKeepsLine
    <2>9. CASE \E form \in EventForms : EditEvent(form)
      <3>1. CASE LimitStands
        BY <2>9, <3>1, EditKeepsLine
      <3>2. CASE UNCHANGED vars
        BY <2>2, <3>2
      <3> QED BY <3>1, <3>2
    <2>10. CASE \/ \E m \in db.mail : PlanSend(m)
                \/ OfferAccepted \/ DeclarationAccepted \/ ApplyRebase
                \/ SendGivesUp \/ WorkerStops
      BY <2>10, SendingKeepsLine
    <2>11. CASE Tick
      BY <2>11, TickKeepsLine
    <2> QED BY <2>1, <2>2, <2>3, <2>4, <2>5, <2>6, <2>7, <2>8, <2>9, <2>10, <2>11
            DEF Next, Channel
  <1> QED BY <1>1, TypeCorrect, NobodyInLineAtFirst, LineInvIsEnough, PTL DEF Spec

-----------------------------------------------------------------------------
(***************************************************************************)
(* The door, which looks without the lock, and the allocator, which serves *)
(* the line first.  Where nobody waits, the sweeps move nothing the door   *)
(* counted (StandsStill), and the one lapsed hold it may count on is let   *)
(* go for the newcomer (OneHoldGoes); where the line has room, they leave  *)
(* it that room.                                                           *)
(***************************************************************************)
\* Whoever is ahead of the first is ahead of nobody: among the sets of those ahead one is least.
LEMMA SomebodyIsFirst ==
    ASSUME NEW S, IsFiniteSet(S), S \subseteq Nat, S # {}, NEW n \in Nat \ {0}, NEW key,
           \A p \in S : key[p] \in Nat
    PROVE  FirstOf(S, n, key) # {}
  <1> DEFINE ahead(p) == {q \in S : key[q] < key[p] \/ (key[q] = key[p] /\ q < p)}
             all == {ahead(p) : p \in S}
             R == StrictSubsetOrdering(S)
  <1>1. \A p \in S : ahead(p) \in SUBSET S /\ IsFiniteSet(ahead(p))
    BY FS_Subset
  <1>2. all \subseteq FiniteSubsetsOf(S) /\ all # {}
    BY <1>1 DEF FiniteSubsetsOf
  <1>3. IsWellFoundedOn(R, FiniteSubsetsOf(S))
    BY FS_StrictSubsetOrderingWellFounded
  <1>4. PICK D \in all : \A E \in all : <<E, D>> \notin R
    <2> HIDE DEF all, R
    <2> QED BY <1>2, <1>3, WFMin
  <1>5. PICK p \in S : D = ahead(p)
    OBVIOUS
  <1>6. ASSUME NEW q \in ahead(p)
        PROVE  FALSE
    <2>1. /\ q \in S /\ p \in Nat /\ q \in Nat /\ key[p] \in Nat /\ key[q] \in Nat
          /\ \A r \in S : r \in Nat /\ key[r] \in Nat
      OBVIOUS
    <2>2. q \notin ahead(q) /\ \A r \in ahead(q) : r \in ahead(p)
      BY <2>1
    <2>3. <<ahead(q), ahead(p)>> \in R
      BY <1>1, <2>1, <2>2 DEF StrictSubsetOrdering, FiniteSubsetsOf
    <2> QED BY <1>4, <1>5, <2>1, <2>3
  <1>7. Cardinality(ahead(p)) = 0
    BY <1>6, FS_EmptySet
  <1> QED BY <1>7 DEF FirstOf

\* Nobody waits, and what the door counted is counted as it was.
StandsStill(d, e, t) ==
    /\ e.ev = d.ev
    /\ Waiting(e) = {}
    /\ Taken(e, t) = Taken(d, t)
    /\ LapsedHolds(e, t) = LapsedHolds(d, t)

LEMMA StandsStillTwice ==
    ASSUME NEW d, NEW e, NEW f, NEW t, StandsStill(d, e, t), StandsStill(e, f, t)
    PROVE  StandsStill(d, f, t)
  BY DEF StandsStill

\* A row nobody counts: no place, no lapsed hold, nobody in the line.
Uncounted(d, p, t) ==
    ~RegTaken(d, p, t) /\ d.reg[p].status \notin {"PENDING_DECLARATION", "WAITLISTED"}

LEMMA RowsStandStill ==
    ASSUME NEW d, NEW e, NEW t, e.ev = d.ev, e.mail = d.mail, Waiting(d) = {},
           \A p \in Person : \/ e.reg[p] = d.reg[p]
                             \/ Uncounted(d, p, t) /\ Uncounted(e, p, t),
           \A p \in Person : Ahead(e.fam[p], t) <=> Ahead(d.fam[p], t),
           \A p \in Person : InvClaim(e.inv[p], t) <=> InvClaim(d.inv[p], t)
    PROVE  StandsStill(d, e, t)
  <1>1. ASSUME NEW p \in Person, e.reg[p] = d.reg[p]
        PROVE  RegTaken(e, p, t) <=> RegTaken(d, p, t)
    BY <1>1 DEF RegTaken, OpenOffer, OfferAwaitingItsFirstEmail, EmailQueued
  <1>2. \A p \in Person : RegTaken(e, p, t) <=> RegTaken(d, p, t)
    BY <1>1 DEF Uncounted
  <1>3. Taken(e, t) \subseteq Taken(d, t) /\ Taken(d, t) \subseteq Taken(e, t)
    BY <1>2, TakenWithin
  <1>4. Waiting(e) = {}
    BY DEF Waiting, WithStatus, Uncounted
  <1>5. ASSUME NEW p \in Person
        PROVE  p \in LapsedHolds(e, t) <=> p \in LapsedHolds(d, t)
    BY DEF LapsedHolds, WithStatus, Uncounted, AwaitingItsFirstEmail, EmailQueued
  <1>6. LapsedHolds(e, t) \subseteq Person /\ LapsedHolds(d, t) \subseteq Person
    BY DEF LapsedHolds, WithStatus
  <1> QED BY <1>3, <1>4, <1>5, <1>6 DEF StandsStill

LEMMA ClockStandsStill ==
    ASSUME NEW d, GoodRows(d), NEW t \in Time, ~Over(d, t), Waiting(d) = {}
    PROVE  StandsStill(d, ExpireByClock(d, t), t)
  <1> DEFINE e == ExpireByClock(d, t)
  <1>1. /\ e.ev = d.ev /\ e.mail = d.mail
        /\ \A p \in Person : e.reg[p] =
               IF OfferLapsed(d, p, t) THEN Moved(d.reg[p], "EXPIRED", None)
               ELSE IF ReservationLapsed(d, p, t) THEN [d.reg[p] EXCEPT !.hold = None]
               ELSE d.reg[p]
        /\ \A p \in Person : e.fam[p] = IF Past(d.fam[p], t) THEN None ELSE d.fam[p]
        /\ \A p \in Person : e.inv[p] =
               IF d.inv[p] # None /\ ~LiveInvitation(d, p, t) THEN None ELSE d.inv[p]
    BY DEF ExpireByClock, GoodRows, Database
  <1> HIDE DEF e
  <1>2. ASSUME NEW p \in Person
        PROVE  \/ e.reg[p] = d.reg[p]
               \/ Uncounted(d, p, t) /\ Uncounted(e, p, t)
    <2>1. d.reg[p] \in Registration
      BY RowsAre
    <2>2. CASE OfferLapsed(d, p, t)
      <3>1. d.reg[p].status = "WAITLIST_OFFERED" /\ ~OpenOffer(d, p, t)
        <4>1. /\ d.reg[p].status = "WAITLIST_OFFERED" /\ Past(d.reg[p].hold, t)
              /\ ~OfferAwaitingItsFirstEmail(d, p, t)
          BY <2>2 DEF OfferLapsed
        <4>2. ~Ahead(d.reg[p].hold, t)
          BY <2>1, <4>1, NoneAssumption DEF Past, Ahead, Registration, Deadline, Time
        <4> QED BY <4>1, <4>2 DEF OpenOffer
      <3>2. e.reg[p].status = "EXPIRED"
        BY <1>1, <2>1, <2>2 DEF Moved, Registration
      <3> QED BY <3>1, <3>2 DEF Uncounted, RegTaken, RegClaim
    <2>3. CASE ~OfferLapsed(d, p, t) /\ ReservationLapsed(d, p, t)
      <3>1. /\ d.reg[p].status = "PENDING_EMAIL_CONFIRMATION" /\ ~Ahead(d.reg[p].hold, t)
        BY <2>1, <2>3, NoneAssumption
           DEF ReservationLapsed, Past, Ahead, Registration, Deadline, Time
      <3>2. e.reg[p].status = d.reg[p].status /\ e.reg[p].hold = None
        BY <1>1, <2>1, <2>3 DEF Registration
      <3> QED BY <3>1, <3>2 DEF Uncounted, RegTaken, RegClaim, Ahead
    <2> QED BY <1>1, <2>2, <2>3
  <1>3. ASSUME NEW p \in Person
        PROVE  Ahead(e.fam[p], t) <=> Ahead(d.fam[p], t)
    <2>1. d.fam[p] \in Deadline \cup {None} /\ t \in Int
      BY DEF GoodRows, Database, Time
    <2>2. Past(d.fam[p], t) => ~Ahead(d.fam[p], t)
      BY <2>1, NoneAssumption DEF Past, Ahead, Deadline
    <2> QED BY <1>1, <2>2 DEF Ahead
  <1>4. ASSUME NEW p \in Person
        PROVE  InvClaim(e.inv[p], t) <=> InvClaim(d.inv[p], t)
    BY <1>1 DEF InvClaim, LiveInvitation
  <1>5. StandsStill(d, e, t)
    BY <1>1, <1>2, <1>3, <1>4, RowsStandStill
  <1> QED BY <1>5 DEF e

\* Nobody in the line, and no release at the deadline: a sweep lets no unsigned place go.
LEMMA ExpiredStandsStill ==
    ASSUME NEW d, GoodRows(d), NEW t \in Time, ~Over(d, t), ~ReleaseDue(d, t),
           d.ev.capacity # None, Waiting(d) = {}
    PROVE  StandsStill(d, Expired(d, t), t)
  <1> DEFINE c == ExpireByClock(d, t)
             lapsed == LapsedHolds(c, t)
             holds == [p \in Person |-> c.reg[p].hold]
  <1>1. GoodRows(c) /\ StandsStill(d, c, t)
    BY ExpireByClockGood, ClockStandsStill
  <1>2. /\ ~Over(c, t) /\ ~ReleaseDue(c, t) /\ c.ev.capacity # None
        /\ Cardinality(Waiting(c)) = 0
    BY <1>1, FS_EmptySet DEF StandsStill, Over, ReleaseDue
  <1> HIDE DEF c
  <1>3. LineRoom(c.ev, Occupied(c, t)) \in Int
    <2>1. c.ev.capacity \in Nat /\ KeptOf(c.ev) \in Nat
      BY <1>1, <1>2, CapacityRange, EntryCapacityRange
    <2> QED BY <2>1, TakenFinite DEF LineRoom
  <1>4. IsFiniteSet(lapsed) /\ Cardinality(lapsed) \in Nat
    <2>1. lapsed \in SUBSET Person
      BY DEF LapsedHolds, WithStatus
    <2> QED BY <2>1, PersonAssumption, FS_Subset, FS_CardinalityType
  <1> DEFINE wanted == WantedLapsedHoldReleases(Cardinality(lapsed), 0,
                           Greatest(LineRoom(c.ev, Occupied(c, t)), 0))
  <1>5. wanted = 0
    BY <1>3, <1>4 DEF WantedLapsedHoldReleases, Least, Greatest
  <1>6. HoldsToRelease(c, t, 0, "staff") = FirstOf(lapsed, wanted, holds)
    BY <1>2 DEF HoldsToRelease
  <1>7. FirstOf(lapsed, 0, holds) = {}
    <2>1. ASSUME NEW p \in lapsed, NEW A \in SUBSET lapsed, Cardinality(A) < 0
          PROVE  FALSE
      BY <1>4, <2>1, FS_Subset, FS_CardinalityType
    <2> HIDE DEF lapsed, holds
    <2>2. \A p \in FirstOf(lapsed, 0, holds) :
              p \in lapsed /\ \E A \in SUBSET lapsed : Cardinality(A) < 0
      BY DEF FirstOf
    <2> QED BY <2>1, <2>2
  <1>8. HoldsToRelease(c, t, 0, "staff") = {}
    BY <1>5, <1>6, <1>7
  <1> HIDE DEF wanted, lapsed, holds
  <1>9. Expired(d, t) = ReleaseHolds(c, {})
    BY <1>8 DEF Expired, ExpireStaleHolds, ReleaseWanted, c
  <1> DEFINE e == ReleaseHolds(c, {})
  <1>10. /\ e.ev = c.ev /\ e.mail = c.mail /\ e.fam = c.fam /\ e.inv = c.inv
         /\ \A p \in Person : e.reg[p] = c.reg[p]
    BY <1>1 DEF ReleaseHolds, GoodRows, Database
  <1> HIDE DEF e
  <1>11. Waiting(c) = {}
    BY <1>1 DEF StandsStill
  <1>12. StandsStill(c, e, t)
    BY <1>10, <1>11, RowsStandStill
  <1> QED BY <1>1, <1>9, <1>12, StandsStillTwice DEF e

LEMMA ServedStandsStill ==
    ASSUME NEW d, GoodRows(d), NEW t \in Time, ~Over(d, t), ~ReleaseDue(d, t),
           d.ev.capacity # None, Waiting(d) = {}
    PROVE  StandsStill(d, Served(d, t), t)
  <1> DEFINE once == Expired(d, t)
             twice == Expired(once, t)
             e == OfferPlaces(twice, t)
  <1>1. GoodRows(once) /\ StandsStill(d, once, t)
    BY ExpiredGood, ExpiredStandsStill
  <1>2. /\ ~Over(once, t) /\ ~ReleaseDue(once, t) /\ once.ev.capacity # None
        /\ Waiting(once) = {} /\ once.ev = d.ev
    BY <1>1 DEF StandsStill, Over, ReleaseDue
  <1> HIDE DEF once
  <1>3. GoodRows(twice) /\ StandsStill(once, twice, t)
    BY <1>1, <1>2, ExpiredGood, ExpiredStandsStill
  <1> HIDE DEF twice
  <1>4. StandsStill(twice, e, t)
    <2>1. NextInLine(twice, t) = {} /\ Waiting(twice) = {}
      BY <1>3, NextInLineWaits DEF StandsStill
    <2> DEFINE hold == WaitlistOfferExpiry(t, CloseAt)
    <2>2. ASSUME NEW f, f = OfferTo(twice, {}, t)
          PROVE  StandsStill(twice, f, t)
      <3> DEFINE g == Offered(twice, {}, hold)
      <3>1. /\ g.ev = twice.ev /\ g.mail = twice.mail /\ g.fam = twice.fam /\ g.inv = twice.inv
            /\ \A p \in Person : g.reg[p] = twice.reg[p]
        BY <1>3 DEF Offered, GoodRows, Database
      <3>2. GoodRows(g)
        <4>1. hold \in Deadline
          BY HoldsEndByTheStart, DeadlineRange
        <4> QED BY <1>3, <4>1, OfferedGood
      <3> HIDE DEF g
      <3>3. f = Queued(g, {}, "offer", t)
        BY <2>2 DEF OfferTo, g
      <3>4. f.ev = g.ev /\ f.reg = g.reg /\ f.fam = g.fam /\ f.inv = g.inv /\ f.mail = g.mail
        BY <3>2, <3>3 DEF Queued, GoodRows, Database
      <3> QED BY <2>1, <3>1, <3>4, RowsStandStill
    <2>3. StandsStill(twice, twice, t)
      BY <2>1 DEF StandsStill
    <2> QED BY <2>1, <2>2, <2>3 DEF OfferPlaces
  <1>5. Served(d, t) \in {e, once}
    BY DEF Served, FillAvailableSpots, e, twice, once
  <1> HIDE DEF e
  <1> QED BY <1>1, <1>3, <1>4, <1>5, StandsStillTwice

\* A newcomer who wants a place, all those announced being taken: one lapsed hold goes.
LEMMA OneHoldGoes ==
    ASSUME NEW d, GoodRows(d), NEW t \in Time, ~Over(d, t), ~ReleaseDue(d, t),
           d.ev.capacity # None, Waiting(d) = {}, LapsedHolds(d, t) # {},
           LineRoom(d.ev, Occupied(d, t)) = 0
    PROVE  Occupied(ExpireStaleHolds(d, t, 1, "public"), t) < Occupied(d, t)
  <1> DEFINE c == ExpireByClock(d, t)
             lapsed == LapsedHolds(c, t)
             holds == [p \in Person |-> c.reg[p].hold]
             wanted == WantedLapsedHoldReleases(Cardinality(lapsed), 1, 0)
             gone == HoldsToRelease(c, t, 1, "public")
             e == ReleaseHolds(c, gone)
  <1>1. GoodRows(c) /\ StandsStill(d, c, t)
    BY ExpireByClockGood, ClockStandsStill
  <1>2. /\ ~Over(c, t) /\ ~ReleaseDue(c, t) /\ c.ev.capacity # None
        /\ Cardinality(Waiting(c)) = 0
        /\ LineRoom(c.ev, Occupied(c, t)) = 0 /\ Occupied(c, t) = Occupied(d, t)
        /\ LapsedHolds(c, t) # {}
    BY <1>1, FS_EmptySet DEF StandsStill, Over, ReleaseDue, Occupied
  <1>3. ExpireStaleHolds(d, t, 1, "public") = e
    BY DEF ExpireStaleHolds, ReleaseWanted
  <1> HIDE DEF c
  <1>4. /\ lapsed \in SUBSET Person /\ lapsed # {} /\ IsFiniteSet(lapsed)
        /\ Cardinality(lapsed) \in Nat /\ Cardinality(lapsed) # 0
    <2>1. lapsed \in SUBSET Person /\ lapsed # {}
      BY <1>2 DEF LapsedHolds, WithStatus
    <2> HIDE DEF lapsed
    <2> QED BY <2>1, PersonAssumption, FS_Subset, FS_CardinalityType, FS_EmptySet
  <1>5. gone = FirstOf(lapsed, wanted, holds)
    <2>1. ~KeptPlacesInUse(c.ev, Occupied(c, t))
      BY <1>2 DEF KeptPlacesInUse
    <2>2. Greatest(0, 0) = 0
      BY DEF Greatest
    <2> QED BY <1>2, <2>1, <2>2 DEF HoldsToRelease
  <1>6. wanted = 1
    BY <1>4 DEF WantedLapsedHoldReleases, Least, Greatest
  <1>7. gone # {} /\ gone \subseteq lapsed
    <2>1. \A p \in lapsed : holds[p] \in Nat
      <3> TAKE p \in lapsed
      <3>1. p \in Person /\ c.reg[p].hold # None
        BY DEF LapsedHolds, WithStatus, Past
      <3>2. c.reg[p].hold \in Deadline
        BY <1>1, <3>1, RowsAre DEF Registration
      <3> QED BY <3>1, <3>2 DEF Deadline
    <2>2. lapsed \subseteq Nat
      BY <1>4, PersonAssumption
    <2>3. wanted \in Nat \ {0}
      BY <1>6
    <2> HIDE DEF lapsed, holds, wanted
    <2>4. FirstOf(lapsed, wanted, holds) # {}
      BY <1>4, <2>1, <2>2, <2>3, SomebodyIsFirst
    <2> QED BY <1>5, <2>4 DEF FirstOf
  <1>8. PICK q \in gone : TRUE
    BY <1>7
  <1>9. /\ q \in Person /\ c.reg[q].status = "PENDING_DECLARATION" /\ ~c.reg[q].outside
    BY <1>7, <1>8 DEF LapsedHolds, WithStatus
  <1> HIDE DEF gone
  <1>10. /\ e.mail = c.mail /\ e.fam = c.fam /\ e.inv = c.inv
         /\ \A p \in Person : e.reg[p] =
                IF p \in gone THEN [Moved(c.reg[p], "EXPIRED", None) EXCEPT !.late = TRUE]
                ELSE c.reg[p]
    BY <1>1 DEF ReleaseHolds, GoodRows, Database
  <1> HIDE DEF e
  <1>11. \A p \in gone : p \in Person => e.reg[p].status = "EXPIRED"
    <2> SUFFICES ASSUME NEW p \in gone, p \in Person PROVE e.reg[p].status = "EXPIRED"
      OBVIOUS
    <2>1. c.reg[p] \in Registration
      BY <1>1, RowsAre
    <2> QED BY <1>10, <2>1 DEF Moved, Registration
  <1>12. ASSUME NEW p \in Person, RegTaken(e, p, t)
         PROVE  RegTaken(c, p, t) /\ p \notin gone
    <2>1. p \notin gone
      BY <1>11, <1>12 DEF RegTaken, RegClaim
    <2>2. e.reg[p] = c.reg[p]
      BY <1>10, <2>1
    <2> QED BY <1>10, <1>12, <2>1, <2>2
            DEF RegTaken, OpenOffer, OfferAwaitingItsFirstEmail, EmailQueued
  <1>13. Taken(e, t) \subseteq Taken(c, t)
    BY <1>10, <1>12, TakenWithin
  <1>14. /\ <<"registration", q>> \in Taken(c, t) /\ <<"registration", q>> \notin Taken(e, t)
    BY <1>8, <1>9, <1>12, TakenAre DEF RegTaken, RegClaim
  <1>15. Cardinality(Taken(e, t)) < Cardinality(Taken(c, t))
    <2>1. Taken(e, t) \subseteq Taken(c, t) \ {<<"registration", q>>}
      BY <1>13, <1>14
    <2>2. /\ IsFiniteSet(Taken(c, t) \ {<<"registration", q>>})
          /\ Cardinality(Taken(c, t) \ {<<"registration", q>>}) = Cardinality(Taken(c, t)) - 1
      BY <1>14, TakenFinite, FS_RemoveElement
    <2>3. /\ Cardinality(Taken(e, t)) <= Cardinality(Taken(c, t) \ {<<"registration", q>>})
          /\ Cardinality(Taken(e, t)) \in Nat /\ Cardinality(Taken(c, t)) \in Nat
      BY <2>1, <2>2, TakenFinite, FS_Subset DEF Occupied
    <2> QED BY <2>2, <2>3
  <1> QED BY <1>2, <1>3, <1>15 DEF Occupied

\* What the form writes first, and the allocator's opening, leave what the door counted.
LEMMA NewcomerStandsStill ==
    ASSUME NEW d, GoodRows(d), NEW t \in Time, NEW p \in Person, MayEnter(d, p),
           d.fam[p] = None, Waiting(d) = {},
           NEW e, e = Claiming(WithForm(d, p, t, FALSE), p, FALSE)
    PROVE  StandsStill(d, e, t)
  <1> DEFINE r == [Absent EXCEPT !.status = "PENDING_EMAIL_CONFIRMATION",
                                 !.link = t + LinkTime, !.staff = FALSE]
             f == WithForm(d, p, t, FALSE)
  <1>1. GoodRows(f) /\ f = [d EXCEPT !.reg[p] = r]
    BY WithFormGood DEF WithForm
  <1>2. /\ f.ev = d.ev /\ f.mail = d.mail /\ f.fam = d.fam /\ f.inv = d.inv
        /\ f.reg[p] = r /\ \A q \in Person \ {p} : f.reg[q] = d.reg[q]
    <2> HIDE DEF r, f
    <2> QED BY <1>1, RowReplaced
  <1>3. r.status = "PENDING_EMAIL_CONFIRMATION" /\ r.hold = None
    BY DEF Absent
  <1> HIDE DEF f, r
  <1>4. /\ e.ev = f.ev /\ e.mail = f.mail /\ e.inv = f.inv
        /\ \A q \in Person : e.fam[q] = IF q = p THEN None ELSE f.fam[q]
        /\ \A q \in Person \ {p} : e.reg[q] = f.reg[q]
        /\ e.reg[p].status = f.reg[p].status /\ e.reg[p].hold = f.reg[p].hold
    <2> DEFINE outside == f.reg[p].outside \/ (FALSE /\ f.inv[p].outside)
    <2>1. e = Claiming(f, p, FALSE)
      BY DEF f
    <2>2. /\ e.ev = f.ev /\ e.inv = f.inv /\ e.mail = f.mail
          /\ e.fam = [f.fam EXCEPT ![p] = None]
          /\ e.reg = [f.reg EXCEPT ![p] = [f.reg[p] EXCEPT !.outside = outside]]
      BY <1>1, <2>1 DEF Claiming, GoodRows, Database
    <2>3. f.reg[p] \in Registration /\ f.reg \in [Person -> Registration]
          /\ f.fam \in [Person -> Deadline \cup {None}]
      BY <1>1 DEF GoodRows, Database
    <2> HIDE DEF outside
    <2>4. e.reg[p] = [f.reg[p] EXCEPT !.outside = outside]
      BY <2>2, <2>3
    <2>5. e.reg[p].status = f.reg[p].status /\ e.reg[p].hold = f.reg[p].hold
      BY <2>3, <2>4 DEF Registration
    <2> QED BY <2>2, <2>3, <2>5
  <1>5. Uncounted(d, p, t) /\ Uncounted(e, p, t)
    <2>1. d.reg[p].status \in Terminal \cup {"ABSENT"}
      BY DEF MayEnter
    <2> QED BY <1>2, <1>3, <1>4, <2>1 DEF Uncounted, RegTaken, RegClaim, Terminal, Ahead
  <1>6. \A q \in Person : e.reg[q] = d.reg[q] \/ (Uncounted(d, q, t) /\ Uncounted(e, q, t))
    BY <1>2, <1>4, <1>5
  <1>7. \A q \in Person : Ahead(e.fam[q], t) <=> Ahead(d.fam[q], t)
    BY <1>2, <1>4 DEF Ahead
  <1> QED BY <1>2, <1>4, <1>6, <1>7, RowsStandStill

\* Where the line has room it has room still: nothing lets anybody into it.
LEMMA RoomIsLeft ==
    ASSUME NEW d, NEW e, NEW t, GoodRows(d), e.ev.waitCap = d.ev.waitCap,
           \A p \in Person : StandsInLine(e, p, t) => StandsInLine(d, p, t),
           LineTakesOneMore(d, t)
    PROVE  LineTakesOneMore(e, t)
  <1>1. Line(e, t) \in SUBSET Line(d, t)
    BY DEF Line
  <1>2. Cardinality(Line(e, t)) <= Cardinality(Line(d, t))
    BY <1>1, LineFinite, FS_Subset
  <1> QED BY <1>2, LineFinite, LineIsCounted, LimitRange DEF LineTakesOneMore, LineHasRoom

LEMMA NewcomerFindsRoom ==
    ASSUME NEW d, GoodRows(d), NEW t \in Time, NEW p \in Person, LineTakesOneMore(d, t),
           NEW e, e = Claiming(WithForm(d, p, t, FALSE), p, FALSE)
    PROVE  LineTakesOneMore(Served(e, t), t)
  <1> DEFINE r == [Absent EXCEPT !.status = "PENDING_EMAIL_CONFIRMATION",
                                 !.link = t + LinkTime, !.staff = FALSE]
             f == WithForm(d, p, t, FALSE)
             g == Served(e, t)
  <1>1. GoodRows(f) /\ f = [d EXCEPT !.reg[p] = r]
    BY WithFormGood DEF WithForm
  <1>2. /\ f.ev = d.ev /\ f.mail = d.mail
        /\ f.reg[p] = r /\ \A q \in Person \ {p} : f.reg[q] = d.reg[q]
    <2> HIDE DEF r, f
    <2> QED BY <1>1, RowReplaced
  <1>3. r.status = "PENDING_EMAIL_CONFIRMATION"
    BY DEF Absent
  <1>4. ~StandsInLine(f, p, t)
    BY <1>2, <1>3 DEF StandsInLine, OpenOffer
  <1>5. \A q \in Person \ {p} : StandsInLine(f, q, t) => StandsInLine(d, q, t)
    BY <1>2 DEF StandsInLine, OpenOffer, OfferAwaitingItsFirstEmail, EmailQueued
  <1> HIDE DEF f, r
  <1>6. /\ GoodRows(e) /\ e.ev = f.ev /\ e.mail = f.mail
        /\ \A q \in Person \ {p} : e.reg[q] = f.reg[q]
        /\ e.reg[p].status = f.reg[p].status
    <2> DEFINE outside == f.reg[p].outside \/ (FALSE /\ f.inv[p].outside)
    <2>1. e = Claiming(f, p, FALSE)
      BY DEF f
    <2>2. GoodRows(e)
      <3> DEFINE no == FALSE
      <3>1. e = Claiming(f, p, no) /\ no \in BOOLEAN /\ (no => f.inv[p] # None)
        BY <2>1
      <3> HIDE DEF no
      <3> QED BY <1>1, <3>1, ClaimingGood
    <2>3. /\ e.ev = f.ev /\ e.mail = f.mail
          /\ e.reg = [f.reg EXCEPT ![p] = [f.reg[p] EXCEPT !.outside = outside]]
      BY <1>1, <2>1 DEF Claiming, GoodRows, Database
    <2>4. f.reg[p] \in Registration /\ f.reg \in [Person -> Registration]
      BY <1>1 DEF GoodRows, Database
    <2> HIDE DEF outside
    <2>5. /\ e.reg[p] = [f.reg[p] EXCEPT !.outside = outside]
          /\ \A q \in Person \ {p} : e.reg[q] = f.reg[q]
      BY <2>3, <2>4
    <2>6. e.reg[p].status = f.reg[p].status
      BY <2>4, <2>5 DEF Registration
    <2> QED BY <2>2, <2>3, <2>5, <2>6
  <1>7. \A q \in Person : StandsInLine(e, q, t) => StandsInLine(d, q, t)
    <2>1. ~StandsInLine(e, p, t)
      <3>1. e.reg[p].status = "PENDING_EMAIL_CONFIRMATION"
        BY <1>2, <1>3, <1>6
      <3> QED BY <3>1 DEF StandsInLine, OpenOffer
    <2>2. \A q \in Person \ {p} : StandsInLine(e, q, t) => StandsInLine(f, q, t)
      BY <1>6 DEF StandsInLine, OpenOffer, OfferAwaitingItsFirstEmail, EmailQueued
    <2> QED BY <1>5, <2>1, <2>2
  <1>8. Keeps(e, g, t)
    BY <1>6, ServedKeeps
  <1> HIDE DEF g
  <1>9. /\ g.ev.waitCap = d.ev.waitCap
        /\ \A q \in Person : StandsInLine(g, q, t) => StandsInLine(d, q, t)
    BY <1>2, <1>6, <1>7, <1>8 DEF Keeps
  <1>10. LineTakesOneMore(g, t)
    BY <1>9, RoomIsLeft
  <1> QED BY <1>10 DEF g

\* The door lets a newcomer in only where the allocator, having served the line, has a place for
\* them, or room in the line, or one lapsed hold to let go: more than one it never needs, for
\* the claims are within the capacity.
LEMMA LetInIsAdmitted ==
    ASSUME GoodRows(db), now \in Time, NoOverbooking, db.ev.capacity # None, NEW p \in Person
    PROVE  ~LetInInVain(p)
  <1> SUFFICES ASSUME RegistrationOpen(db, now), ~ReleaseDue(db, now), Newcomer(p),
                      WaitlistCanTakeOneMore(db, now, "public")
               PROVE  Admits(p)
    BY DEF LetInInVain
  <1> DEFINE how == Entry("public")
             form == WithForm(db, p, now, FALSE)
             mine == Claiming(form, p, FALSE)
             s == Served(mine, now)
             after == ExpireStaleHolds(s, now, 1, "public")
             adopts == ~how.invited /\ Adopts(form, p, now)
             direct == adopts \/ HasOwnPlace(Claiming(form, p, adopts), p, now, how)
             occupied == Occupied(db, now)
             announced == CapacityForEntry(db.ev, "public")
  <1>1. how.channel = "public"
    BY DEF Entry
  <1>2. /\ (direct \/ FreeFor(s, now, "public") \/ LineTakesOneMore(s, now)
            \/ FreeAfterRelease(s, after, now, "public"))
        => Admits(p)
    <2>1. Allocated(form, p, now, how)
          = PlacedOrQueued(Served(Claiming(form, p, adopts), now), p, now, how, direct, adopts)
      BY DEF Allocated
    <2>2. Admits(p) <=> Allocated(form, p, now, how) # {}
      BY DEF Admits
    <2> HIDE DEF form, how, direct
    <2>3. ASSUME NEW a, NEW b
          PROVE  /\ direct => PlacedOrQueued(a, p, now, how, direct, b) # {}
                 /\ (\/ FreeFor(a, now, "public") \/ LineTakesOneMore(a, now)
                     \/ FreeAfterRelease(a, ExpireStaleHolds(a, now, 1, "public"), now, "public"))
                    => PlacedOrQueued(a, p, now, how, direct, b) # {}
      BY <1>1 DEF PlacedOrQueued, PlaceOfLapsedHold
    <2>4. CASE direct
      BY <2>1, <2>2, <2>3, <2>4
    <2>5. CASE ~direct
      <3>1. adopts = FALSE
        BY <2>5 DEF direct
      <3>2. Allocated(form, p, now, how) = PlacedOrQueued(s, p, now, how, direct, FALSE)
        BY <2>1, <3>1
      <3> QED BY <2>2, <2>3, <2>5, <3>2
    <2> QED BY <2>4, <2>5
  <1>3. CASE LineHasRoom(db.ev, Cardinality(Waiting(db)), OpenOffers(db, now))
    <2>1. LineTakesOneMore(db, now)
      BY <1>3 DEF LineTakesOneMore
    <2>2. LineTakesOneMore(s, now)
      BY <2>1, NewcomerFindsRoom
    <2> QED BY <1>2, <2>2
  <1>4. CASE ~LineHasRoom(db.ev, Cardinality(Waiting(db)), OpenOffers(db, now))
    <2> DEFINE inUse == KeptPlacesInUse(db.ev, occupied)
               lapsed == LapsedHolds(db, now)
    <2>1. /\ occupied \in Nat /\ Cardinality(lapsed) \in Nat /\ Cardinality(Waiting(db)) \in Nat
          /\ db.ev \in StoredEvent /\ announced \in Nat /\ announced # None
          /\ announced = db.ev.capacity - KeptOf(db.ev)
          /\ db.ev.capacity \in Nat /\ KeptOf(db.ev) \in Nat
      <3>1. lapsed \in SUBSET Person
        BY DEF LapsedHolds, WithStatus
      <3>2. Cardinality(lapsed) \in Nat
        BY <3>1, PersonAssumption, FS_Subset, FS_CardinalityType
      <3>3. announced = db.ev.capacity - KeptOf(db.ev)
        BY DEF CapacityForEntry
      <3> QED BY <3>2, <3>3, TakenFinite, WaitingIsCounted, CapacityRange, EntryCapacityRange,
                 NoneAssumption
    <2>2. /\ ~NewcomerJoinsLine(db.ev, Cardinality(Waiting(db)), "public")
          /\ announced - (IF inUse THEN occupied ELSE occupied - Cardinality(lapsed))
             - Cardinality(Waiting(db)) > 0
      <3> DEFINE counted == IF inUse THEN occupied ELSE occupied - Cardinality(lapsed)
      <3>1. /\ ~NewcomerJoinsLine(db.ev, Cardinality(Waiting(db)), "public")
            /\ HasDirectAvailability(announced, counted, Cardinality(Waiting(db)))
        <4>1. CASE inUse
          BY <1>4, <4>1 DEF WaitlistCanTakeOneMore, OccupiedForNewcomer
        <4>2. CASE ~inUse
          BY <1>4, <4>2 DEF WaitlistCanTakeOneMore, OccupiedForNewcomer
        <4> QED BY <4>1, <4>2
      <3> HIDE DEF occupied, announced, counted
      <3>2. announced - counted - Cardinality(Waiting(db)) > 0
        BY <2>1, <3>1 DEF HasDirectAvailability
      <3> QED BY <3>1, <3>2 DEF counted
    <2>3. Cardinality(Waiting(db)) = 0 /\ ~PublicEntryQueues(db.ev, "public")
      BY <2>1, <2>2 DEF NewcomerJoinsLine
    <2>4. Waiting(db) = {}
      <3>1. Waiting(db) \in SUBSET Person
        BY DEF Waiting, WithStatus
      <3> QED BY <2>3, <3>1, PersonAssumption, FS_Subset, FS_EmptySet
    <2>5. ~Over(db, now)
      BY DatesAssumption DEF RegistrationOpen, Over, Time
    <2>6. GoodRows(mine) /\ StandsStill(db, mine, now)
      <3>1. MayEnter(db, p) /\ db.fam[p] = None
        BY DEF Newcomer
      <3>2. StandsStill(db, mine, now)
        BY <2>4, <3>1, NewcomerStandsStill
      <3>3. GoodRows(form)
        BY WithFormGood
      <3> HIDE DEF form
      <3> DEFINE no == FALSE
      <3>4. mine = Claiming(form, p, no) /\ no \in BOOLEAN /\ (no => form.inv[p] # None)
        OBVIOUS
      <3> HIDE DEF no, mine
      <3>5. GoodRows(mine)
        BY <3>3, <3>4, ClaimingGood
      <3> QED BY <3>2, <3>5 DEF mine
    <2> HIDE DEF mine
    <2>7. GoodRows(s) /\ StandsStill(db, s, now)
      <3>1. /\ ~Over(mine, now) /\ ~ReleaseDue(mine, now) /\ mine.ev.capacity # None
            /\ Waiting(mine) = {}
        BY <2>5, <2>6 DEF StandsStill, Over, ReleaseDue
      <3>2. GoodRows(s) /\ StandsStill(mine, s, now)
        BY <2>6, <3>1, ServedGood, ServedStandsStill
      <3> QED BY <2>6, <3>2, StandsStillTwice
    <2> HIDE DEF s
    <2>8. /\ s.ev = db.ev /\ Waiting(s) = {} /\ Cardinality(Waiting(s)) = 0
          /\ Occupied(s, now) = occupied /\ LapsedHolds(s, now) = lapsed
          /\ ~NewcomerJoinsLine(s.ev, 0, "public") /\ ~PublicEntryQueues(s.ev, "public")
      BY <2>2, <2>3, <2>7, FS_EmptySet DEF StandsStill, Occupied
    <2>9. CASE announced - occupied > 0
      <3>1. FreeFor(s, now, "public")
        <4> HIDE DEF occupied, announced, lapsed
        <4>1. CapacityForEntry(s.ev, "public") = announced
          BY <2>8 DEF announced
        <4> QED BY <2>1, <2>8, <2>9, <4>1 DEF FreeFor, HasDirectAvailability
      <3> QED BY <1>2, <3>1
    <2>10. CASE ~(announced - occupied > 0)
      <3> HIDE DEF occupied, announced
      <3>1. ~inUse /\ Cardinality(lapsed) > 0
        BY <2>1, <2>2, <2>3, <2>10
      <3>2. lapsed # {}
        BY <3>1, FS_EmptySet
      <3>3. LineRoom(db.ev, occupied) = announced - occupied
        BY <2>1 DEF LineRoom
      <3>4. LineRoom(db.ev, occupied) = 0
        <4>1. occupied <= db.ev.capacity
          <5>1. occupied <= Cardinality(Claims(db, now))
            BY TakenFinite, ClaimsFinite, FS_Subset DEF Occupied, occupied
          <5> QED BY <2>1, <5>1, ClaimsFinite DEF NoOverbooking
        <4>2. KeptOf(db.ev) = 0 \/ LineRoom(db.ev, occupied) >= 0
          BY <2>1, <3>1, <3>3 DEF KeptPlacesInUse
        <4> QED BY <2>1, <2>10, <3>3, <4>1, <4>2
      <3>5. Occupied(after, now) < occupied
        <4>1. /\ ~Over(s, now) /\ ~ReleaseDue(s, now) /\ s.ev.capacity # None
              /\ LapsedHolds(s, now) # {} /\ LineRoom(s.ev, Occupied(s, now)) = 0
          BY <2>5, <2>8, <3>2, <3>4 DEF Over, ReleaseDue
        <4> QED BY <2>7, <2>8, <4>1, OneHoldGoes
      <3>6. FreeAfterRelease(s, after, now, "public")
        <4>1. Occupied(after, now) \in Nat
          BY TakenFinite
        <4>2. announced - Occupied(after, now) > 0
          BY <2>1, <3>3, <3>4, <3>5, <4>1
        <4>3. CapacityForEntry(s.ev, "public") = announced
          BY <2>8 DEF announced
        <4> HIDE DEF after, lapsed
        <4> QED BY <2>1, <2>8, <3>2, <4>1, <4>2, <4>3 DEF FreeAfterRelease, HasDirectAvailability
      <3> QED BY <1>2, <3>6
    <2> QED BY <2>9, <2>10
  <1> QED BY <1>3, <1>4

\* The door's answer is the allocator's: wherever the editor posts no capacity below the stored
\* one, whatever was swept or not, nobody is let in by the look without the lock
\* (assertWaitlistCanTakeOneMore) whom allocateOrWaitlist would refuse at that instant - while
\* the event has a cap and the deadline's release is not pending.
THEOREM DoorNeverAdmitsInVainHolds ==
    ASSUME ~EditorMayLower
    PROVE  Spec => []DoorNeverAdmitsInVain
  <1>1. TypeOK /\ NoOverbooking => DoorNeverAdmitsInVain
    BY LetInIsAdmitted DEF TypeOK, DoorNeverAdmitsInVain
  <1> QED BY <1>1, TypeCorrect, NoOverbookingHolds, PTL

=============================================================================
