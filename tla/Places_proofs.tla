--------------------------- MODULE Places_proofs ----------------------------
(***************************************************************************)
(* Counted places, for every value of the constants.  While the editor     *)
(* never posts a capacity below the stored one, no order of transactions,  *)
(* sends and ticks promises more places than the event has; and whatever   *)
(* the editor does, no entry through the site and no sweep takes the count *)
(* past what is announced.                                                 *)
(*                                                                         *)
(* The claims of a database are a finite set.  The sweeps only take claims *)
(* away; the line is offered no more places than there are; everything else*)
(* that gives one either counted, and found room for one claim more, or    *)
(* puts a claim in the place of another.  Each lemma therefore speaks of a *)
(* number n of places which covers what was counted before and what the    *)
(* channel may take; the theorems choose n.                                *)
(***************************************************************************)
EXTENDS Allocation_proofs, FiniteSetTheorems

-----------------------------------------------------------------------------
(***************************************************************************)
(* Claims.                                                                 *)
(***************************************************************************)
RegClaim(r, t) ==
    /\ ~r.outside
    /\ \/ r.status \in {"CONFIRMED", "PENDING_DECLARATION", "WAITLIST_OFFERED"}
       \/ r.status = "PENDING_EMAIL_CONFIRMATION" /\ Ahead(r.hold, t)

InvClaim(i, t) == i # None /\ i.until > t /\ ~i.outside

LEMMA OneElementMore ==
    ASSUME NEW S, NEW x, IsFiniteSet(S)
    PROVE  IsFiniteSet(S \cup {x}) /\ Cardinality(S \cup {x}) <= Cardinality(S) + 1
  <1>1. /\ IsFiniteSet(S \cup {x})
        /\ Cardinality(S \cup {x}) = IF x \in S THEN Cardinality(S) ELSE Cardinality(S) + 1
    BY FS_AddElement
  <1>2. Cardinality(S) \in Nat
    BY FS_CardinalityType
  <1> QED BY <1>1, <1>2

LEMMA ClaimsAre ==
    ASSUME NEW d, NEW t, NEW p \in Person
    PROVE  /\ <<"registration", p>> \in Claims(d, t) <=> RegClaim(d.reg[p], t)
           /\ <<"family", p>> \in Claims(d, t) <=> Ahead(d.fam[p], t)
           /\ <<"invitation", p>> \in Claims(d, t) <=> InvClaim(d.inv[p], t)
  BY DEF Claims, RegClaim, InvClaim, HoldsFamilyReservation, LiveInvitation

LEMMA ClaimsRange ==
    ASSUME NEW d, NEW t
    PROVE  Claims(d, t) \subseteq {"registration", "family", "invitation"} \X Person
  BY DEF Claims

LEMMA ClaimsFinite ==
    ASSUME NEW d, NEW t
    PROVE  IsFiniteSet(Claims(d, t)) /\ Cardinality(Claims(d, t)) \in Nat
  <1> DEFINE kinds == {"registration", "family", "invitation"}
  <1>1. IsFiniteSet(kinds)
    <2>1. IsFiniteSet({"registration"})
      BY FS_Singleton
    <2>2. IsFiniteSet({"registration"} \cup {"family"})
      BY <2>1, FS_AddElement
    <2>3. IsFiniteSet(({"registration"} \cup {"family"}) \cup {"invitation"})
      BY <2>2, FS_AddElement
    <2>4. kinds = ({"registration"} \cup {"family"}) \cup {"invitation"}
      OBVIOUS
    <2> QED BY <2>3, <2>4
  <1> HIDE DEF kinds
  <1>2. IsFiniteSet(kinds \X Person)
    BY <1>1, FS_Product, PersonAssumption
  <1>3. Claims(d, t) \in SUBSET (kinds \X Person)
    BY ClaimsRange DEF kinds
  <1>4. IsFiniteSet(Claims(d, t))
    BY <1>2, <1>3, FS_Subset
  <1> QED BY <1>4, FS_CardinalityType

\* A database has no claims but those of another, and some named ones.
LEMMA ClaimsWithin ==
    ASSUME NEW d, NEW e, NEW t, NEW X,
           \A p \in Person : RegClaim(e.reg[p], t) => RegClaim(d.reg[p], t) \/ <<"registration", p>> \in X,
           \A p \in Person : Ahead(e.fam[p], t) => Ahead(d.fam[p], t) \/ <<"family", p>> \in X,
           \A p \in Person : InvClaim(e.inv[p], t) => InvClaim(d.inv[p], t) \/ <<"invitation", p>> \in X
    PROVE  Claims(e, t) \subseteq Claims(d, t) \cup X
  <1> SUFFICES ASSUME NEW c \in Claims(e, t) PROVE c \in Claims(d, t) \cup X
    OBVIOUS
  <1>1. PICK kind \in {"registration", "family", "invitation"}, p \in Person : c = <<kind, p>>
    BY ClaimsRange
  <1> QED BY <1>1, ClaimsAre

-----------------------------------------------------------------------------
(***************************************************************************)
(* Fitting in a number of places: the whole capacity, or what is announced.*)
(***************************************************************************)
SamePlaces(ev, before) == ev.capacity = before.capacity /\ ev.kept = before.kept

\* The places are those of ev, and no more than n of them are claimed.
Fits(d, t, ev, n) ==
    SamePlaces(d.ev, ev) /\ (ev.capacity = None \/ Cardinality(Claims(d, t)) <= n)

\* ... with one claim to spare.
RoomForOne(d, t, ev, n) ==
    SamePlaces(d.ev, ev) /\ (ev.capacity = None \/ Cardinality(Claims(d, t)) < n)

\* ... as the allocator counts them, an offer that lapsed left out.
Held(d, t, ev, n) == SamePlaces(d.ev, ev) /\ (ev.capacity = None \/ Occupied(d, t) <= n)

\* An entry of the channel, counted against what it may take, leaves no more than n.
Allowed(ev, channel, n) == ev.capacity = None \/ CapacityForEntry(ev, channel) <= n

\* No offer lapsed unswept: the allocator's count is then that of the claims.
AllOpen(d, t) ==
    \A p \in Person : d.reg[p].status = "WAITLIST_OFFERED" => OpenOffer(d, p, t)

LEMMA TakenIsClaimed ==
    ASSUME NEW d, NEW t, AllOpen(d, t)
    PROVE  Occupied(d, t) = Cardinality(Claims(d, t))
  <1>1. Taken(d, t) = Claims(d, t)
    BY DEF Taken, Claims, AllOpen, OpenOffer
  <1> QED BY <1>1 DEF Occupied

LEMMA TakenFinite ==
    ASSUME NEW d, NEW t
    PROVE  /\ Taken(d, t) \subseteq Claims(d, t)
           /\ IsFiniteSet(Taken(d, t)) /\ Occupied(d, t) \in Nat
  <1>1. Taken(d, t) \subseteq Claims(d, t)
    BY DEF Taken, Claims, OpenOffer
  <1>2. IsFiniteSet(Taken(d, t))
    BY <1>1, ClaimsFinite, FS_Subset
  <1> QED BY <1>1, <1>2, FS_CardinalityType DEF Occupied

RegTaken(d, p, t) ==
    RegClaim(d.reg[p], t) /\ (d.reg[p].status = "WAITLIST_OFFERED" => OpenOffer(d, p, t))

LEMMA TakenAre ==
    ASSUME NEW d, NEW t, NEW p \in Person
    PROVE  /\ <<"registration", p>> \in Taken(d, t) <=> RegTaken(d, p, t)
           /\ <<"family", p>> \in Taken(d, t) <=> Ahead(d.fam[p], t)
           /\ <<"invitation", p>> \in Taken(d, t) <=> InvClaim(d.inv[p], t)
  BY DEF Taken, RegTaken, RegClaim, InvClaim, HoldsFamilyReservation, LiveInvitation, OpenOffer

\* What is claimed of one database, and taken of one, was taken of another.
LEMMA ClaimsWithinTaken ==
    ASSUME NEW d, NEW e, NEW t,
           \A p \in Person : RegClaim(e.reg[p], t) => RegTaken(d, p, t),
           \A p \in Person : Ahead(e.fam[p], t) => Ahead(d.fam[p], t),
           \A p \in Person : InvClaim(e.inv[p], t) => InvClaim(d.inv[p], t)
    PROVE  Claims(e, t) \subseteq Taken(d, t)
  <1> SUFFICES ASSUME NEW c \in Claims(e, t) PROVE c \in Taken(d, t)
    OBVIOUS
  <1>1. PICK kind \in {"registration", "family", "invitation"}, p \in Person : c = <<kind, p>>
    BY ClaimsRange
  <1> QED BY <1>1, ClaimsAre, TakenAre

LEMMA TakenWithin ==
    ASSUME NEW d, NEW e, NEW t, NEW u,
           \A p \in Person : RegTaken(e, p, u) => RegTaken(d, p, t),
           \A p \in Person : Ahead(e.fam[p], u) => Ahead(d.fam[p], t),
           \A p \in Person : InvClaim(e.inv[p], u) => InvClaim(d.inv[p], t)
    PROVE  Taken(e, u) \subseteq Taken(d, t)
  <1> SUFFICES ASSUME NEW c \in Taken(e, u) PROVE c \in Taken(d, t)
    OBVIOUS
  <1>1. PICK kind \in {"registration", "family", "invitation"}, p \in Person : c = <<kind, p>>
    BY ClaimsRange, TakenFinite
  <1> QED BY <1>1, TakenAre

\* A row that holds a place held it before, and an offer is the offer it was.
RowKept(s, r, t) ==
    RegClaim(s, t) => /\ RegClaim(r, t)
                      /\ r.status = "WAITLIST_OFFERED" => s.status = r.status /\ s.hold = r.hold

\* Nothing is claimed, and nothing counted, that was not before.
Fewer(d, e, t) ==
    /\ SamePlaces(e.ev, d.ev)
    /\ Claims(e, t) \subseteq Claims(d, t) /\ Taken(e, t) \subseteq Taken(d, t)

LEMMA RowsKeptAreFewer ==
    ASSUME NEW d, NEW e, NEW t, SamePlaces(e.ev, d.ev), e.mail \subseteq d.mail,
           \A p \in Person : RowKept(e.reg[p], d.reg[p], t),
           \A p \in Person : Ahead(e.fam[p], t) => Ahead(d.fam[p], t),
           \A p \in Person : InvClaim(e.inv[p], t) => InvClaim(d.inv[p], t)
    PROVE  Fewer(d, e, t)
  <1>1. \A p \in Person : RegClaim(e.reg[p], t) => RegClaim(d.reg[p], t)
    BY DEF RowKept
  <1>2. Claims(e, t) \subseteq Claims(d, t) \cup {}
    BY <1>1, ClaimsWithin
  <1>3. ASSUME NEW p \in Person, RegTaken(e, p, t) PROVE RegTaken(d, p, t)
    <2>1. RegClaim(e.reg[p], t) /\ RowKept(e.reg[p], d.reg[p], t)
      BY <1>3 DEF RegTaken
    <2>2. CASE d.reg[p].status = "WAITLIST_OFFERED"
      <3>1. e.reg[p].status = d.reg[p].status /\ e.reg[p].hold = d.reg[p].hold
        BY <2>1, <2>2 DEF RowKept
      <3>2. OpenOffer(e, p, t)
        BY <1>3, <2>2, <3>1 DEF RegTaken
      <3>3. OpenOffer(d, p, t)
        BY <3>1, <3>2 DEF OpenOffer, OfferAwaitingItsFirstEmail, EmailQueued
      <3> QED BY <2>1, <3>3 DEF RegTaken, RowKept
    <2> QED BY <2>1, <2>2 DEF RegTaken, RowKept
  <1>4. Taken(e, t) \subseteq Taken(d, t)
    BY <1>3, TakenWithin
  <1> QED BY <1>2, <1>4 DEF Fewer

LEMMA FewerTwice ==
    ASSUME NEW d, NEW e, NEW f, NEW t, Fewer(d, e, t), Fewer(e, f, t)
    PROVE  Fewer(d, f, t)
  BY DEF Fewer, SamePlaces

LEMMA FewerNot ==
    ASSUME NEW d, NEW t
    PROVE  Fewer(d, d, t)
  BY DEF Fewer, SamePlaces

LEMMA CapacityRange ==
    ASSUME NEW d, GoodRows(d)
    PROVE  d.ev.capacity \in Nat \cup {None} /\ d.ev.kept \in Nat /\ d.ev \in StoredEvent
  BY DEF GoodRows, Database, StoredEvent

\* What is announced is within the capacity.
LEMMA EntryCapacityRange ==
    ASSUME NEW ev \in StoredEvent, ev.capacity # None, NEW channel
    PROVE  /\ ev.capacity \in Nat /\ KeptOf(ev) \in Nat /\ KeptOf(ev) <= ev.capacity
           /\ CapacityForEntry(ev, channel) \in Nat
           /\ CapacityForEntry(ev, channel) <= ev.capacity
           /\ ev.capacity - KeptOf(ev) <= CapacityForEntry(ev, channel)
  <1>1. ev.capacity \in Nat /\ ev.kept \in Nat
    BY DEF StoredEvent
  <1>2. KeptOf(ev) \in Nat /\ KeptOf(ev) <= ev.capacity
    BY <1>1 DEF KeptOf, Least, Greatest
  <1> QED BY <1>1, <1>2 DEF CapacityForEntry

LEMMA PlacesShared ==
    ASSUME NEW d, NEW ev, SamePlaces(d.ev, ev)
    PROVE  /\ KeptOf(d.ev) = KeptOf(ev)
           /\ \A channel : CapacityForEntry(d.ev, channel) = CapacityForEntry(ev, channel)
  BY DEF SamePlaces, KeptOf, CapacityForEntry

LEMMA FitsWithFewer ==
    ASSUME NEW d, NEW e, NEW t, NEW ev, NEW n \in Nat, Fits(d, t, ev, n),
           SamePlaces(e.ev, ev), Claims(e, t) \subseteq Claims(d, t)
    PROVE  Fits(e, t, ev, n)
  <1>1. Cardinality(Claims(e, t)) <= Cardinality(Claims(d, t))
    BY ClaimsFinite, FS_Subset
  <1> QED BY <1>1, ClaimsFinite DEF Fits

LEMMA FitsWithOneMore ==
    ASSUME NEW d, NEW e, NEW t, NEW ev, NEW n \in Nat, RoomForOne(d, t, ev, n),
           SamePlaces(e.ev, ev), NEW c, Claims(e, t) \subseteq Claims(d, t) \cup {c}
    PROVE  Fits(e, t, ev, n)
  <1>1. /\ IsFiniteSet(Claims(d, t) \cup {c})
        /\ Cardinality(Claims(d, t) \cup {c}) <= Cardinality(Claims(d, t)) + 1
    BY ClaimsFinite, OneElementMore
  <1>2. Cardinality(Claims(e, t)) <= Cardinality(Claims(d, t) \cup {c})
    BY <1>1, FS_Subset
  <1>3. Cardinality(Claims(d, t) \cup {c}) \in Nat
    BY <1>1, FS_CardinalityType
  <1> QED BY <1>1, <1>2, <1>3, ClaimsFinite DEF Fits, RoomForOne

\* One claim in the place of another.
LEMMA FitsWithAnother ==
    ASSUME NEW d, NEW e, NEW t, NEW ev, NEW n \in Nat, Fits(d, t, ev, n), SamePlaces(e.ev, ev),
           NEW old \in Claims(d, t), NEW new,
           Claims(e, t) \subseteq (Claims(d, t) \ {old}) \cup {new}
    PROVE  Fits(e, t, ev, n)
  <1> DEFINE rest == Claims(d, t) \ {old}
  <1>1. IsFiniteSet(rest) /\ Cardinality(rest) = Cardinality(Claims(d, t)) - 1
    BY ClaimsFinite, FS_RemoveElement
  <1> HIDE DEF rest
  <1>2. IsFiniteSet(rest \cup {new}) /\ Cardinality(rest \cup {new}) <= Cardinality(Claims(d, t))
    <2>1. IsFiniteSet(rest \cup {new}) /\ Cardinality(rest \cup {new}) <= Cardinality(rest) + 1
      BY <1>1, OneElementMore
    <2>2. Cardinality(Claims(d, t)) \in Nat
      BY ClaimsFinite
    <2>3. Cardinality(rest \cup {new}) \in Nat /\ Cardinality(rest) \in Nat
      BY <1>1, <2>1, FS_CardinalityType
    <2> QED BY <1>1, <2>1, <2>2, <2>3
  <1>3. Cardinality(Claims(e, t)) <= Cardinality(rest \cup {new})
    BY <1>2, FS_Subset DEF rest
  <1>4. Cardinality(rest \cup {new}) \in Nat
    BY <1>2, FS_CardinalityType
  <1> QED BY <1>2, <1>3, <1>4, ClaimsFinite DEF Fits

\* A sweep that leaves only what the allocator counted.
LEMMA HeldFits ==
    ASSUME NEW d, NEW e, NEW t, NEW ev, NEW n \in Nat, Held(d, t, ev, n),
           SamePlaces(e.ev, ev), Claims(e, t) \subseteq Taken(d, t)
    PROVE  Fits(e, t, ev, n)
  <1>1. Cardinality(Claims(e, t)) <= Occupied(d, t)
    BY TakenFinite, FS_Subset DEF Occupied
  <1> QED BY <1>1, ClaimsFinite, TakenFinite DEF Fits, Held

LEMMA FitsHeld ==
    ASSUME NEW d, NEW t, NEW ev, NEW n \in Nat, Fits(d, t, ev, n)
    PROVE  Held(d, t, ev, n)
  <1>1. Occupied(d, t) <= Cardinality(Claims(d, t))
    BY TakenFinite, ClaimsFinite, FS_Subset DEF Occupied
  <1> QED BY <1>1, ClaimsFinite, TakenFinite DEF Fits, Held

LEMMA HeldWithFewer ==
    ASSUME NEW d, NEW e, NEW t, NEW u, NEW ev, NEW n \in Nat, Held(d, t, ev, n),
           SamePlaces(e.ev, ev), Taken(e, u) \subseteq Taken(d, t)
    PROVE  Held(e, u, ev, n)
  <1>1. Occupied(e, u) <= Occupied(d, t)
    BY TakenFinite, FS_Subset DEF Occupied
  <1> QED BY <1>1, TakenFinite DEF Held

LEMMA FewerHeld ==
    ASSUME NEW d, NEW e, NEW t, NEW ev, NEW n \in Nat, Held(d, t, ev, n), Fewer(d, e, t)
    PROVE  Held(e, t, ev, n)
  <1>1. SamePlaces(e.ev, ev)
    BY DEF Fewer, Held, SamePlaces
  <1> QED BY <1>1, HeldWithFewer DEF Fewer

-----------------------------------------------------------------------------
(***************************************************************************)
(* The longest waiting of a line are as many as there are places, at most. *)
(***************************************************************************)
Before(p, q, key) == key[p] < key[q] \/ (key[p] = key[q] /\ p < q)

LEMMA FirstOfIsShort ==
    ASSUME NEW S, IsFiniteSet(S), S \subseteq Nat, NEW n \in Nat, NEW key,
           \A p \in S : key[p] \in Nat
    PROVE  IsFiniteSet(FirstOf(S, n, key)) /\ Cardinality(FirstOf(S, n, key)) <= n
  <1> DEFINE ahead(p) == {q \in S : Before(q, p, key)}
             first == FirstOf(S, n, key)
             rank == [p \in first |-> Cardinality(ahead(p))]
  <1>1. \A p \in S : IsFiniteSet(ahead(p)) /\ Cardinality(ahead(p)) \in Nat
    <2> TAKE p \in S
    <2>1. ahead(p) \in SUBSET S
      OBVIOUS
    <2> QED BY <2>1, FS_Subset, FS_CardinalityType
  <1>2. first = {p \in S : Cardinality(ahead(p)) < n}
    BY DEF FirstOf, Before
  <1>3. rank \in [first -> 0..(n - 1)]
    <2>1. ASSUME NEW p \in first PROVE Cardinality(ahead(p)) \in 0..(n - 1)
      <3> HIDE DEF ahead
      <3>1. p \in S /\ Cardinality(ahead(p)) < n
        BY <1>2 DEF first
      <3> QED BY <1>1, <3>1
    <2> HIDE DEF ahead, first
    <2> QED BY <2>1
  <1>4. ASSUME NEW p \in S, NEW q \in S, Before(p, q, key)
        PROVE  Cardinality(ahead(p)) < Cardinality(ahead(q))
    <2>1. ahead(p) \in SUBSET ahead(q)
      <3> SUFFICES ASSUME NEW x \in S, Before(x, p, key) PROVE Before(x, q, key)
        OBVIOUS
      <3>1. key[x] \in Nat /\ key[p] \in Nat /\ key[q] \in Nat /\ x \in Nat /\ p \in Nat /\ q \in Nat
        OBVIOUS
      <3> QED BY <1>4, <3>1 DEF Before
    <2>2. p \in ahead(q) /\ p \notin ahead(p)
      BY <1>4 DEF Before
    <2>3. ahead(p) # ahead(q)
      BY <2>2
    <2> HIDE DEF ahead
    <2> QED BY <1>1, <2>1, <2>3, FS_Subset
  <1>5. ASSUME NEW p \in S, NEW q \in S, p # q
        PROVE  Before(p, q, key) \/ Before(q, p, key)
    BY <1>5 DEF Before
  <1> HIDE DEF ahead
  <1>6. ASSUME NEW p \in first, NEW q \in first, rank[p] = rank[q]
        PROVE  p = q
    <2>1. p \in S /\ q \in S /\ Cardinality(ahead(p)) = Cardinality(ahead(q))
      BY <1>2, <1>6
    <2> QED BY <1>1, <1>4, <1>5, <2>1
  <1> HIDE DEF first
  <1>7. rank \in Injection(first, 0..(n - 1))
    BY <1>3, <1>6 DEF Injection, IsInjective
  <1>8. IsFiniteSet(0..(n - 1)) /\ Cardinality(0..(n - 1)) = n
    BY FS_Interval
  <1> HIDE DEF rank
  <1>9. IsFiniteSet(first) /\ Cardinality(first) <= n
    BY <1>7, <1>8, FS_Injection
  <1> QED BY <1>9 DEF first

-----------------------------------------------------------------------------
(***************************************************************************)
(* What the sweeps and the line leave alone.                               *)
(***************************************************************************)
Moving == {"PENDING_DECLARATION", "WAITLIST_OFFERED", "WAITLISTED", "EXPIRED"}

RowSwept(r, s, t) ==
    /\ s.outside = r.outside
    /\ IF r.status \in Moving THEN s.status \in Moving ELSE s.status = r.status
    /\ r.status = "PENDING_EMAIL_CONFIRMATION"
       => s.hold = r.hold \/ (s.hold = None /\ Past(r.hold, t))

Swept(d, e, t) ==
    /\ SamePlaces(e.ev, d.ev)
    /\ \A p \in Person : RowSwept(d.reg[p], e.reg[p], t)
    /\ \A p \in Person : e.fam[p] = d.fam[p] \/ (e.fam[p] = None /\ Past(d.fam[p], t))
    /\ \A p \in Person : e.inv[p] = d.inv[p] \/ (e.inv[p] = None /\ ~LiveInvitation(d, p, t))

LEMMA SweptTwice ==
    ASSUME NEW d, NEW e, NEW f, NEW t, Swept(d, e, t), Swept(e, f, t)
    PROVE  Swept(d, f, t)
  <1>1. SamePlaces(f.ev, d.ev)
    BY DEF Swept, SamePlaces
  <1>2. ASSUME NEW p \in Person PROVE RowSwept(d.reg[p], f.reg[p], t)
    <2>1. RowSwept(d.reg[p], e.reg[p], t) /\ RowSwept(e.reg[p], f.reg[p], t)
      BY DEF Swept
    <2>2. "PENDING_EMAIL_CONFIRMATION" \notin Moving
      BY DEF Moving
    <2> QED BY <2>1, <2>2 DEF RowSwept, Past
  <1>3. ASSUME NEW p \in Person
        PROVE  /\ f.fam[p] = d.fam[p] \/ (f.fam[p] = None /\ Past(d.fam[p], t))
               /\ f.inv[p] = d.inv[p] \/ (f.inv[p] = None /\ ~LiveInvitation(d, p, t))
    BY DEF Swept, Past, LiveInvitation
  <1> QED BY <1>1, <1>2, <1>3 DEF Swept

LEMMA SweptNot ==
    ASSUME NEW d, NEW t
    PROVE  Swept(d, d, t)
  BY DEF Swept, RowSwept, SamePlaces

\* Only the rows change, and only some that hold a place or wait.
LEMMA SweptRows ==
    ASSUME NEW d, NEW e, NEW t, SamePlaces(e.ev, d.ev), e.fam = d.fam, e.inv = d.inv,
           \A p \in Person : RowSwept(d.reg[p], e.reg[p], t)
    PROVE  Swept(d, e, t)
  BY DEF Swept

LEMMA ExpireByClockSweeps ==
    ASSUME NEW d, GoodRows(d), NEW t \in Time
    PROVE  /\ Swept(d, ExpireByClock(d, t), t)
           /\ Claims(ExpireByClock(d, t), t) \subseteq Taken(d, t)
           /\ AllOpen(ExpireByClock(d, t), t)
  <1> DEFINE e == ExpireByClock(d, t)
  <1>1. /\ e.ev = d.ev /\ e.mail = d.mail
        /\ \A p \in Person : e.reg[p] =
               IF OfferLapsed(d, p, t) THEN Moved(d.reg[p], "EXPIRED", None)
               ELSE IF ReservationLapsed(d, p, t) THEN [d.reg[p] EXCEPT !.hold = None]
               ELSE d.reg[p]
        /\ \A p \in Person : e.fam[p] = IF Past(d.fam[p], t) THEN None ELSE d.fam[p]
        /\ \A p \in Person :
               e.inv[p] = IF d.inv[p] # None /\ ~LiveInvitation(d, p, t) THEN None ELSE d.inv[p]
    BY DEF ExpireByClock, GoodRows, Database
  <1> HIDE DEF e
  <1>2. ASSUME NEW p \in Person
        PROVE  RowSwept(d.reg[p], e.reg[p], t) /\ (RegClaim(e.reg[p], t) => RegClaim(d.reg[p], t))
    <2>1. d.reg[p] \in Registration
      BY RowsAre
    <2>2. CASE OfferLapsed(d, p, t)
      BY <1>1, <2>1, <2>2 DEF OfferLapsed, Moved, Registration, RowSwept, Moving, RegClaim
    <2>3. CASE ~OfferLapsed(d, p, t) /\ ReservationLapsed(d, p, t)
      BY <1>1, <2>1, <2>3 DEF ReservationLapsed, Registration, RowSwept, Moving, RegClaim, Ahead
    <2>4. CASE ~OfferLapsed(d, p, t) /\ ~ReservationLapsed(d, p, t)
      BY <1>1, <2>1, <2>4 DEF RowSwept
    <2> QED BY <2>2, <2>3, <2>4
  <1>3. Swept(d, e, t)
    BY <1>1, <1>2 DEF Swept, SamePlaces
  <1>5. AllOpen(e, t)
    <2> SUFFICES ASSUME NEW p \in Person, e.reg[p].status = "WAITLIST_OFFERED"
                 PROVE  OpenOffer(e, p, t)
      BY DEF AllOpen
    <2>1. d.reg[p] \in Registration /\ WellFormed(d.reg[p])
      BY RowsAre
    <2>2. ~OfferLapsed(d, p, t)
      BY <1>1, <2>1 DEF Moved, Registration
    <2>3. d.reg[p].status = "WAITLIST_OFFERED" /\ e.reg[p] = d.reg[p]
      BY <1>1, <2>1, <2>2 DEF ReservationLapsed, Registration
    <2>4. d.reg[p].hold \in Deadline /\ d.reg[p].hold # None
      BY <2>1, <2>3 DEF WellFormed, Registration
    <2>5. CASE Ahead(d.reg[p].hold, t)
      BY <2>3, <2>5 DEF OpenOffer
    <2>6. CASE ~Ahead(d.reg[p].hold, t)
      <3>1. Past(d.reg[p].hold, t)
        <4>1. d.reg[p].hold \in Nat /\ t \in Nat
          BY <2>4, DeadlineRange
        <4> QED BY <2>4, <2>6, <4>1 DEF Ahead, Past
      <3>2. OfferAwaitingItsFirstEmail(d, p, t)
        BY <2>2, <2>3, <3>1 DEF OfferLapsed
      <3>3. OfferAwaitingItsFirstEmail(e, p, t)
        BY <1>1, <3>2 DEF OfferAwaitingItsFirstEmail, EmailQueued
      <3> QED BY <2>3, <3>3 DEF OpenOffer
    <2> QED BY <2>5, <2>6
  <1>6. Claims(e, t) \subseteq Taken(d, t)
    <2>1. \A p \in Person : Ahead(e.fam[p], t) => Ahead(d.fam[p], t)
      BY <1>1 DEF Ahead
    <2>2. \A p \in Person : InvClaim(e.inv[p], t) => InvClaim(d.inv[p], t)
      BY <1>1 DEF InvClaim
    <2>3. ASSUME NEW p \in Person, RegClaim(e.reg[p], t) PROVE RegTaken(d, p, t)
      <3>1. RegClaim(d.reg[p], t)
        BY <1>2, <2>3
      <3>2. CASE d.reg[p].status = "WAITLIST_OFFERED"
        <4>1. ~OfferLapsed(d, p, t)
          <5>1. d.reg[p] \in Registration
            BY RowsAre
          <5>2. OfferLapsed(d, p, t) => e.reg[p].status = "EXPIRED"
            BY <1>1, <5>1 DEF Moved, Registration
          <5> QED BY <2>3, <5>2 DEF RegClaim
        <4>2. e.reg[p] = d.reg[p]
          BY <1>1, <3>2, <4>1 DEF ReservationLapsed
        <4>3. OpenOffer(d, p, t)
          BY <1>1, <1>5, <3>2, <4>2 DEF AllOpen, OpenOffer, OfferAwaitingItsFirstEmail, EmailQueued
        <4> QED BY <3>1, <4>3 DEF RegTaken
      <3> QED BY <3>1, <3>2 DEF RegTaken
    <2> QED BY <2>1, <2>2, <2>3, ClaimsWithinTaken
  <1> QED BY <1>3, <1>5, <1>6 DEF e

LEMMA HoldsToReleaseArePlaces ==
    ASSUME NEW d, NEW t, NEW wanting, NEW channel
    PROVE  HoldsToRelease(d, t, wanting, channel) \subseteq WithStatus(d, {"PENDING_DECLARATION"})
  BY DEF HoldsToRelease, LapsedHolds, FirstOf

\* A transaction's sweep takes claims away, gives none, and leaves no lapsed offer.
LEMMA ExpireStaleHoldsSweeps ==
    ASSUME NEW d, GoodRows(d), NEW t \in Time, NEW wanting, NEW channel
    PROVE  /\ Swept(d, ExpireStaleHolds(d, t, wanting, channel), t)
           /\ Claims(ExpireStaleHolds(d, t, wanting, channel), t) \subseteq Taken(d, t)
           /\ AllOpen(ExpireStaleHolds(d, t, wanting, channel), t)
  <1> DEFINE c == ExpireByClock(d, t)
             gone == HoldsToRelease(c, t, wanting, channel)
             freed == ReleaseHolds(c, gone)
             e == ExpireStaleHolds(d, t, wanting, channel)
  <1>1. GoodRows(c) /\ Swept(d, c, t) /\ Claims(c, t) \subseteq Taken(d, t) /\ AllOpen(c, t)
    BY ExpireByClockGood, ExpireByClockSweeps
  <1>2. gone \subseteq WithStatus(c, {"PENDING_DECLARATION"})
    BY HoldsToReleaseArePlaces
  <1>3. e = freed \/ e = AfterDeadlineRelease(freed)
    BY DEF ExpireStaleHolds, ReleaseWanted
  <1> HIDE DEF c, gone, e
  <1>4. /\ freed.ev = c.ev /\ freed.mail = c.mail /\ freed.fam = c.fam /\ freed.inv = c.inv
        /\ \A p \in Person : freed.reg[p] =
               IF p \in gone THEN [Moved(c.reg[p], "EXPIRED", None) EXCEPT !.late = TRUE]
               ELSE c.reg[p]
    BY <1>1 DEF ReleaseHolds, GoodRows, Database
  <1>5. GoodRows(freed)
    BY <1>1, ReleaseHoldsGood
  <1> HIDE DEF freed
  <1>6. /\ SamePlaces(e.ev, c.ev)
        /\ e.mail = c.mail /\ e.fam = c.fam /\ e.inv = c.inv /\ e.reg = freed.reg
    <2> DEFINE f == AfterDeadlineRelease(freed)
    <2>1. /\ SamePlaces(f.ev, freed.ev)
          /\ f.mail = freed.mail /\ f.fam = freed.fam /\ f.inv = freed.inv /\ f.reg = freed.reg
      BY <1>5 DEF AfterDeadlineRelease, GoodRows, Database, StoredEvent, SamePlaces
    <2> QED BY <1>3, <1>4, <2>1 DEF SamePlaces
  <1>7. ASSUME NEW p \in Person
        PROVE  /\ RowSwept(c.reg[p], e.reg[p], t)
               /\ RegClaim(e.reg[p], t) => RegClaim(c.reg[p], t)
               /\ e.reg[p].status = "WAITLIST_OFFERED" => e.reg[p] = c.reg[p]
    <2>1. c.reg[p] \in Registration
      BY <1>1, RowsAre
    <2>2. CASE p \in gone
      <3>1. c.reg[p].status = "PENDING_DECLARATION"
        BY <1>2, <2>2 DEF WithStatus
      <3>2. e.reg[p] = [Moved(c.reg[p], "EXPIRED", None) EXCEPT !.late = TRUE]
        BY <1>4, <1>6, <2>2
      <3>3. e.reg[p].status = "EXPIRED" /\ e.reg[p].outside = c.reg[p].outside
        BY <2>1, <3>2 DEF Moved, Registration
      <3> QED BY <3>1, <3>3 DEF RowSwept, Moving, RegClaim
    <2>3. CASE p \notin gone
      BY <1>4, <1>6, <2>3 DEF RowSwept
    <2> QED BY <2>2, <2>3
  <1>8. Swept(c, e, t)
    BY <1>6, <1>7, SweptRows
  <1>9. Claims(e, t) \subseteq Claims(c, t) \cup {}
    BY <1>6, <1>7, ClaimsWithin
  <1>10. AllOpen(e, t)
    BY <1>1, <1>6, <1>7 DEF AllOpen, OpenOffer, OfferAwaitingItsFirstEmail, EmailQueued
  <1> QED BY <1>1, <1>8, <1>9, <1>10, SweptTwice DEF e

LEMMA ExpiredSweeps ==
    ASSUME NEW d, GoodRows(d), NEW t \in Time, NEW ev, NEW n \in Nat, Held(d, t, ev, n)
    PROVE  /\ GoodRows(Expired(d, t)) /\ Swept(d, Expired(d, t), t)
           /\ AllOpen(Expired(d, t), t) /\ Fits(Expired(d, t), t, ev, n)
  <1>1. /\ Swept(d, Expired(d, t), t) /\ Claims(Expired(d, t), t) \subseteq Taken(d, t)
        /\ AllOpen(Expired(d, t), t)
    BY ExpireStaleHoldsSweeps DEF Expired
  <1>2. SamePlaces(Expired(d, t).ev, ev)
    BY <1>1 DEF Swept, SamePlaces, Held
  <1> QED BY <1>1, <1>2, ExpiredGood, HeldFits

-----------------------------------------------------------------------------
(***************************************************************************)
(* Serving the line.                                                       *)
(***************************************************************************)
PlacesOf(people) == {"registration"} \X people

LEMMA FitsWithMany ==
    ASSUME NEW d, NEW e, NEW t, NEW ev, NEW n \in Nat, SamePlaces(e.ev, ev),
           NEW people, IsFiniteSet(people),
           ev.capacity # None => Cardinality(Claims(d, t)) + Cardinality(people) <= n,
           Claims(e, t) \subseteq Claims(d, t) \cup PlacesOf(people)
    PROVE  Fits(e, t, ev, n)
  <1> DEFINE given == PlacesOf(people)
             all == Claims(d, t) \cup given
  <1>1. IsFiniteSet(given) /\ Cardinality(given) = Cardinality(people)
    <2>1. IsFiniteSet({"registration"}) /\ Cardinality({"registration"}) = 1
      BY FS_Singleton
    <2>2. /\ IsFiniteSet(given)
          /\ Cardinality(given) = Cardinality({"registration"}) * Cardinality(people)
      BY <2>1, FS_Product DEF PlacesOf
    <2>3. Cardinality(people) \in Nat
      BY FS_CardinalityType
    <2> QED BY <2>1, <2>2, <2>3
  <1> HIDE DEF given
  <1>2. /\ IsFiniteSet(all)
        /\ Cardinality(all) = Cardinality(Claims(d, t)) + Cardinality(given)
                              - Cardinality(Claims(d, t) \cap given)
    BY <1>1, ClaimsFinite, FS_Union
  <1>3. Cardinality(Claims(d, t) \cap given) \in Nat
    BY ClaimsFinite, FS_Intersection, FS_CardinalityType
  <1>4. Cardinality(Claims(e, t)) <= Cardinality(all)
    BY <1>2, FS_Subset DEF given
  <1>5. Cardinality(all) \in Nat /\ Cardinality(given) \in Nat /\ Cardinality(Claims(d, t)) \in Nat
    BY <1>1, <1>2, ClaimsFinite, FS_CardinalityType
  <1>6. Cardinality(Claims(e, t)) \in Nat
    BY ClaimsFinite
  <1> HIDE DEF all
  <1>7. Cardinality(Claims(e, t)) <= Cardinality(Claims(d, t)) + Cardinality(people)
    BY <1>1, <1>2, <1>3, <1>4, <1>5, <1>6
  <1> QED BY <1>1, <1>5, <1>6, <1>7 DEF Fits

\* An email that queues changes no claim and closes no offer.
LEMMA QueuedOnly ==
    ASSUME NEW d, GoodRows(d), NEW people, NEW kind, NEW t
    PROVE  LET e == Queued(d, people, kind, t)
           IN  /\ e.ev = d.ev /\ e.reg = d.reg /\ e.fam = d.fam /\ e.inv = d.inv
               /\ d.mail \subseteq e.mail
  BY DEF Queued, GoodRows, Database

LEMMA SameClaims ==
    ASSUME NEW d, NEW e, NEW t, e.reg = d.reg, e.fam = d.fam, e.inv = d.inv
    PROVE  Claims(e, t) = Claims(d, t)
  BY DEF Claims, HoldsFamilyReservation, LiveInvitation

LEMMA QueuedFits ==
    ASSUME NEW d, GoodRows(d), NEW people, NEW kind, NEW at, NEW t, NEW ev, NEW n, Fits(d, t, ev, n)
    PROVE  Fits(Queued(d, people, kind, at), t, ev, n)
  BY QueuedOnly, SameClaims DEF Fits

LEMMA OfferedRows ==
    ASSUME NEW d, GoodRows(d), NEW people \in SUBSET Person, NEW hold \in Deadline,
           NEW kind \in MailKind, NEW t \in Time,
           NEW e, e = Queued(Offered(d, people, hold), people, kind, t)
    PROVE  /\ e.ev = d.ev /\ e.fam = d.fam /\ e.inv = d.inv /\ d.mail \subseteq e.mail
           /\ \A p \in Person : e.reg[p] =
                  IF p \in people THEN Moved(d.reg[p], "WAITLIST_OFFERED", hold) ELSE d.reg[p]
           /\ Claims(e, t) \subseteq Claims(d, t) \cup PlacesOf(people)
  <1> DEFINE c == Offered(d, people, hold)
  <1>1. /\ c.ev = d.ev /\ c.fam = d.fam /\ c.inv = d.inv /\ c.mail = d.mail
        /\ \A p \in Person : c.reg[p] =
               IF p \in people THEN Moved(d.reg[p], "WAITLIST_OFFERED", hold) ELSE d.reg[p]
    BY DEF Offered, GoodRows, Database
  <1>2. GoodRows(c)
    BY OfferedGood
  <1> HIDE DEF c
  <1>3. /\ e.ev = c.ev /\ e.reg = c.reg /\ e.fam = c.fam /\ e.inv = c.inv
        /\ c.mail \subseteq e.mail
    BY <1>2, QueuedOnly DEF c
  <1>4. \A p \in Person : RegClaim(e.reg[p], t)
            => RegClaim(d.reg[p], t) \/ <<"registration", p>> \in PlacesOf(people)
    BY <1>1, <1>3 DEF PlacesOf
  <1>5. Claims(e, t) \subseteq Claims(d, t) \cup PlacesOf(people)
    BY <1>1, <1>3, <1>4, ClaimsWithin
  <1> QED BY <1>1, <1>3, <1>5

\* The line's part of the free places, offered to the longest waiting.
LEMMA OfferPlacesFits ==
    ASSUME NEW d, GoodRows(d), NEW t \in Time, AllOpen(d, t), NEW ev \in StoredEvent,
           NEW n \in Nat, NEW channel, Allowed(ev, channel, n), Fits(d, t, ev, n)
    PROVE  /\ Swept(d, OfferPlaces(d, t), t)
           /\ Fits(OfferPlaces(d, t), t, ev, n)
           /\ AllOpen(OfferPlaces(d, t), t)
  <1>1. CASE ~OffersNow(d.ev, t)
    BY <1>1, SweptNot DEF OfferPlaces
  <1>2. CASE OffersNow(d.ev, t)
    <2> DEFINE people == NextInLine(d, t)
               until == WaitlistOfferExpiry(t, CloseAt)
               e == OfferPlaces(d, t)
    <2>1. people \subseteq Waiting(d) /\ people \in SUBSET Person
      BY NextInLineWaits
    <2>2. until \in Deadline /\ until # None /\ until > t
      BY <1>2, HoldsEndByTheStart, DeadlineRange DEF OffersNow
    <2>3. e = Queued(Offered(d, people, until), people, "offer", t)
      BY <1>2 DEF OfferPlaces, OfferTo
    <2>4. /\ IsFiniteSet(people)
          /\ ev.capacity # None => Cardinality(Claims(d, t)) + Cardinality(people) <= n
      <3> DEFINE S == Waiting(d)
                 many == PlacesForLine(d, t)
                 key == [p \in Person |-> d.reg[p].since]
      <3>1. S \subseteq Person /\ IsFiniteSet(S) /\ S \subseteq Nat
        BY NextInLineWaits, PersonAssumption, FS_Subset
      <3>2. Occupied(d, t) = Cardinality(Claims(d, t)) /\ Occupied(d, t) \in Nat
        BY TakenIsClaimed, ClaimsFinite
      <3>3. many \in Nat /\ (ev.capacity # None => Occupied(d, t) + many <= n)
        <4>1. d.ev.capacity = ev.capacity /\ KeptOf(d.ev) = KeptOf(ev)
          BY PlacesShared DEF Fits, SamePlaces
        <4>2. CASE ev.capacity = None
          BY <3>1, <4>1, <4>2, FS_CardinalityType DEF PlacesForLine
        <4>3. CASE ev.capacity # None
          <5>1. /\ ev.capacity \in Nat /\ KeptOf(ev) \in Nat /\ Occupied(d, t) <= n
                /\ ev.capacity - KeptOf(ev) <= n
            <6>1. Occupied(d, t) <= n
              BY <3>2, <4>3 DEF Fits
            <6>2. CapacityForEntry(ev, channel) <= n
              BY <4>3 DEF Allowed
            <6> QED BY <4>3, <6>1, <6>2, EntryCapacityRange
          <5>2. many = Greatest(ev.capacity - KeptOf(ev) - Occupied(d, t), 0)
            BY <4>1, <4>3 DEF PlacesForLine, LineRoom
          <5> QED BY <3>2, <5>1, <5>2 DEF Greatest
        <4> QED BY <4>2, <4>3
      <3>4. \A p \in S : key[p] \in Nat
        <4> SUFFICES ASSUME NEW p \in S PROVE key[p] \in Nat
          OBVIOUS
        <4>1. p \in Person /\ d.reg[p].status = "WAITLISTED"
          BY DEF Waiting, WithStatus
        <4>2. d.reg[p].since \in Time
          BY <4>1, RowsAre DEF Registration, WellFormed
        <4> QED BY <4>1, <4>2, DeadlineRange
      <3>5. people = FirstOf(S, many, key)
        BY DEF NextInLine
      <3> HIDE DEF S, many, key
      <3>6. IsFiniteSet(people) /\ Cardinality(people) <= many
        BY <3>1, <3>3, <3>4, <3>5, FirstOfIsShort
      <3>7. Cardinality(people) \in Nat
        BY <3>6, FS_CardinalityType
      <3> HIDE DEF people
      <3> QED BY <3>2, <3>3, <3>6, <3>7
    <2> HIDE DEF people, until, e
    <2>5. /\ e.ev = d.ev /\ e.fam = d.fam /\ e.inv = d.inv /\ d.mail \subseteq e.mail
          /\ \A p \in Person : e.reg[p] =
                 IF p \in people THEN Moved(d.reg[p], "WAITLIST_OFFERED", until) ELSE d.reg[p]
          /\ Claims(e, t) \subseteq Claims(d, t) \cup PlacesOf(people)
      <3>1. "offer" \in MailKind
        BY DEF MailKind
      <3> QED BY <2>1, <2>2, <2>3, <3>1, OfferedRows
    <2>6. ASSUME NEW p \in Person PROVE RowSwept(d.reg[p], e.reg[p], t)
      <3>1. d.reg[p] \in Registration
        BY RowsAre
      <3>2. CASE p \in people
        BY <2>1, <2>5, <3>1, <3>2 DEF Waiting, WithStatus, Moved, Registration, RowSwept, Moving
      <3>3. CASE p \notin people
        BY <2>5, <3>3 DEF RowSwept
      <3> QED BY <3>2, <3>3
    <2>7. Swept(d, e, t)
      BY <2>5, <2>6, SweptRows DEF SamePlaces
    <2>8. Fits(e, t, ev, n)
      <3>1. SamePlaces(e.ev, ev)
        BY <2>5 DEF Fits
      <3> QED BY <2>4, <2>5, <3>1, FitsWithMany
    <2>9. AllOpen(e, t)
      <3> SUFFICES ASSUME NEW p \in Person, e.reg[p].status = "WAITLIST_OFFERED"
                   PROVE  OpenOffer(e, p, t)
        BY DEF AllOpen
      <3>1. CASE p \in people
        <4>1. e.reg[p].hold = until
          <5>1. d.reg[p] \in Registration
            BY RowsAre
          <5>2. e.reg[p] = Moved(d.reg[p], "WAITLIST_OFFERED", until)
            BY <2>5, <3>1
          <5> QED BY <5>1, <5>2 DEF Moved, Registration
        <4> QED BY <2>2, <4>1 DEF OpenOffer, Ahead
      <3>2. CASE p \notin people
        <4>1. e.reg[p] = d.reg[p] /\ OpenOffer(d, p, t)
          BY <2>5, <3>2 DEF AllOpen
        <4>2. OfferAwaitingItsFirstEmail(d, p, t) => OfferAwaitingItsFirstEmail(e, p, t)
          BY <2>5 DEF OfferAwaitingItsFirstEmail, EmailQueued
        <4> QED BY <4>1, <4>2 DEF OpenOffer
      <3> QED BY <3>1, <3>2
    <2> QED BY <2>7, <2>8, <2>9 DEF e
  <1> QED BY <1>1, <1>2

\* A cancelled event is left as it is; any other is swept, and its line served.
LEMMA FillAvailableSpotsFits ==
    ASSUME NEW d, GoodRows(d), NEW t \in Time, NEW ev \in StoredEvent,
           NEW n \in Nat, NEW channel, Allowed(ev, channel, n), Held(d, t, ev, n)
    PROVE  /\ GoodRows(FillAvailableSpots(d, t)) /\ Swept(d, FillAvailableSpots(d, t), t)
           /\ d.ev.status = "CANCELLED" => FillAvailableSpots(d, t) = d
           /\ d.ev.status # "CANCELLED" => /\ AllOpen(FillAvailableSpots(d, t), t)
                                           /\ Fits(FillAvailableSpots(d, t), t, ev, n)
  <1>1. CASE d.ev.status = "CANCELLED"
    BY <1>1, SweptNot DEF FillAvailableSpots
  <1>2. CASE d.ev.status # "CANCELLED"
    <2> DEFINE c == Expired(d, t)
    <2>1. GoodRows(c) /\ Swept(d, c, t) /\ AllOpen(c, t) /\ Fits(c, t, ev, n)
      BY ExpiredSweeps
    <2>2. FillAvailableSpots(d, t) = OfferPlaces(c, t)
      BY <1>2 DEF FillAvailableSpots
    <2> HIDE DEF c
    <2>3. /\ Swept(c, OfferPlaces(c, t), t) /\ Fits(OfferPlaces(c, t), t, ev, n)
          /\ AllOpen(OfferPlaces(c, t), t)
      BY <2>1, OfferPlacesFits
    <2> QED BY <1>2, <2>1, <2>2, <2>3, SweptTwice, FillAvailableSpotsGood
  <1> QED BY <1>1, <1>2

LEMMA FilledFits ==
    ASSUME NEW d, GoodRows(d), NEW t \in Time, NEW ev \in StoredEvent,
           NEW n \in Nat, NEW channel, Allowed(ev, channel, n), Fits(d, t, ev, n)
    PROVE  /\ GoodRows(FillAvailableSpots(d, t)) /\ Swept(d, FillAvailableSpots(d, t), t)
           /\ Fits(FillAvailableSpots(d, t), t, ev, n)
           /\ AllOpen(d, t) => AllOpen(FillAvailableSpots(d, t), t)
           /\ \A p \in Person : d.reg[p].status \in Moving
                  => FillAvailableSpots(d, t).reg[p].status \in Moving
  <1>1. /\ GoodRows(FillAvailableSpots(d, t)) /\ Swept(d, FillAvailableSpots(d, t), t)
        /\ Fits(FillAvailableSpots(d, t), t, ev, n)
        /\ AllOpen(d, t) => AllOpen(FillAvailableSpots(d, t), t)
    BY FitsHeld, FillAvailableSpotsFits
  <1> QED BY <1>1 DEF Swept, RowSwept

LEMMA ServedFits ==
    ASSUME NEW d, GoodRows(d), NEW t \in Time, NEW ev \in StoredEvent,
           NEW n \in Nat, NEW channel, Allowed(ev, channel, n), Held(d, t, ev, n)
    PROVE  /\ GoodRows(Served(d, t)) /\ Swept(d, Served(d, t), t)
           /\ Fits(Served(d, t), t, ev, n)
           /\ AllOpen(Served(d, t), t)
  <1>1. GoodRows(Expired(d, t)) /\ Swept(d, Expired(d, t), t)
        /\ Fits(Expired(d, t), t, ev, n) /\ AllOpen(Expired(d, t), t)
    BY ExpiredSweeps
  <1> QED BY <1>1, FilledFits, SweptTwice, ServedGood DEF Served

-----------------------------------------------------------------------------
(***************************************************************************)
(* The allocator.                                                          *)
(***************************************************************************)
\* What is held in somebody's name is still theirs after a sweep.
LEMMA OwnPlaceStays ==
    ASSUME NEW d, GoodRows(d), NEW e, NEW t \in Time, Swept(d, e, t), NEW p \in Person
    PROVE  /\ e.reg[p].outside = d.reg[p].outside
           /\ HoldsFamilyReservation(d, p, t) => HoldsFamilyReservation(e, p, t)
           /\ LiveInvitation(d, p, t) => e.inv[p] = d.inv[p]
  <1>1. RowSwept(d.reg[p], e.reg[p], t)
    BY DEF Swept
  <1>2. HoldsFamilyReservation(d, p, t) => HoldsFamilyReservation(e, p, t)
    <2> SUFFICES ASSUME HoldsFamilyReservation(d, p, t) PROVE HoldsFamilyReservation(e, p, t)
      OBVIOUS
    <2>1. /\ d.reg[p].status = "PENDING_EMAIL_CONFIRMATION"
          /\ d.reg[p].hold # None /\ d.reg[p].hold > t
      BY DEF HoldsFamilyReservation, Ahead
    <2>2. e.reg[p].status = "PENDING_EMAIL_CONFIRMATION"
      BY <1>1, <2>1 DEF RowSwept, Moving
    <2>3. CASE e.reg[p].hold = d.reg[p].hold
      BY <2>1, <2>2, <2>3 DEF HoldsFamilyReservation, Ahead
    <2>4. CASE Past(d.reg[p].hold, t)
      <3>1. d.reg[p].hold \in Nat /\ t \in Nat
        BY <2>1, RowsAre, DeadlineRange DEF Registration
      <3> QED BY <2>1, <2>4, <3>1 DEF Past
    <2> QED BY <1>1, <2>1, <2>3, <2>4 DEF RowSwept
  <1>3. e.reg[p].outside = d.reg[p].outside
    BY <1>1 DEF RowSwept
  <1> QED BY <1>2, <1>3 DEF Swept

LEMMA RowReplaced ==
    ASSUME NEW d, GoodRows(d), NEW p \in Person, NEW r, NEW e, e = [d EXCEPT !.reg[p] = r]
    PROVE  /\ e.ev = d.ev /\ e.mail = d.mail /\ e.fam = d.fam /\ e.inv = d.inv
           /\ e.reg[p] = r /\ \A q \in Person \ {p} : e.reg[q] = d.reg[q]
  BY DEF GoodRows, Database

LEMMA RowChanged ==
    ASSUME NEW d, GoodRows(d), NEW p \in Person, NEW r, NEW t,
           NEW e, e = [d EXCEPT !.reg[p] = r]
    PROVE  /\ Claims(e, t) \subseteq Claims(d, t) \cup {<<"registration", p>>}
           /\ (RegClaim(r, t) => RegClaim(d.reg[p], t)) => Claims(e, t) \subseteq Claims(d, t)
  <1>1. /\ e.ev = d.ev /\ e.mail = d.mail /\ e.fam = d.fam /\ e.inv = d.inv
        /\ e.reg[p] = r /\ \A q \in Person \ {p} : e.reg[q] = d.reg[q]
    BY RowReplaced
  <1>2. Claims(e, t) \subseteq Claims(d, t) \cup {<<"registration", p>>}
    <2>1. \A q \in Person : RegClaim(e.reg[q], t)
              => RegClaim(d.reg[q], t) \/ <<"registration", q>> \in {<<"registration", p>>}
      BY <1>1
    <2> QED BY ZenonT(30), <1>1, <2>1, ClaimsWithin
  <1>3. ASSUME RegClaim(r, t) => RegClaim(d.reg[p], t)
        PROVE  Claims(e, t) \subseteq Claims(d, t) \cup {}
    <2>1. \A q \in Person : RegClaim(e.reg[q], t) => RegClaim(d.reg[q], t)
      BY <1>1, <1>3
    <2> QED BY <1>1, <2>1, ClaimsWithin
  <1> QED BY <1>1, <1>2, <1>3

\* A row that comes to hold no place of its own, or held one before.
LEMMA RowChangedFits ==
    ASSUME NEW d, GoodRows(d), NEW p \in Person, NEW r, NEW t, NEW ev, NEW n \in Nat,
           Fits(d, t, ev, n), RegClaim(r, t) => RegClaim(d.reg[p], t),
           NEW e, e = [d EXCEPT !.reg[p] = r]
    PROVE  Fits(e, t, ev, n)
  <1>1. e.ev = d.ev /\ Claims(e, t) \subseteq Claims(d, t)
    BY RowReplaced, RowChanged
  <1>2. SamePlaces(e.ev, ev)
    BY <1>1 DEF Fits
  <1> QED BY <1>1, <1>2, FitsWithFewer

\* A row that takes a place the count found free.
LEMMA RowGivenFits ==
    ASSUME NEW d, GoodRows(d), NEW p \in Person, NEW r, NEW t, NEW ev, NEW n \in Nat,
           RoomForOne(d, t, ev, n), NEW e, e = [d EXCEPT !.reg[p] = r]
    PROVE  Fits(e, t, ev, n)
  <1>1. e.ev = d.ev /\ Claims(e, t) \subseteq Claims(d, t) \cup {<<"registration", p>>}
    BY RowReplaced, RowChanged
  <1>2. SamePlaces(e.ev, ev)
    BY <1>1 DEF RoomForOne
  <1> QED BY <1>1, <1>2, FitsWithOneMore

\* The place of an invitation becomes that of the person's registration.
LEMMA InvitationTakenOver ==
    ASSUME NEW d, GoodRows(d), NEW p \in Person, NEW t, NEW ev, NEW n \in Nat,
           Fits(d, t, ev, n), LiveInvitation(d, p, t), d.inv[p].outside => d.reg[p].outside,
           NEW e, SamePlaces(e.ev, ev), e.fam = d.fam,
           e.reg[p].outside = d.reg[p].outside, \A q \in Person \ {p} : e.reg[q] = d.reg[q],
           e.inv[p] = None, \A q \in Person \ {p} : e.inv[q] = d.inv[q]
    PROVE  Fits(e, t, ev, n)
  <1> DEFINE mine == <<"registration", p>>
             theirs == <<"invitation", p>>
  <1>1. Claims(e, t) \subseteq Claims(d, t) \cup {mine}
    <2>1. \A q \in Person : RegClaim(e.reg[q], t) => RegClaim(d.reg[q], t) \/ <<"registration", q>> \in {mine}
      OBVIOUS
    <2>2. \A q \in Person : InvClaim(e.inv[q], t) => InvClaim(d.inv[q], t)
      BY DEF InvClaim
    <2> QED BY <2>1, <2>2, ClaimsWithin
  <1>2. theirs \notin Claims(e, t)
    BY ClaimsAre DEF InvClaim
  <1>3. CASE d.inv[p].outside
    <2>1. ~RegClaim(e.reg[p], t)
      BY <1>3 DEF RegClaim
    <2>2. mine \notin Claims(e, t)
      BY <2>1, ClaimsAre
    <2> QED BY <1>1, <2>2, FitsWithFewer
  <1>4. CASE ~d.inv[p].outside
    <2>1. theirs \in Claims(d, t)
      BY <1>4, ClaimsAre DEF LiveInvitation, InvClaim
    <2>2. Claims(e, t) \subseteq (Claims(d, t) \ {theirs}) \cup {mine}
      BY <1>1, <1>2
    <2> QED BY <2>1, <2>2, FitsWithAnother
  <1> QED BY <1>3, <1>4

LEMMA AvailabilityIsRoom ==
    ASSUME NEW d, NEW t, AllOpen(d, t), NEW ev \in StoredEvent, SamePlaces(d.ev, ev),
           NEW n \in Nat, NEW channel, Allowed(ev, channel, n), NEW waiting \in Nat,
           HasDirectAvailability(CapacityForEntry(ev, channel), Occupied(d, t), waiting)
    PROVE  RoomForOne(d, t, ev, n)
  <1>1. Occupied(d, t) = Cardinality(Claims(d, t)) /\ Occupied(d, t) \in Nat
    BY TakenIsClaimed, ClaimsFinite
  <1>2. CASE ev.capacity = None
    BY <1>2 DEF RoomForOne
  <1>3. CASE ev.capacity # None
    <2>1. CapacityForEntry(ev, channel) \in Nat
      BY <1>3, EntryCapacityRange
    <2>2. CapacityForEntry(ev, channel) # None
      BY <2>1, NoneAssumption
    <2>3. CapacityForEntry(ev, channel) - Occupied(d, t) - waiting > 0
      BY <2>2 DEF HasDirectAvailability
    <2>4. CapacityForEntry(ev, channel) <= n
      BY <1>3 DEF Allowed
    <2>5. Occupied(d, t) < n
      BY <1>1, <2>1, <2>3, <2>4
    <2> QED BY <1>1, <2>5 DEF RoomForOne
  <1> QED BY <1>2, <1>3

LEMMA WaitingIsCounted ==
    ASSUME NEW d
    PROVE  Cardinality(Waiting(d)) \in Nat
  <1>1. Waiting(d) \in SUBSET Person
    BY DEF Waiting, WithStatus
  <1> QED BY <1>1, PersonAssumption, FS_Subset, FS_CardinalityType

LEMMA FreeForIsRoom ==
    ASSUME NEW d, NEW t, AllOpen(d, t), NEW ev \in StoredEvent, SamePlaces(d.ev, ev),
           NEW n \in Nat, NEW channel, Allowed(ev, channel, n), FreeFor(d, t, channel)
    PROVE  RoomForOne(d, t, ev, n)
  <1>1. HasDirectAvailability(CapacityForEntry(ev, channel), Occupied(d, t), Cardinality(Waiting(d)))
    BY PlacesShared DEF FreeFor
  <1> QED BY <1>1, WaitingIsCounted, AvailabilityIsRoom

LEMMA HasRoomIsRoom ==
    ASSUME NEW d, NEW t, AllOpen(d, t), NEW ev \in StoredEvent, SamePlaces(d.ev, ev),
           NEW n \in Nat, Allowed(ev, "staff", n), HasRoom(d.ev, Occupied(d, t))
    PROVE  RoomForOne(d, t, ev, n)
  <1>1. Occupied(d, t) = Cardinality(Claims(d, t)) /\ Occupied(d, t) \in Nat
    BY TakenIsClaimed, ClaimsFinite
  <1>2. ev.capacity # None => Occupied(d, t) < ev.capacity /\ ev.capacity \in Nat
    BY DEF HasRoom, SamePlaces, StoredEvent
  <1>3. ev.capacity # None => ev.capacity <= n
    BY DEF Allowed, CapacityForEntry
  <1> QED BY <1>1, <1>2, <1>3 DEF RoomForOne

\* A place given where it was counted, or to somebody who has it already.
LEMMA WithPlaceFits ==
    ASSUME NEW d, GoodRows(d), NEW p \in Person, NEW t, NEW hold \in Deadline,
           NEW ev, NEW n \in Nat,
           \/ RoomForOne(d, t, ev, n)
           \/ Fits(d, t, ev, n) /\ (d.reg[p].outside \/ RegClaim(d.reg[p], t))
    PROVE  /\ Fits(WithPlace(d, p, hold), t, ev, n)
           /\ WithPlace(d, p, hold).reg[p].status = "PENDING_DECLARATION"
  <1> DEFINE e == WithPlace(d, p, hold)
             r == Moved(d.reg[p], "PENDING_DECLARATION", hold)
  <1>1. e = [d EXCEPT !.reg[p] = r]
    BY DEF WithPlace
  <1>2. GoodRows(e)
    BY WithPlaceGood
  <1>3. r.status = "PENDING_DECLARATION" /\ r.outside = d.reg[p].outside
    BY RowsAre DEF Moved, Registration
  <1> HIDE DEF e, r
  <1>4. Fits(e, t, ev, n)
    <2>1. CASE RoomForOne(d, t, ev, n)
      BY <1>1, <2>1, RowGivenFits
    <2>2. CASE Fits(d, t, ev, n) /\ (d.reg[p].outside \/ RegClaim(d.reg[p], t))
      <3>1. RegClaim(r, t) => RegClaim(d.reg[p], t)
        BY <1>3, <2>2 DEF RegClaim
      <3> QED BY <1>1, <1>2, <2>2, <3>1, RowChangedFits
    <2> QED BY <2>1, <2>2
  <1>5. e.reg[p] = r
    BY <1>1, RowReplaced
  <1> QED BY <1>3, <1>4, <1>5 DEF e

LEMMA AdoptedPlaceFits ==
    ASSUME NEW d, GoodRows(d), NEW p \in Person, NEW t \in Time, NEW how \in Way,
           NEW ev \in StoredEvent, NEW n \in Nat, NEW channel, Allowed(ev, channel, n),
           Fits(d, t, ev, n),
           LiveInvitation(d, p, t), d.inv[p].outside => d.reg[p].outside
    PROVE  /\ Fits(GivenPlace(d, p, t, how, TRUE), t, ev, n)
           /\ GivenPlace(d, p, t, how, TRUE).reg[p].status \in Moving
  <1> DEFINE c == WithPlace(d, p, HoldFor(how, t))
             e == [c EXCEPT !.inv[p] = None]
             r == Moved(d.reg[p], "PENDING_DECLARATION", HoldFor(how, t))
  <1>1. GoodRows(c) /\ GoodRows(e)
    BY HoldForRange, WithPlaceGood, NewInvitation
  <1>2. r.status = "PENDING_DECLARATION" /\ r.outside = d.reg[p].outside
    BY RowsAre DEF Moved, Registration
  <1>3. /\ c.ev = d.ev /\ c.fam = d.fam /\ c.inv = d.inv
        /\ c.reg[p] = r /\ \A q \in Person \ {p} : c.reg[q] = d.reg[q]
    <2>1. c = [d EXCEPT !.reg[p] = r]
      BY DEF WithPlace
    <2> HIDE DEF c, r
    <2> QED BY <2>1 DEF GoodRows, Database
  <1>4. GivenPlace(d, p, t, how, TRUE) = FillAvailableSpots(e, t)
    BY DEF GivenPlace
  <1> HIDE DEF c, r
  <1>5. /\ e.ev = c.ev /\ e.fam = c.fam /\ e.reg = c.reg
        /\ e.inv[p] = None /\ \A q \in Person \ {p} : e.inv[q] = c.inv[q]
    BY <1>1 DEF GoodRows, Database
  <1> HIDE DEF e
  <1>6. Fits(e, t, ev, n)
    <2>1. SamePlaces(e.ev, ev)
      BY <1>3, <1>5 DEF Fits
    <2> QED BY <1>2, <1>3, <1>5, <2>1, InvitationTakenOver
  <1>7. e.reg[p].status \in Moving
    BY <1>2, <1>3, <1>5 DEF Moving
  <1> QED BY <1>1, <1>4, <1>6, <1>7, FilledFits

LEMMA InLineFits ==
    ASSUME NEW d, GoodRows(d), NEW p \in Person, NEW t \in Time, NEW ev \in StoredEvent,
           NEW n \in Nat, NEW channel, Allowed(ev, channel, n), Fits(d, t, ev, n)
    PROVE  /\ Fits(FillAvailableSpots(InLine(d, p, t), t), t, ev, n)
           /\ FillAvailableSpots(InLine(d, p, t), t).reg[p].status \in Moving
  <1> DEFINE e == InLine(d, p, t)
             r == [Moved(d.reg[p], "WAITLISTED", None) EXCEPT !.since = t]
  <1>1. e = [d EXCEPT !.reg[p] = r]
    BY DEF InLine
  <1>2. GoodRows(e)
    BY InLineGood
  <1>3. r.status = "WAITLISTED"
    BY RowsAre DEF Moved, Registration
  <1> HIDE DEF e, r
  <1>4. ~RegClaim(r, t)
    BY <1>3 DEF RegClaim
  <1>5. Fits(e, t, ev, n)
    BY <1>1, <1>4, RowChangedFits
  <1>6. e.reg[p] = r
    BY <1>1 DEF GoodRows, Database
  <1>7. e.reg[p].status \in Moving
    BY <1>3, <1>6 DEF Moving
  <1> QED BY <1>2, <1>5, <1>7, FilledFits DEF e

LEMMA CountedPlaceFits ==
    ASSUME NEW d, GoodRows(d), NEW p \in Person, NEW t \in Time, NEW how \in Way,
           NEW ev, NEW n \in Nat,
           \/ RoomForOne(d, t, ev, n)
           \/ Fits(d, t, ev, n) /\ (d.reg[p].outside \/ RegClaim(d.reg[p], t))
    PROVE  /\ Fits(GivenPlace(d, p, t, how, FALSE), t, ev, n)
           /\ GivenPlace(d, p, t, how, FALSE).reg[p].status \in Moving
  <1>1. HoldFor(how, t) \in Deadline
    BY HoldForRange
  <1>2. GivenPlace(d, p, t, how, FALSE) = WithPlace(d, p, HoldFor(how, t))
    BY DEF GivenPlace
  <1>3. /\ Fits(WithPlace(d, p, HoldFor(how, t)), t, ev, n)
        /\ WithPlace(d, p, HoldFor(how, t)).reg[p].status = "PENDING_DECLARATION"
    BY <1>1, WithPlaceFits
  <1> QED BY <1>2, <1>3 DEF Moving

\* The line is full: the place of a hold that lapses for the newcomer is a free one.
LEMMA PlaceOfLapsedHoldFits ==
    ASSUME NEW d, GoodRows(d), NEW p \in Person, NEW t \in Time, NEW how \in Way,
           NEW ev \in StoredEvent, NEW n \in Nat, Allowed(ev, how.channel, n), SamePlaces(d.ev, ev),
           NEW e \in PlaceOfLapsedHold(d, ExpireStaleHolds(d, t, 1, how.channel), p, t, how)
    PROVE  Fits(e, t, ev, n) /\ e.reg[p].status \in Moving
  <1> DEFINE after == ExpireStaleHolds(d, t, 1, how.channel)
  <1>1. GoodRows(after) /\ AllOpen(after, t) /\ SamePlaces(after.ev, ev)
    BY ExpireStaleHoldsGood, ExpireStaleHoldsSweeps DEF Swept, SamePlaces
  <1> HIDE DEF after
  <1>2. e = GivenPlace(after, p, t, how, FALSE) /\ FreeAfterRelease(d, after, t, how.channel)
    BY DEF PlaceOfLapsedHold, after
  <1>3. HasDirectAvailability(CapacityForEntry(ev, how.channel), Occupied(after, t),
                              Cardinality(Waiting(d)))
    BY <1>2, PlacesShared DEF FreeAfterRelease
  <1>4. RoomForOne(after, t, ev, n)
    BY <1>1, <1>3, WaitingIsCounted, AvailabilityIsRoom
  <1> QED BY <1>1, <1>2, <1>4, CountedPlaceFits

LEMMA PlacedOrQueuedFits ==
    ASSUME NEW d, GoodRows(d), NEW p \in Person, NEW t \in Time, NEW how \in Way,
           NEW ev \in StoredEvent, NEW n \in Nat, Allowed(ev, how.channel, n),
           Fits(d, t, ev, n), AllOpen(d, t), NEW direct \in BOOLEAN, NEW adopts \in BOOLEAN,
           direct => adopts \/ d.reg[p].outside \/ HoldsFamilyReservation(d, p, t),
           adopts => direct,
           adopts => LiveInvitation(d, p, t) /\ (d.inv[p].outside => d.reg[p].outside),
           NEW e \in PlacedOrQueued(d, p, t, how, direct, adopts)
    PROVE  Fits(e, t, ev, n) /\ e.reg[p].status \in Moving
  <1>1. CASE adopts
    <2>1. e = GivenPlace(d, p, t, how, TRUE)
      BY <1>1 DEF PlacedOrQueued
    <2> QED BY <1>1, <2>1, AdoptedPlaceFits
  <1>2. CASE ~adopts /\ (direct \/ FreeFor(d, t, how.channel))
    <2>1. e = GivenPlace(d, p, t, how, FALSE)
      BY <1>2 DEF PlacedOrQueued
    <2>2. CASE direct
      <3>1. d.reg[p].outside \/ RegClaim(d.reg[p], t)
        BY <1>2, <2>2 DEF HoldsFamilyReservation, RegClaim
      <3> QED BY <2>1, <3>1, CountedPlaceFits
    <2>3. CASE FreeFor(d, t, how.channel)
      <3>1. RoomForOne(d, t, ev, n)
        BY <2>3, FreeForIsRoom DEF Fits
      <3> QED BY <2>1, <3>1, CountedPlaceFits
    <2> QED BY <1>2, <2>2, <2>3
  <1>3. CASE ~direct /\ ~FreeFor(d, t, how.channel)
    <2>1. \/ e = FillAvailableSpots(InLine(d, p, t), t)
          \/ e \in PlaceOfLapsedHold(d, ExpireStaleHolds(d, t, 1, how.channel), p, t, how)
      BY <1>3 DEF PlacedOrQueued
    <2> QED BY <2>1, InLineFits, PlaceOfLapsedHoldFits DEF Fits
  <1> QED BY <1>1, <1>2, <1>3

\* The person's own claims only shrink when the allocator takes them up.
LEMMA ClaimingKeeps ==
    ASSUME NEW d, GoodRows(d), NEW p \in Person, NEW t \in Time, NEW adopts \in BOOLEAN,
           adopts => d.inv[p] # None,
           NEW e, e = Claiming(d, p, adopts)
    PROVE  /\ GoodRows(e) /\ Fewer(d, e, t)
           /\ e.ev = d.ev /\ e.inv = d.inv
           /\ e.reg[p].outside = (d.reg[p].outside \/ (adopts /\ d.inv[p].outside))
           /\ e.reg[p].status = d.reg[p].status /\ e.reg[p].hold = d.reg[p].hold
  <1> DEFINE outside == d.reg[p].outside \/ (adopts /\ d.inv[p].outside)
  <1>1. GoodRows(e)
    BY ClaimingGood
  <1>2. /\ e.ev = d.ev /\ e.inv = d.inv /\ e.mail = d.mail
        /\ e.fam = [d.fam EXCEPT ![p] = None]
        /\ e.reg = [d.reg EXCEPT ![p] = [d.reg[p] EXCEPT !.outside = outside]]
    BY DEF Claiming, GoodRows, Database
  <1>3. d.reg[p] \in Registration /\ d.reg \in [Person -> Registration]
        /\ d.fam \in [Person -> Deadline \cup {None}]
    BY DEF GoodRows, Database
  <1>4. /\ \A q \in Person \ {p} : e.reg[q] = d.reg[q] /\ e.fam[q] = d.fam[q]
        /\ e.fam[p] = None /\ e.reg[p] = [d.reg[p] EXCEPT !.outside = outside]
    BY <1>2, <1>3
  <1>5. /\ e.reg[p].outside = outside
        /\ e.reg[p].status = d.reg[p].status /\ e.reg[p].hold = d.reg[p].hold
    BY <1>3, <1>4 DEF Registration
  <1>6. Fewer(d, e, t)
    <2>1. \A q \in Person : RowKept(e.reg[q], d.reg[q], t)
      BY <1>4, <1>5 DEF RegClaim, RowKept
    <2>2. \A q \in Person : Ahead(e.fam[q], t) => Ahead(d.fam[q], t)
      BY <1>4 DEF Ahead
    <2>3. SamePlaces(e.ev, d.ev)
      BY <1>2 DEF SamePlaces
    <2> QED BY <1>2, <2>1, <2>2, <2>3, RowsKeptAreFewer
  <1> QED BY <1>1, <1>2, <1>5, <1>6

LEMMA AllocatedFits ==
    ASSUME NEW d, GoodRows(d), NEW p \in Person, NEW t \in Time, NEW how \in Way, ~how.invited,
           NEW ev \in StoredEvent, NEW n \in Nat, Allowed(ev, how.channel, n), Held(d, t, ev, n),
           NEW e \in Allocated(d, p, t, how)
    PROVE  GoodRows(e) /\ Fits(e, t, ev, n) /\ e.reg[p].status \in Moving
  <1> DEFINE adopts == ~how.invited /\ Adopts(d, p, t)
             mine == Claiming(d, p, adopts)
             served == Served(mine, t)
             direct == adopts \/ HasOwnPlace(mine, p, t, how)
  <1>1. e \in PlacedOrQueued(served, p, t, how, direct, adopts)
    BY DEF Allocated
  <1>2. adopts => LiveInvitation(d, p, t) /\ d.inv[p] # None
    BY DEF Adopts, LiveInvitation
  <1>3. adopts \in BOOLEAN /\ direct \in BOOLEAN /\ (adopts => direct)
    OBVIOUS
  <1>4. direct => adopts \/ mine.reg[p].outside \/ HoldsFamilyReservation(mine, p, t)
    BY DEF HasOwnPlace
  <1> HIDE DEF adopts, direct
  <1>5. /\ GoodRows(mine) /\ Fewer(d, mine, t) /\ mine.inv = d.inv
        /\ adopts /\ d.inv[p].outside => mine.reg[p].outside
    BY <1>2, <1>3, ClaimingKeeps
  <1> HIDE DEF mine
  <1>6. GoodRows(served) /\ Swept(mine, served, t) /\ Fits(served, t, ev, n) /\ AllOpen(served, t)
    <2>1. Held(mine, t, ev, n)
      BY <1>5, FewerHeld
    <2> QED BY <1>5, <2>1, ServedFits
  <1> HIDE DEF served
  <1>7. direct => adopts \/ served.reg[p].outside \/ HoldsFamilyReservation(served, p, t)
    BY <1>4, <1>5, <1>6, OwnPlaceStays
  <1>8. adopts => LiveInvitation(served, p, t) /\ (served.inv[p].outside => served.reg[p].outside)
    <2> SUFFICES ASSUME adopts
                 PROVE  LiveInvitation(served, p, t) /\ (served.inv[p].outside => served.reg[p].outside)
      OBVIOUS
    <2>1. LiveInvitation(mine, p, t)
      BY <1>2, <1>5 DEF LiveInvitation
    <2>2. served.inv[p] = d.inv[p] /\ served.reg[p].outside = mine.reg[p].outside
      BY <1>5, <1>6, <2>1, OwnPlaceStays
    <2> QED BY <1>2, <1>5, <2>2 DEF LiveInvitation
  <1>9. GoodRows(e)
    BY AllocatedGood
  <1> QED BY <1>1, <1>3, <1>6, <1>7, <1>8, <1>9, PlacedOrQueuedFits

LEMMA AllocationEmailFits ==
    ASSUME NEW d, GoodRows(d), NEW p, NEW at, NEW t, NEW ev, NEW n, Fits(d, t, ev, n)
    PROVE  Fits(AllocationEmail(d, p, at), t, ev, n)
  BY QueuedFits DEF AllocationEmail

LEMMA AllocatedWithEmailFits ==
    ASSUME NEW d, GoodRows(d), NEW p \in Person, NEW t \in Time, NEW how \in Way, ~how.invited,
           NEW ev \in StoredEvent, NEW n \in Nat, Allowed(ev, how.channel, n), Held(d, t, ev, n),
           NEW e \in AllocatedWithEmail(d, p, t, how)
    PROVE  Fits(e, t, ev, n)
  BY AllocatedFits, AllocationEmailFits DEF AllocatedWithEmail


-----------------------------------------------------------------------------
(***************************************************************************)
(* What a step may give: nothing, or no more than n places in all, where n *)
(* covers both what was held before and what the channel may take.         *)
(***************************************************************************)
Counting(channel, n) ==
    /\ TypeOK /\ n \in Nat
    /\ Allowed(db.ev, channel, n) /\ Held(db, now, db.ev, n)

Within(d, n) == Fewer(db, d, now) \/ Fits(d, now, db.ev, n)

LEMMA CountingFacts ==
    ASSUME NEW channel, NEW n, Counting(channel, n)
    PROVE  /\ GoodRows(db) /\ now \in Time /\ n \in Nat /\ db.ev \in StoredEvent
           /\ Held(db, now, db.ev, n) /\ Allowed(db.ev, channel, n)
           /\ Within(db, n) /\ Fewer(db, db, now)
           /\ SamePlaces(db.ev, db.ev)
  BY CapacityRange, FewerNot DEF Counting, TypeOK, Within, SamePlaces

\* Who may take the kept places counts within those of the public too.
LEMMA StaffMayTakeMore ==
    ASSUME NEW n, Counting("staff", n)
    PROVE  Counting("public", n)
  <1>1. db.ev \in StoredEvent /\ n \in Nat /\ (db.ev.capacity # None => db.ev.capacity <= n)
    BY CountingFacts DEF Allowed, CapacityForEntry
  <1>2. db.ev.capacity # None => CapacityForEntry(db.ev, "public") <= n
    BY <1>1, EntryCapacityRange
  <1> QED BY <1>2 DEF Counting, Allowed

LEMMA CommittedWithin ==
    ASSUME NEW n, NEW dbs, \A d \in dbs : Within(d, n), Commit(dbs)
    PROVE  Within(db', n)
  BY DEF Commit

LEMMA WithinHeld ==
    ASSUME NEW channel, NEW n, Counting(channel, n), NEW d, Within(d, n)
    PROVE  Held(d, now, db.ev, n) /\ SamePlaces(d.ev, db.ev)
  <1>1. n \in Nat /\ Held(db, now, db.ev, n)
    BY CountingFacts
  <1>2. Held(d, now, db.ev, n)
    BY <1>1, FewerHeld, FitsHeld DEF Within
  <1> QED BY <1>2 DEF Held

\* Whatever serves the line afterwards stays within.
LEMMA FilledWithin ==
    ASSUME NEW channel, NEW n, Counting(channel, n), NEW d, GoodRows(d), Within(d, n)
    PROVE  /\ GoodRows(FillAvailableSpots(d, now)) /\ Swept(d, FillAvailableSpots(d, now), now)
           /\ Within(FillAvailableSpots(d, now), n)
  <1>1. /\ now \in Time /\ n \in Nat /\ db.ev \in StoredEvent /\ Allowed(db.ev, channel, n)
        /\ Held(d, now, db.ev, n)
    BY CountingFacts, WithinHeld
  <1>2. /\ GoodRows(FillAvailableSpots(d, now)) /\ Swept(d, FillAvailableSpots(d, now), now)
        /\ d.ev.status = "CANCELLED" => FillAvailableSpots(d, now) = d
        /\ d.ev.status # "CANCELLED" => Fits(FillAvailableSpots(d, now), now, db.ev, n)
    BY <1>1, FillAvailableSpotsFits
  <1> QED BY <1>2 DEF Within

LEMMA ServedWithin ==
    ASSUME NEW channel, NEW n, Counting(channel, n), NEW d, GoodRows(d), Within(d, n)
    PROVE  /\ GoodRows(Served(d, now)) /\ Swept(d, Served(d, now), now)
           /\ AllOpen(Served(d, now), now) /\ Fits(Served(d, now), now, db.ev, n)
  BY CountingFacts, WithinHeld, ServedFits

LEMMA ExpiredWithin ==
    ASSUME NEW channel, NEW n, Counting(channel, n), NEW d, GoodRows(d), Within(d, n)
    PROVE  /\ GoodRows(Expired(d, now)) /\ Swept(d, Expired(d, now), now)
           /\ AllOpen(Expired(d, now), now) /\ Fits(Expired(d, now), now, db.ev, n)
  BY CountingFacts, WithinHeld, ExpiredSweeps

LEMMA AllocatedWithin ==
    ASSUME NEW channel, NEW n, Counting(channel, n), NEW d, GoodRows(d), Within(d, n),
           NEW p \in Person, NEW how \in Way, ~how.invited, how.channel = channel
    PROVE  /\ \A e \in Allocated(d, p, now, how) :
                 GoodRows(e) /\ Fits(e, now, db.ev, n) /\ e.reg[p].status \in Moving
           /\ \A e \in AllocatedWithEmail(d, p, now, how) : Within(e, n)
  <1>1. /\ now \in Time /\ n \in Nat /\ db.ev \in StoredEvent /\ Allowed(db.ev, how.channel, n)
        /\ Held(d, now, db.ev, n)
    BY CountingFacts, WithinHeld
  <1> QED BY <1>1, AllocatedFits, AllocatedWithEmailFits DEF Within

LEMMA FewerWithin ==
    ASSUME NEW channel, NEW n, Counting(channel, n), NEW d, Within(d, n), NEW e, Fewer(d, e, now)
    PROVE  Within(e, n)
  <1>1. CASE Fewer(db, d, now)
    BY <1>1, FewerTwice DEF Within
  <1>2. CASE Fits(d, now, db.ev, n)
    <2>1. n \in Nat /\ SamePlaces(e.ev, db.ev) /\ Claims(e, now) \subseteq Claims(d, now)
      BY <1>2, CountingFacts DEF Fewer, Fits, SamePlaces
    <2> QED BY <1>2, <2>1, FitsWithFewer DEF Within
  <1> QED BY <1>1, <1>2 DEF Within

-----------------------------------------------------------------------------
(***************************************************************************)
(* Entries.                                                                *)
(***************************************************************************)
\* Held family places that go, and addresses that are proved, are no claims.
LEMMA FewerFamilyPlaces ==
    ASSUME NEW d, NEW t, NEW e, SamePlaces(e.ev, d.ev), e.reg = d.reg, e.inv = d.inv,
           e.mail \subseteq d.mail,
           \A q \in Person : e.fam[q] = d.fam[q] \/ e.fam[q] = None
    PROVE  Fewer(d, e, t)
  <1>1. \A q \in Person : Ahead(e.fam[q], t) => Ahead(d.fam[q], t)
    BY DEF Ahead
  <1>2. \A q \in Person : RowKept(e.reg[q], d.reg[q], t)
    BY DEF RowKept
  <1> QED BY <1>1, <1>2, RowsKeptAreFewer

LEMMA RowKeptFewer ==
    ASSUME NEW d, GoodRows(d), NEW p \in Person, NEW r, NEW t, RowKept(r, d.reg[p], t),
           NEW e, e = [d EXCEPT !.reg[p] = r]
    PROVE  Fewer(d, e, t)
  <1>1. /\ e.ev = d.ev /\ e.mail = d.mail /\ e.fam = d.fam /\ e.inv = d.inv
        /\ e.reg[p] = r /\ \A q \in Person \ {p} : e.reg[q] = d.reg[q]
    BY RowReplaced
  <1>2. \A q \in Person : RowKept(e.reg[q], d.reg[q], t)
    BY <1>1 DEF RowKept
  <1> QED BY <1>1, <1>2, RowsKeptAreFewer DEF SamePlaces

\* Whoever may enter has no registration's claim, and the form's row makes none.
LEMMA EnteringFewer ==
    ASSUME NEW d, GoodRows(d), NEW p \in Person, NEW t \in Time, MayEnter(d, p)
    PROVE  /\ GoodRows([d EXCEPT !.reg[p].outside = FALSE])
           /\ Fewer(d, [d EXCEPT !.reg[p].outside = FALSE], t)
           /\ \A staff \in BOOLEAN : /\ GoodRows(WithForm(d, p, t, staff))
                                     /\ Fewer(d, WithForm(d, p, t, staff), t)
  <1>1. Fewer(d, [d EXCEPT !.reg[p].outside = FALSE], t)
    <2> DEFINE r == [d.reg[p] EXCEPT !.outside = FALSE]
               e == [d EXCEPT !.reg[p] = r]
    <2>1. r.status = d.reg[p].status
      BY RowsAre DEF Registration
    <2>2. ~RegClaim(r, t)
      BY <2>1 DEF MayEnter, Terminal, RegClaim
    <2>3. RowKept(r, d.reg[p], t)
      BY <2>2 DEF RowKept
    <2>4. e = [d EXCEPT !.reg[p].outside = FALSE]
      OBVIOUS
    <2>6. e = [d EXCEPT !.reg[p] = r]
      OBVIOUS
    <2> HIDE DEF r, e
    <2>5. Fewer(d, e, t)
      BY <2>3, <2>6, RowKeptFewer
    <2> QED BY <2>4, <2>5
  <1>2. ASSUME NEW staff \in BOOLEAN PROVE Fewer(d, WithForm(d, p, t, staff), t)
    <2> DEFINE r == [Absent EXCEPT !.status = "PENDING_EMAIL_CONFIRMATION",
                                   !.link = t + LinkTime, !.staff = staff]
    <2>1. r.hold = None /\ r.status = "PENDING_EMAIL_CONFIRMATION"
      BY DEF Absent
    <2>2. RowKept(r, d.reg[p], t)
      BY <2>1 DEF RegClaim, Ahead, RowKept
    <2>3. WithForm(d, p, t, staff) = [d EXCEPT !.reg[p] = r]
      BY DEF WithForm
    <2> HIDE DEF r
    <2> QED BY <2>2, <2>3, RowKeptFewer
  <1> QED BY <1>1, <1>2, NewOutside, WithFormGood

LEMMA EnteredWithin ==
    ASSUME NEW channel, NEW n, Counting(channel, n), NEW p \in Person, MayEnter(db, p),
           NEW how \in Way, ~how.invited, how.channel = channel,
           NEW e \in Entered(db, p, now, how)
    PROVE  Within(e, n)
  <1> DEFINE again == [db EXCEPT !.reg[p].outside = FALSE]
             form == WithForm(db, p, now, how.channel = "staff")
  <1>1. /\ GoodRows(again) /\ Fewer(db, again, now)
        /\ GoodRows(form) /\ Fewer(db, form, now)
    BY CountingFacts, EnteringFewer
  <1>2. e \in AllocatedWithEmail(again, p, now, how) \/ e = form
    BY DEF Entered
  <1> HIDE DEF again, form
  <1>3. Within(again, n) /\ Within(form, n)
    BY <1>1 DEF Within
  <1> QED BY <1>1, <1>2, <1>3, AllocatedWithin

LEMMA ReservedWithin ==
    ASSUME NEW n, Counting("public", n), NEW d, GoodRows(d), Within(d, n),
           NEW p \in Person, NEW until
    PROVE  Within(Reserved(d, p, now, until), n)
  <1> DEFINE e == Served(d, now)
             r == [e.reg[p] EXCEPT !.hold = until]
             f == [e EXCEPT !.reg[p] = r]
  <1>1. GoodRows(e) /\ Fits(e, now, db.ev, n) /\ AllOpen(e, now)
    BY ServedWithin
  <1>2. \/ Reserved(d, p, now, until) \in {d, e}
        \/ (Reserved(d, p, now, until) = f /\ FreeFor(e, now, "public"))
    BY DEF Reserved
  <1>4. f = [e EXCEPT !.reg[p] = r]
    OBVIOUS
  <1> HIDE DEF e, r, f
  <1>5. n \in Nat /\ Allowed(db.ev, "public", n) /\ db.ev \in StoredEvent /\ SamePlaces(e.ev, db.ev)
    BY <1>1, CountingFacts DEF Fits
  <1>3. FreeFor(e, now, "public") => Fits(f, now, db.ev, n)
    <2>1. FreeFor(e, now, "public") => RoomForOne(e, now, db.ev, n)
      BY <1>1, <1>5, FreeForIsRoom
    <2> QED BY <1>1, <1>4, <1>5, <2>1, RowGivenFits
  <1> QED BY <1>1, <1>2, <1>3 DEF Within

LEMMA FamilyPlaceHeldWithin ==
    ASSUME NEW n, Counting("public", n), NEW p \in Person, NEW until
    PROVE  Within(FamilyPlaceHeld(db, p, now, until), n)
  <1> DEFINE cleared == [db EXCEPT !.fam[p] = IF Past(@, now) THEN None ELSE @]
             e == Served(cleared, now)
             f == [e EXCEPT !.fam[p] = until]
  <1>1. GoodRows(cleared) /\ Within(cleared, n)
    <2>1. /\ cleared.ev = db.ev /\ cleared.reg = db.reg /\ cleared.inv = db.inv
          /\ cleared.mail = db.mail
          /\ \A q \in Person : cleared.fam[q] = db.fam[q] \/ cleared.fam[q] = None
      BY CountingFacts DEF GoodRows, Database
    <2>2. GoodRows(cleared)
      BY CountingFacts, NewFamilyPlace DEF GoodRows, Database
    <2> HIDE DEF cleared
    <2>3. Fewer(db, cleared, now)
      BY <2>1, FewerFamilyPlaces DEF SamePlaces
    <2> QED BY <2>2, <2>3 DEF Within
  <1>3. \/ FamilyPlaceHeld(db, p, now, until) \in {db, e}
        \/ FamilyPlaceHeld(db, p, now, until) = f /\ FreeFor(e, now, "public")
    BY DEF FamilyPlaceHeld
  <1> HIDE DEF cleared
  <1>4. GoodRows(e) /\ Fits(e, now, db.ev, n) /\ AllOpen(e, now)
    BY <1>1, ServedWithin
  <1> HIDE DEF e
  <1>5. /\ f.ev = e.ev /\ f.reg = e.reg /\ f.inv = e.inv
        /\ \A q \in Person \ {p} : f.fam[q] = e.fam[q]
    BY <1>4 DEF GoodRows, Database
  <1> HIDE DEF f
  <1>6. Claims(f, now) \subseteq Claims(e, now) \cup {<<"family", p>>}
    <2>1. \A q \in Person : Ahead(f.fam[q], now)
              => Ahead(e.fam[q], now) \/ <<"family", q>> \in {<<"family", p>>}
      BY <1>5
    <2> QED BY <1>5, <2>1, ClaimsWithin
  <1>8. /\ n \in Nat /\ Allowed(db.ev, "public", n) /\ db.ev \in StoredEvent
        /\ SamePlaces(e.ev, db.ev) /\ SamePlaces(f.ev, db.ev)
    BY <1>4, <1>5, CountingFacts DEF Fits
  <1>7. FreeFor(e, now, "public") => Fits(f, now, db.ev, n)
    <2>1. FreeFor(e, now, "public") => RoomForOne(e, now, db.ev, n)
      BY <1>4, <1>8, FreeForIsRoom
    <2> QED BY <1>6, <1>8, <2>1, FitsWithOneMore
  <1> QED BY <1>3, <1>4, <1>7, CountingFacts DEF Within

LEMMA PublicAndStaffWays ==
    /\ \A channel \in Channel : Entry(channel) \in Way /\ ~Entry(channel).invited
    /\ \A channel : Entry(channel).channel = channel
    /\ VouchedEntry \in Way /\ ~VouchedEntry.invited /\ VouchedEntry.channel = "staff"
    /\ "public" \in Channel /\ "staff" \in Channel
  BY Ways DEF Entry, VouchedEntry, Channel

LEMMA PublicEntryWithin ==
    ASSUME NEW n, Counting("public", n), NEW p \in Person,
           \/ Submit(p)
           \/ ConfirmFamilyEntry(p)
           \/ \E until \in SittingDeadlines(now) : SubmitInSitting(p, until)
           \/ \E until \in SittingDeadlines(now) : HoldFamilyPlace(p, until)
    PROVE  Within(db', n)
  <1>1. GoodRows(db) /\ now \in Time /\ Within(db, n)
    BY CountingFacts
  <1>3. CASE Submit(p)
    <2>1. \A e \in Entered(db, p, now, Entry("public")) : Within(e, n)
      BY <1>3, PublicAndStaffWays, EnteredWithin DEF Submit
    <2> QED BY <1>3, <2>1, CommittedWithin DEF Submit
  <1>6. CASE ConfirmFamilyEntry(p)
    <2> DEFINE row == IF p \in db.verified THEN [db EXCEPT !.reg[p].outside = FALSE]
                      ELSE WithForm(db, p, now, FALSE)
               proved == [row EXCEPT !.fam[p] = None, !.verified = @ \cup {p}]
    <2>1. GoodRows(row) /\ Within(row, n)
      BY <1>1, <1>6, EnteringFewer DEF ConfirmFamilyEntry, Within
    <2>2. Commit(AllocatedWithEmail(proved, p, now, Entry("public")))
      BY <1>6 DEF ConfirmFamilyEntry
    <2> HIDE DEF row
    <2>3. GoodRows(proved)
      <3> DEFINE freed == [row EXCEPT !.fam[p] = None]
      <3>1. GoodRows(freed)
        BY <2>1, NewFamilyPlace
      <3>2. freed.verified \cup {p} \in SUBSET Person /\ freed.verified = row.verified
        BY <2>1 DEF GoodRows, Database
      <3>3. proved = [freed EXCEPT !.verified = freed.verified \cup {p}]
        BY <2>1 DEF GoodRows, Database
      <3> HIDE DEF freed, proved
      <3> QED BY <3>1, <3>2, <3>3, NewVerified
    <2>4. /\ proved.ev = row.ev /\ proved.reg = row.reg /\ proved.inv = row.inv
          /\ proved.mail = row.mail
          /\ \A q \in Person : proved.fam[q] = row.fam[q] \/ proved.fam[q] = None
      BY <2>1 DEF GoodRows, Database
    <2> HIDE DEF proved
    <2>5. Within(proved, n)
      <3>1. Fewer(row, proved, now)
        BY <2>4, FewerFamilyPlaces DEF SamePlaces
      <3> QED BY <2>1, <3>1, FewerWithin
    <2>6. \A e \in AllocatedWithEmail(proved, p, now, Entry("public")) : Within(e, n)
      BY <2>3, <2>5, PublicAndStaffWays, AllocatedWithin
    <2> QED BY <2>2, <2>6, CommittedWithin
  <1>7. CASE \E until \in SittingDeadlines(now) : SubmitInSitting(p, until)
    <2>1. PICK until : SubmitInSitting(p, until)
      BY <1>7
    <2> DEFINE row == WithForm(db, p, now, FALSE)
    <2>2. GoodRows(row) /\ Within(row, n)
      BY <1>1, <2>1, EnteringFewer DEF SubmitInSitting, Within
    <2> HIDE DEF row
    <2>3. Within(Reserved(row, p, now, until), n)
      BY <2>2, ReservedWithin
    <2> QED BY <2>1, <2>3, CommittedWithin DEF SubmitInSitting, row
  <1>8. CASE \E until \in SittingDeadlines(now) : HoldFamilyPlace(p, until)
    <2>1. PICK until : HoldFamilyPlace(p, until)
      BY <1>8
    <2>2. Within(FamilyPlaceHeld(db, p, now, until), n)
      BY FamilyPlaceHeldWithin
    <2> QED BY <2>1, <2>2, CommittedWithin DEF HoldFamilyPlace
  <1> QED BY <1>3, <1>6, <1>7, <1>8

LEMMA StaffEntryWithin ==
    ASSUME NEW n, Counting("staff", n), NEW p \in Person, SubmitByStaff(p) \/ SubmitVouched(p)
    PROVE  Within(db', n)
  <1>1. GoodRows(db) /\ now \in Time /\ Within(db, n)
    BY CountingFacts
  <1>4. CASE SubmitByStaff(p)
    <2>1. \A e \in Entered(db, p, now, Entry("staff")) : Within(e, n)
      BY <1>4, PublicAndStaffWays, EnteredWithin DEF SubmitByStaff
    <2> QED BY <1>4, <2>1, CommittedWithin DEF SubmitByStaff
  <1>5. CASE SubmitVouched(p)
    <2> DEFINE row == IF p \in db.verified THEN [db EXCEPT !.reg[p].outside = FALSE]
                      ELSE WithForm(db, p, now, TRUE)
    <2>1. GoodRows(row) /\ Within(row, n)
      BY <1>1, <1>5, EnteringFewer DEF SubmitVouched, Within
    <2>2. Commit(AllocatedWithEmail(row, p, now, VouchedEntry))
      BY <1>5 DEF SubmitVouched
    <2> HIDE DEF row
    <2>3. \A e \in AllocatedWithEmail(row, p, now, VouchedEntry) : Within(e, n)
      BY <2>1, PublicAndStaffWays, AllocatedWithin
    <2> QED BY <2>2, <2>3, CommittedWithin
  <1> QED BY <1>4, <1>5

-----------------------------------------------------------------------------
(***************************************************************************)
(* Confirming, signing, leaving.                                           *)
(***************************************************************************)
\* A confirmed place was one its holder had, or one the count found free.
LEMMA ConfirmedFits ==
    ASSUME NEW d, GoodRows(d), NEW p \in Person, NEW t, NEW ev, NEW n \in Nat,
           \/ RoomForOne(d, t, ev, n)
           \/ Fits(d, t, ev, n) /\ d.reg[p].status \in {"PENDING_DECLARATION", "WAITLIST_OFFERED"}
    PROVE  GoodRows(Confirmed(d, p)) /\ Fits(Confirmed(d, p), t, ev, n)
  <1> DEFINE e == Confirmed(d, p)
             r == Moved(d.reg[p], "CONFIRMED", None)
  <1>1. e = [d EXCEPT !.reg[p] = r] /\ GoodRows(e)
    BY ConfirmedGood DEF Confirmed
  <1>2. r.outside = d.reg[p].outside
    BY RowsAre DEF Moved, Registration
  <1> HIDE DEF e, r
  <1>3. CASE RoomForOne(d, t, ev, n)
    BY <1>1, <1>3, RowGivenFits DEF e
  <1>4. CASE Fits(d, t, ev, n) /\ d.reg[p].status \in {"PENDING_DECLARATION", "WAITLIST_OFFERED"}
    <2>1. RegClaim(r, t) => RegClaim(d.reg[p], t)
      BY <1>2, <1>4 DEF RegClaim
    <2>2. Fits(e, t, ev, n)
      BY <1>1, <1>4, <2>1, RowChangedFits
    <2> QED BY <1>1, <2>2 DEF e
  <1> QED BY <1>3, <1>4

\* A place signed for while it counts was counted, and an offer that lapsed was still claimed.
LEMMA ConfirmedFewer ==
    ASSUME NEW d, GoodRows(d), NEW p \in Person, NEW t,
           d.reg[p].status \in {"PENDING_DECLARATION", "WAITLIST_OFFERED"}
    PROVE  /\ SamePlaces(Confirmed(d, p).ev, d.ev)
           /\ Claims(Confirmed(d, p), t) \subseteq Claims(d, t)
           /\ Confirmed(d, p).reg[p].status = "CONFIRMED"
           /\ (d.reg[p].status = "WAITLIST_OFFERED" => OpenOffer(d, p, t))
              => Fewer(d, Confirmed(d, p), t)
  <1> DEFINE e == Confirmed(d, p)
             r == Moved(d.reg[p], "CONFIRMED", None)
  <1>1. e = [d EXCEPT !.reg[p] = r] /\ GoodRows(e)
    BY ConfirmedGood DEF Confirmed
  <1>2. r.outside = d.reg[p].outside /\ r.status = "CONFIRMED"
    BY RowsAre DEF Moved, Registration
  <1> HIDE DEF e, r
  <1>3. RegClaim(r, t) => RegClaim(d.reg[p], t)
    BY <1>2 DEF RegClaim
  <1>4. /\ e.ev = d.ev /\ e.mail = d.mail /\ e.fam = d.fam /\ e.inv = d.inv
        /\ e.reg[p] = r /\ \A q \in Person \ {p} : e.reg[q] = d.reg[q]
    BY <1>1 DEF GoodRows, Database
  <1>5. Claims(e, t) \subseteq Claims(d, t)
    BY <1>1, <1>3, RowChanged
  <1>6. ASSUME d.reg[p].status = "WAITLIST_OFFERED" => OpenOffer(d, p, t)
        PROVE  Fewer(d, e, t)
    <2>1. ASSUME NEW q \in Person, RegTaken(e, q, t) PROVE RegTaken(d, q, t)
      <3>1. CASE q = p
        BY <1>3, <1>4, <1>6, <2>1, <3>1 DEF RegTaken
      <3>2. CASE q # p
        BY <1>4, <2>1, <3>2 DEF RegTaken, OpenOffer, OfferAwaitingItsFirstEmail, EmailQueued
      <3> QED BY <3>1, <3>2
    <2>2. Taken(e, t) \subseteq Taken(d, t)
      BY <1>4, <2>1, TakenWithin
    <2> QED BY <1>4, <1>5, <2>2 DEF Fewer, SamePlaces
  <1> QED BY <1>2, <1>4, <1>5, <1>6 DEF e, SamePlaces

\* A row that leaves for good gives its claim up.
LEMMA LeavingFewer ==
    ASSUME NEW d, GoodRows(d), NEW p \in Person, NEW t, NEW status \in Terminal
    PROVE  /\ GoodRows([d EXCEPT !.reg[p] = Moved(@, status, None)])
           /\ Fewer(d, [d EXCEPT !.reg[p] = Moved(@, status, None)], t)
  <1> DEFINE r == Moved(d.reg[p], status, None)
             e == [d EXCEPT !.reg[p] = r]
  <1>1. GoodRows([d EXCEPT !.reg[p] = Moved(@, status, None)])
    BY MovedGood DEF Settled, Terminal
  <1>2. r.status = status
    BY RowsAre DEF Moved, Registration
  <1>3. RowKept(r, d.reg[p], t)
    BY <1>2 DEF RegClaim, Terminal, RowKept
  <1>4. e = [d EXCEPT !.reg[p] = Moved(@, status, None)] /\ e = [d EXCEPT !.reg[p] = r]
    OBVIOUS
  <1> HIDE DEF r, e
  <1>5. Fewer(d, e, t)
    BY <1>3, <1>4, RowKeptFewer
  <1> QED BY <1>1, <1>4, <1>5

LEMMA ConfirmEmailWithin ==
    ASSUME NEW p \in Person, NEW n,
           Counting(IF db.reg[p].staff THEN "staff" ELSE "public", n), ConfirmEmail(p)
    PROVE  Within(db', n)
  <1> DEFINE proved == [db EXCEPT !.verified = @ \cup {p}]
             channel == IF db.reg[p].staff THEN "staff" ELSE "public"
             how == Entry(channel)
  <1>c. Counting(channel, n)
    OBVIOUS
  <1>3. how \in Way /\ ~how.invited /\ how.channel = channel
    BY PublicAndStaffWays
  <1>4. \/ Commit({[db EXCEPT !.reg[p] = Moved(@, "EXPIRED", None)]})
        \/ Commit(AllocatedWithEmail(proved, p, now, how))
    BY DEF ConfirmEmail
  <1> HIDE DEF channel, how
  <1>1. GoodRows(db)
    BY <1>c, CountingFacts
  <1>2. GoodRows(proved) /\ Within(proved, n)
    <2>1. db.verified \cup {p} \in SUBSET Person
      BY <1>1 DEF GoodRows, Database
    <2>2. GoodRows(proved)
      BY <1>1, <2>1, NewVerified
    <2>3. /\ proved.ev = db.ev /\ proved.reg = db.reg /\ proved.fam = db.fam
          /\ proved.inv = db.inv /\ proved.mail = db.mail
      BY <1>1 DEF GoodRows, Database
    <2> HIDE DEF proved
    <2>4. Fewer(db, proved, now)
      BY <2>3, FewerFamilyPlaces DEF SamePlaces
    <2> QED BY <2>2, <2>4 DEF Within
  <1> HIDE DEF proved
  <1>5. \A e \in AllocatedWithEmail(proved, p, now, how) : Within(e, n)
    BY <1>c, <1>2, <1>3, AllocatedWithin
  <1>6. Within([db EXCEPT !.reg[p] = Moved(@, "EXPIRED", None)], n)
    BY <1>1, LeavingFewer DEF Terminal, Within
  <1> QED BY <1>4, <1>5, <1>6, CommittedWithin

LEMMA SignDeclarationWithin ==
    ASSUME NEW p \in Person, NEW n, Counting("staff", n), SignDeclaration(p)
    PROVE  Within(db', n)
  <1> DEFINE first == IF ReleaseDue(db, now) THEN Expired(db, now) ELSE db
             swept == Expired(first, now)
             placed == IF swept.reg[p].status = "EXPIRED"
                       THEN Allocated(swept, p, now, Entry("staff")) ELSE {swept}
             signed(d) == IF d.reg[p].status = "WAITLISTED" THEN d
                          ELSE FillAvailableSpots(Confirmed(d, p), now)
  <1>1. GoodRows(db) /\ now \in Time /\ Within(db, n) /\ n \in Nat
    BY CountingFacts
  <1>2. GoodRows(first) /\ Within(first, n) /\ first.reg[p].status \in Moving
    <2>1. db.reg[p].status \in Moving
      BY DEF SignDeclaration, Moving
    <2>2. /\ GoodRows(Expired(db, now)) /\ Fits(Expired(db, now), now, db.ev, n)
          /\ Swept(db, Expired(db, now), now)
      BY <1>1, ExpiredWithin
    <2>3. Expired(db, now).reg[p].status \in Moving
      BY <2>1, <2>2 DEF Swept, RowSwept
    <2> QED BY <1>1, <2>1, <2>2, <2>3 DEF Within
  <1>3. Commit({first}) \/ Commit({signed(d) : d \in {c \in placed : c.reg[p].status # "EXPIRED"}})
    BY DEF SignDeclaration
  <1> HIDE DEF first
  <1>4. GoodRows(swept) /\ Fits(swept, now, db.ev, n) /\ swept.reg[p].status \in Moving
    <2>1. GoodRows(swept) /\ Fits(swept, now, db.ev, n) /\ Swept(first, swept, now)
      BY <1>2, ExpiredWithin
    <2> QED BY <1>2, <2>1 DEF Swept, RowSwept
  <1> HIDE DEF swept
  <1>5. ASSUME NEW d \in placed
        PROVE  GoodRows(d) /\ Fits(d, now, db.ev, n) /\ d.reg[p].status \in Moving
    <2>1. CASE swept.reg[p].status = "EXPIRED"
      <3>1. d \in Allocated(swept, p, now, Entry("staff"))
        BY <2>1
      <3>2. Within(swept, n)
        BY <1>4 DEF Within
      <3> QED BY <1>4, <3>1, <3>2, PublicAndStaffWays, AllocatedWithin
    <2>2. CASE swept.reg[p].status # "EXPIRED"
      BY <1>4, <2>2
    <2> QED BY <2>1, <2>2
  <1> HIDE DEF placed
  <1>6. ASSUME NEW d \in placed, d.reg[p].status # "EXPIRED" PROVE Within(signed(d), n)
    <2>1. CASE d.reg[p].status = "WAITLISTED"
      BY <1>5, <2>1 DEF Within
    <2>2. CASE d.reg[p].status # "WAITLISTED"
      <3>1. d.reg[p].status \in {"PENDING_DECLARATION", "WAITLIST_OFFERED"}
        BY <1>5, <1>6, <2>2 DEF Moving
      <3>2. GoodRows(Confirmed(d, p)) /\ Within(Confirmed(d, p), n)
        BY <1>1, <1>5, <3>1, ConfirmedFits DEF Within
      <3> QED BY <2>2, <3>2, FilledWithin
    <2> QED BY <2>1, <2>2
  <1> HIDE DEF signed
  <1>7. \A e \in {signed(d) : d \in {c \in placed : c.reg[p].status # "EXPIRED"}} : Within(e, n)
    BY <1>6
  <1> QED BY <1>2, <1>3, <1>7, CommittedWithin

\* The desk confirms the holder of an offer that lapsed, and does not count: the one claim
\* that is taken to the letter once nobody counts it any more.
LapsedOfferConfirmed(p) ==
    /\ db.reg[p].status = "WAITLIST_OFFERED" /\ ~OpenOffer(db, p, now)
    /\ db'.reg[p].status = "CONFIRMED"
    /\ SamePlaces(db'.ev, db.ev) /\ Claims(db', now) \subseteq Claims(db, now)

LEMMA ConfirmByStaffWithin ==
    ASSUME NEW p \in Person, NEW n, Counting("staff", n), ConfirmByStaff(p)
    PROVE  Within(db', n) \/ LapsedOfferConfirmed(p)
  <1> DEFINE r == db.reg[p]
             placed == IF r.status = "PENDING_EMAIL_CONFIRMATION" \/ LateSigner(r)
                       THEN Allocated(db, p, now, Entry("staff")) ELSE {db}
             accepted == {IF d.reg[p].status = "WAITLISTED" THEN d ELSE Confirmed(d, p) :
                             d \in {e \in placed : e.reg[p].status # "EXPIRED"}}
  <1>1. GoodRows(db) /\ now \in Time /\ Within(db, n) /\ n \in Nat
    BY CountingFacts
  <1>2. Commit(accepted)
    BY DEF ConfirmByStaff
  <1>3. CASE r.status = "PENDING_EMAIL_CONFIRMATION" \/ LateSigner(r)
    <2>1. placed = Allocated(db, p, now, Entry("staff"))
      BY <1>3
    <2> HIDE DEF placed
    <2>2. ASSUME NEW d \in placed
          PROVE  GoodRows(d) /\ Fits(d, now, db.ev, n) /\ d.reg[p].status \in Moving
      BY <1>1, <2>1, PublicAndStaffWays, AllocatedWithin
    <2>3. ASSUME NEW d \in placed, d.reg[p].status # "EXPIRED"
          PROVE  Within(IF d.reg[p].status = "WAITLISTED" THEN d ELSE Confirmed(d, p), n)
      <3>1. CASE d.reg[p].status = "WAITLISTED"
        BY <2>2, <3>1 DEF Within
      <3>2. CASE d.reg[p].status # "WAITLISTED"
        <4>1. d.reg[p].status \in {"PENDING_DECLARATION", "WAITLIST_OFFERED"}
          BY <2>2, <2>3, <3>2 DEF Moving
        <4> QED BY <1>1, <2>2, <3>2, <4>1, ConfirmedFits DEF Within
      <3> QED BY <3>1, <3>2
    <2>4. \A e \in accepted : Within(e, n)
      BY <2>3
    <2> HIDE DEF accepted
    <2> QED BY <1>2, <2>4, CommittedWithin
  <1>4. CASE ~(r.status = "PENDING_EMAIL_CONFIRMATION" \/ LateSigner(r))
    <2>1. r.status \in {"PENDING_DECLARATION", "WAITLIST_OFFERED"}
      BY <1>4 DEF ConfirmByStaff
    <2>2. accepted = {Confirmed(db, p)}
      BY <1>4, <2>1
    <2>3. db' = Confirmed(db, p)
      BY <1>2, <2>2 DEF Commit
    <2>4. /\ SamePlaces(Confirmed(db, p).ev, db.ev)
          /\ Claims(Confirmed(db, p), now) \subseteq Claims(db, now)
          /\ Confirmed(db, p).reg[p].status = "CONFIRMED"
          /\ (db.reg[p].status = "WAITLIST_OFFERED" => OpenOffer(db, p, now))
             => Fewer(db, Confirmed(db, p), now)
      BY <1>1, <2>1, ConfirmedFewer
    <2> QED BY <2>3, <2>4 DEF Within, LapsedOfferConfirmed
  <1> QED BY <1>3, <1>4

LEMMA UnregisterWithin ==
    ASSUME NEW p \in Person, NEW n, Counting("staff", n), Unregister(p)
    PROVE  Within(db', n)
  <1> DEFINE left == [db EXCEPT !.reg[p] = Moved(@, "CANCELLED", None)]
  <1>1. GoodRows(left) /\ Within(left, n)
    BY CountingFacts, LeavingFewer DEF Terminal, Within
  <1>2. Commit({FillAvailableSpots(left, now)})
    BY DEF Unregister
  <1> HIDE DEF left
  <1> QED BY <1>1, <1>2, FilledWithin, CommittedWithin

LEMMA PromoteWithin ==
    ASSUME NEW p \in Person, NEW n, Counting("staff", n), Promote(p)
    PROVE  Within(db', n)
  <1> DEFINE e == Expired(db, now)
  <1>1. /\ GoodRows(e) /\ AllOpen(e, now) /\ Fits(e, now, db.ev, n)
        /\ n \in Nat /\ db.ev \in StoredEvent /\ Allowed(db.ev, "staff", n)
    BY CountingFacts, ExpiredWithin
  <1>2. HasRoom(e.ev, Occupied(e, now)) /\ Commit({FillAvailableSpots(Confirmed(e, p), now)})
    BY DEF Promote
  <1> HIDE DEF e
  <1>3. RoomForOne(e, now, db.ev, n)
    BY <1>1, <1>2, HasRoomIsRoom DEF Fits
  <1>4. GoodRows(Confirmed(e, p)) /\ Within(Confirmed(e, p), n)
    BY <1>1, <1>3, ConfirmedFits DEF Within
  <1> QED BY <1>2, <1>4, FilledWithin, CommittedWithin

-----------------------------------------------------------------------------
(***************************************************************************)
(* The places the staff give, one more in the capacity where it was full.  *)
(***************************************************************************)
Supplemented(ev, before) ==
    /\ ev.kept = before.kept
    /\ \/ ev.capacity = before.capacity
       \/ before.capacity # None /\ ev.capacity = before.capacity + 1

\* Within n places, once these cover what was held and all there are after the step.
Given(d, n) ==
    /\ Supplemented(d.ev, db.ev)
    /\ Allowed(d.ev, "staff", n) /\ (d.ev.capacity = None \/ Occupied(db, now) <= n)
       => Fits(d, now, d.ev, n)

LEMMA CommittedGiven ==
    ASSUME NEW n, NEW dbs, \A d \in dbs : Given(d, n), Commit(dbs)
    PROVE  Given(db', n)
  BY DEF Commit

\* Some number covers what is held and what there is.
LEMMA SomeCount ==
    ASSUME NEW d, GoodRows(d), NEW t
    PROVE  \E n \in Nat : Allowed(d.ev, "staff", n) /\ Held(d, t, d.ev, n)
  <1>1. d.ev.capacity \in Nat \cup {None} /\ Occupied(d, t) \in Nat
    BY CapacityRange, TakenFinite
  <1>2. CASE d.ev.capacity = None
    <2>1. 0 \in Nat /\ Allowed(d.ev, "staff", 0) /\ Held(d, t, d.ev, 0)
      BY <1>2 DEF Allowed, Held, SamePlaces
    <2> QED BY <2>1
  <1>3. CASE d.ev.capacity # None
    <2> DEFINE n == Occupied(d, t) + d.ev.capacity
    <2>1. n \in Nat /\ d.ev.capacity <= n /\ Occupied(d, t) <= n
      BY <1>1, <1>3
    <2> HIDE DEF n
    <2>2. Allowed(d.ev, "staff", n) /\ Held(d, t, d.ev, n)
      BY <2>1 DEF Allowed, Held, SamePlaces, CapacityForEntry
    <2> QED BY <2>1, <2>2
  <1> QED BY <1>2, <1>3

\* What the sweeps leave alone, whatever the count.
LEMMA FilledSwept ==
    ASSUME NEW d, GoodRows(d), NEW t \in Time
    PROVE  /\ GoodRows(FillAvailableSpots(d, t)) /\ Swept(d, FillAvailableSpots(d, t), t)
           /\ d.ev.status # "CANCELLED" => AllOpen(FillAvailableSpots(d, t), t)
  <1>1. PICK n \in Nat : Allowed(d.ev, "staff", n) /\ Held(d, t, d.ev, n)
    BY SomeCount
  <1>2. d.ev \in StoredEvent
    BY CapacityRange
  <1> QED BY <1>1, <1>2, FillAvailableSpotsFits

LEMMA ExpiredSwept ==
    ASSUME NEW d, GoodRows(d), NEW t \in Time
    PROVE  /\ GoodRows(Expired(d, t)) /\ Swept(d, Expired(d, t), t)
           /\ AllOpen(Expired(d, t), t)
           /\ Fits(Expired(d, t), t, d.ev, Occupied(d, t))
  <1>1. Occupied(d, t) \in Nat
    BY TakenFinite
  <1>2. Held(d, t, d.ev, Occupied(d, t))
    BY <1>1 DEF Held, SamePlaces
  <1> QED BY <1>1, <1>2, ExpiredSweeps

\* The line is served after the place was given.
LEMMA FilledGiven ==
    ASSUME TypeOK, NEW n \in Nat, NEW d, GoodRows(d), Given(d, n)
    PROVE  Given(FillAvailableSpots(d, now), n)
  <1> DEFINE e == FillAvailableSpots(d, now)
  <1>1. GoodRows(d) /\ now \in Time /\ d.ev \in StoredEvent
    BY CapacityRange DEF TypeOK
  <1>2. GoodRows(e) /\ SamePlaces(e.ev, d.ev)
    BY <1>1, FilledSwept DEF Swept
  <1> HIDE DEF e
  <1>3. Supplemented(e.ev, db.ev)
    BY <1>2 DEF Given, Supplemented, SamePlaces
  <1>4. ASSUME Allowed(e.ev, "staff", n), e.ev.capacity = None \/ Occupied(db, now) <= n
        PROVE  Fits(e, now, e.ev, n)
    <2>1. Allowed(d.ev, "staff", n) /\ Fits(d, now, d.ev, n)
      BY <1>2, <1>4 DEF Given, Allowed, SamePlaces, CapacityForEntry
    <2>2. Fits(e, now, d.ev, n)
      BY <1>1, <2>1, FilledFits DEF e
    <2> QED BY <1>2, <2>2 DEF Fits, SamePlaces
  <1>5. Given(e, n)
    BY <1>3, <1>4 DEF Given
  <1> QED BY <1>5 DEF e

\* The staff's place on a full event comes with one more in the capacity.
LEMMA SupplementaryPlaceIsRoom ==
    ASSUME NEW d, GoodRows(d), NEW t \in Time, AllOpen(d, t), NEW e \in SupplementaryPlace(d, t)
    PROVE  /\ GoodRows(e) /\ AllOpen(e, t) /\ Supplemented(e.ev, d.ev)
           /\ e.reg = d.reg /\ e.fam = d.fam /\ e.inv = d.inv /\ e.mail = d.mail
           /\ \A n \in Nat : Allowed(e.ev, "staff", n) => RoomForOne(e, t, e.ev, n)
  <1>1. GoodRows(e)
    BY SupplementaryPlaceGood
  <1>2. CASE HasRoom(d.ev, Occupied(d, t))
    <2>1. e = d
      BY <1>2 DEF SupplementaryPlace
    <2>2. d.ev \in StoredEvent /\ SamePlaces(d.ev, d.ev)
      BY CapacityRange DEF SamePlaces
    <2>3. \A n \in Nat : Allowed(d.ev, "staff", n) => RoomForOne(d, t, d.ev, n)
      BY <1>2, <2>2, HasRoomIsRoom
    <2> QED BY <1>1, <2>1, <2>3 DEF Supplemented
  <1>3. CASE ~HasRoom(d.ev, Occupied(d, t))
    <2>1. e = [d EXCEPT !.ev.capacity = @ + 1] /\ Occupied(d, t) < d.ev.capacity + 1
      BY <1>3 DEF SupplementaryPlace
    <2>2. d.ev.capacity # None /\ d.ev.capacity \in Nat
      BY <1>3, CapacityRange DEF HasRoom
    <2>3. /\ e.reg = d.reg /\ e.fam = d.fam /\ e.inv = d.inv /\ e.mail = d.mail
          /\ e.ev.capacity = d.ev.capacity + 1 /\ e.ev.kept = d.ev.kept
      BY <2>1 DEF GoodRows, Database, StoredEvent
    <2>4. Claims(e, t) = Claims(d, t)
      BY <2>3, SameClaims
    <2>5. AllOpen(e, t)
      BY <2>3 DEF AllOpen, OpenOffer, OfferAwaitingItsFirstEmail, EmailQueued
    <2>6. Occupied(d, t) = Cardinality(Claims(d, t)) /\ Occupied(d, t) \in Nat
      BY TakenIsClaimed, TakenFinite
    <2>7. ASSUME NEW n \in Nat, Allowed(e.ev, "staff", n) PROVE RoomForOne(e, t, e.ev, n)
      <3>1. e.ev.capacity <= n \/ e.ev.capacity = None
        BY <2>7 DEF Allowed, CapacityForEntry
      <3> QED BY <2>1, <2>2, <2>3, <2>4, <2>6, <3>1 DEF RoomForOne, SamePlaces
    <2> QED BY <1>1, <2>2, <2>3, <2>5, <2>7 DEF Supplemented
  <1> QED BY <1>2, <1>3

\* An offer to one person takes the place that was found.
LEMMA OfferedGiven ==
    ASSUME TypeOK, NEW p \in Person, NEW n \in Nat, NEW d, GoodRows(d), Supplemented(d.ev, db.ev),
           Allowed(d.ev, "staff", n) => RoomForOne(d, now, d.ev, n),
           NEW e, GoodRows(e), e.ev = d.ev,
           Claims(e, now) \subseteq Claims(d, now) \cup {<<"registration", p>>}
    PROVE  Given(e, n)
  <1>1. ASSUME Allowed(e.ev, "staff", n) PROVE Fits(e, now, e.ev, n)
    <2>1. RoomForOne(d, now, d.ev, n) /\ SamePlaces(e.ev, d.ev)
      BY <1>1 DEF SamePlaces
    <2>2. Fits(e, now, d.ev, n)
      BY <2>1, FitsWithOneMore
    <2> QED BY <2>2
  <1> QED BY <1>1 DEF Given

LEMMA OfferPlaceToGiven ==
    ASSUME TypeOK, NEW p \in Person, NEW n \in Nat, OfferPlaceTo(p)
    PROVE  Given(db', n)
  <1> DEFINE e == Expired(db, now)
             until == WaitlistOfferExpiry(now, StartAt)
             people == {p}
             offer(d) == Queued(Offered(d, people, until), people, "offerUntilStart", now)
  <1>1. GoodRows(db) /\ now \in Time
    BY DEF TypeOK
  <1>2. GoodRows(e) /\ AllOpen(e, now) /\ SamePlaces(e.ev, db.ev)
    BY <1>1, ExpiredSwept DEF Swept
  <1>3. until \in Deadline /\ "offerUntilStart" \in MailKind
    BY <1>1, HoldsEndByTheStart, DeadlineRange DEF MailKind
  <1>4. Commit({FillAvailableSpots(offer(d), now) : d \in SupplementaryPlace(e, now)})
    BY DEF OfferPlaceTo
  <1>5. people \in SUBSET Person /\ PlacesOf(people) = {<<"registration", p>>}
    BY DEF PlacesOf
  <1> HIDE DEF e, until, people
  <1>6. ASSUME NEW d \in SupplementaryPlace(e, now) PROVE Given(FillAvailableSpots(offer(d), now), n)
    <2> DEFINE o == offer(d)
    <2>1. /\ GoodRows(d) /\ Supplemented(d.ev, db.ev)
          /\ Allowed(d.ev, "staff", n) => RoomForOne(d, now, d.ev, n)
      BY <1>1, <1>2, SupplementaryPlaceIsRoom DEF Supplemented, SamePlaces
    <2>2. o = Queued(Offered(d, people, until), people, "offerUntilStart", now)
      OBVIOUS
    <2>3. GoodRows(Offered(d, people, until))
      BY <1>3, <1>5, <2>1, OfferedGood
    <2>4. GoodRows(o)
      BY <1>1, <1>3, <1>5, <2>3, QueuedGood
    <2> HIDE DEF o
    <2>5. o.ev = d.ev /\ Claims(o, now) \subseteq Claims(d, now) \cup PlacesOf(people)
      BY <1>1, <1>3, <1>5, <2>1, <2>2, OfferedRows
    <2>6. Given(o, n)
      BY <1>5, <2>1, <2>4, <2>5, OfferedGiven
    <2>7. Given(FillAvailableSpots(o, now), n)
      BY <2>4, <2>6, FilledGiven
    <2> QED BY <2>7 DEF o
  <1> HIDE DEF offer
  <1>7. \A c \in {FillAvailableSpots(offer(d), now) : d \in SupplementaryPlace(e, now)} : Given(c, n)
    BY <1>6
  <1> QED BY <1>4, <1>7, CommittedGiven

\* GivePlaceNow once it found the place.
LEMMA GivenNowGood ==
    ASSUME NEW d, GoodRows(d), NEW p \in Person, NEW adopts \in BOOLEAN, NEW hold \in Deadline
    PROVE  LET e == WithPlace([d EXCEPT !.inv[p] = IF adopts THEN None ELSE @], p, hold)
           IN  GoodRows(e) /\ e.ev = d.ev
  <1> DEFINE e == WithPlace([d EXCEPT !.inv[p] = IF adopts THEN None ELSE @], p, hold)
             held == [d EXCEPT !.inv[p] = IF adopts THEN None ELSE @]
             r == Moved(d.reg[p], "PENDING_DECLARATION", hold)
  <1> SUFFICES GoodRows(e) /\ e.ev = d.ev
    OBVIOUS
  <1>1. GoodRows(held)
    BY NewInvitation DEF GoodRows, Database
  <1>2. held.ev = d.ev /\ held.reg = d.reg
    BY DEF GoodRows, Database
  <1>3. e = WithPlace(held, p, hold)
    OBVIOUS
  <1> HIDE DEF held
  <1>4. GoodRows(e)
    BY <1>1, <1>3, WithPlaceGood
  <1>5. e = [held EXCEPT !.reg[p] = r]
    BY <1>2, <1>3 DEF WithPlace
  <1> HIDE DEF e, r
  <1>6. e.ev = d.ev
    BY <1>1, <1>2, <1>5, RowReplaced
  <1> QED BY <1>4, <1>6

\* The invitation's place is taken over, another is one more.
LEMMA GivenNowFits ==
    ASSUME NEW d, GoodRows(d), NEW p \in Person, NEW t \in Time, NEW adopts \in BOOLEAN,
           NEW ev, NEW n \in Nat,
           \/ adopts /\ Fits(d, t, ev, n) /\ LiveInvitation(d, p, t)
              /\ (d.inv[p].outside => d.reg[p].outside)
           \/ ~adopts /\ RoomForOne(d, t, ev, n)
           \/ ~adopts /\ Fits(d, t, ev, n) /\ (d.reg[p].outside \/ HoldsFamilyReservation(d, p, t)),
           NEW hold \in Deadline
    PROVE  LET e == WithPlace([d EXCEPT !.inv[p] = IF adopts THEN None ELSE @], p, hold)
           IN  GoodRows(e) /\ e.ev = d.ev /\ Fits(e, t, ev, n)
  <1> DEFINE e == WithPlace([d EXCEPT !.inv[p] = IF adopts THEN None ELSE @], p, hold)
             held == [d EXCEPT !.inv[p] = IF adopts THEN None ELSE @]
             r == Moved(d.reg[p], "PENDING_DECLARATION", hold)
  <1> SUFFICES GoodRows(e) /\ e.ev = d.ev /\ Fits(e, t, ev, n)
    OBVIOUS
  <1>1. GoodRows(held)
    BY NewInvitation DEF GoodRows, Database
  <1>2. /\ held.ev = d.ev /\ held.reg = d.reg /\ held.fam = d.fam /\ held.mail = d.mail
        /\ held.inv = [d.inv EXCEPT ![p] = IF adopts THEN None ELSE d.inv[p]]
    BY DEF GoodRows, Database
  <1>3. e = WithPlace(held, p, hold)
    OBVIOUS
  <1> HIDE DEF held
  <1>4. GoodRows(e)
    BY <1>1, <1>3, WithPlaceGood
  <1>5. e = [held EXCEPT !.reg[p] = r]
    BY <1>2, <1>3 DEF WithPlace
  <1> HIDE DEF e, r
  <1>6. d.inv \in [Person -> Invitation \cup {None}]
    BY DEF GoodRows, Database
  <1>9. e.ev = d.ev
    BY <1>1, <1>2, <1>5, RowReplaced
  <1>7. CASE adopts
    <2>1. r.outside = d.reg[p].outside
      BY RowsAre DEF Moved, Registration, r
    <2>2. /\ SamePlaces(e.ev, ev) /\ e.fam = d.fam /\ e.inv = held.inv
          /\ e.reg[p] = r /\ \A q \in Person \ {p} : e.reg[q] = d.reg[q]
      <3>1. /\ e.ev = held.ev /\ e.fam = held.fam /\ e.inv = held.inv
            /\ e.reg[p] = r /\ \A q \in Person \ {p} : e.reg[q] = held.reg[q]
        BY <1>1, <1>5 DEF GoodRows, Database
      <3> QED BY <1>2, <1>7, <3>1 DEF Fits
    <2>3. e.inv[p] = None /\ \A q \in Person \ {p} : e.inv[q] = d.inv[q]
      BY <1>2, <1>6, <1>7, <2>2
    <2> QED BY <1>4, <1>7, <1>9, <2>1, <2>2, <2>3, InvitationTakenOver
  <1>8. CASE ~adopts
    <2>1. held.inv = d.inv
      BY <1>2, <1>6, <1>8
    <2>2. Claims(held, t) = Claims(d, t)
      BY <1>2, <2>1, SameClaims
    <2>3. \/ RoomForOne(held, t, ev, n)
          \/ Fits(held, t, ev, n) /\ (held.reg[p].outside \/ RegClaim(held.reg[p], t))
      BY <1>2, <1>8, <2>2 DEF RoomForOne, Fits, HoldsFamilyReservation, RegClaim
    <2> QED BY <1>1, <1>3, <1>4, <1>9, <2>3, WithPlaceFits
  <1> QED BY <1>7, <1>8

\* Nothing lost on the way to a greater number.
LEMMA FitsInMore ==
    ASSUME NEW d, NEW t, NEW ev, NEW m \in Nat, NEW n \in Nat, m <= n, Fits(d, t, ev, m)
    PROVE  Fits(d, t, ev, n)
  BY ClaimsFinite DEF Fits

LEMMA GivePlaceNowGiven ==
    ASSUME TypeOK, NEW p \in Person, NEW n \in Nat, GivePlaceNow(p)
    PROVE  Given(db', n)
  <1> DEFINE freed == [db EXCEPT !.fam[p] = None]
             swept == Expired(freed, now)
             adopts == LiveInvitation(swept, p, now)
             outside == swept.reg[p].outside \/ (adopts /\ swept.inv[p].outside)
             mine == [swept EXCEPT !.reg[p].outside = outside]
             needsNoRoom == HoldsFamilyReservation(db, p, now) \/ db.reg[p].outside \/ adopts
             wanted == IF HasRoom(mine.ev, Occupied(mine, now)) \/ LapsedHolds(mine, now) = {}
                       THEN mine ELSE ExpireStaleHolds(mine, now, 1, "staff")
             given(d) == WithPlace([d EXCEPT !.inv[p] = IF adopts THEN None ELSE @],
                                   p, VouchedPlaceExpiry(now))
             placed(d) == Queued(given(d), {p}, "declaration", now)
             before == Occupied(db, now)
  <1>1. GoodRows(db) /\ now \in Time /\ before \in Nat /\ SamePlaces(db.ev, db.ev)
    BY TakenFinite DEF TypeOK, SamePlaces
  <1>2. Commit({FillAvailableSpots(placed(d), now) :
                   d \in IF needsNoRoom THEN {mine} ELSE SupplementaryPlace(wanted, now)})
    BY DEF GivePlaceNow
  <1>3. GoodRows(freed) /\ Held(freed, now, db.ev, before)
    <2>1. GoodRows(freed)
      BY <1>1, NewFamilyPlace
    <2>2. /\ freed.ev = db.ev /\ freed.reg = db.reg /\ freed.inv = db.inv /\ freed.mail = db.mail
          /\ \A q \in Person : freed.fam[q] = db.fam[q] \/ freed.fam[q] = None
      BY <1>1 DEF GoodRows, Database
    <2> HIDE DEF freed
    <2>3. Fewer(db, freed, now)
      BY <1>1, <2>2, FewerFamilyPlaces
    <2>4. Held(db, now, db.ev, before)
      BY <1>1 DEF Held
    <2> QED BY <1>1, <2>1, <2>3, <2>4, FewerHeld
  <1>4. freed.reg = db.reg
    BY <1>1 DEF GoodRows, Database
  <1> HIDE DEF freed, before
  <1>5. /\ GoodRows(swept) /\ Swept(freed, swept, now) /\ AllOpen(swept, now)
        /\ Fits(swept, now, db.ev, before)
    BY <1>1, <1>3, ExpiredSweeps
  <1>6. /\ db.reg[p].outside => swept.reg[p].outside
        /\ HoldsFamilyReservation(db, p, now) => HoldsFamilyReservation(swept, p, now)
    BY <1>1, <1>3, <1>4, <1>5, OwnPlaceStays DEF HoldsFamilyReservation
  <1>7. outside \in BOOLEAN /\ (swept.reg[p].outside => outside)
        /\ (adopts /\ swept.inv[p].outside => outside)
    OBVIOUS
  <1>8. adopts => LiveInvitation(swept, p, now)
    OBVIOUS
  <1>9. adopts \in BOOLEAN
    BY DEF LiveInvitation
  <1> HIDE DEF swept, adopts, outside
  <1>10. /\ GoodRows(mine) /\ mine.ev = swept.ev /\ mine.inv = swept.inv
         /\ mine.fam = swept.fam /\ mine.mail = swept.mail
         /\ mine.reg[p] = [swept.reg[p] EXCEPT !.outside = outside]
         /\ \A q \in Person \ {p} : mine.reg[q] = swept.reg[q]
    <2>1. GoodRows(mine)
      BY <1>5, <1>7, NewOutside
    <2> QED BY <1>5, <2>1 DEF GoodRows, Database
  <1> HIDE DEF mine
  <1>11. /\ mine.reg[p].outside = outside
         /\ mine.reg[p].status = swept.reg[p].status /\ mine.reg[p].hold = swept.reg[p].hold
    BY <1>5, <1>10, RowsAre DEF Registration
  <1>12. Fits(mine, now, db.ev, before)
    <2>1. \A q \in Person : RegClaim(mine.reg[q], now) => RegClaim(swept.reg[q], now)
      BY <1>7, <1>10, <1>11 DEF RegClaim
    <2>2. Claims(mine, now) \subseteq Claims(swept, now) \cup {}
      BY <1>10, <2>1, ClaimsWithin
    <2>3. SamePlaces(mine.ev, db.ev)
      BY <1>5, <1>10 DEF Fits
    <2> QED BY <1>1, <1>5, <2>2, <2>3, FitsWithFewer
  <1>13. AllOpen(mine, now)
    <2>1. \A q \in Person : /\ mine.reg[q].status = swept.reg[q].status
                            /\ mine.reg[q].hold = swept.reg[q].hold
      BY <1>10, <1>11
    <2> QED BY <1>5, <1>10, <2>1 DEF AllOpen, OpenOffer, OfferAwaitingItsFirstEmail, EmailQueued
  <1>14. GoodRows(wanted) /\ AllOpen(wanted, now) /\ SamePlaces(wanted.ev, db.ev)
    <2>1. SamePlaces(mine.ev, db.ev)
      BY <1>12 DEF Fits
    <2>2. LET e == ExpireStaleHolds(mine, now, 1, "staff")
          IN  GoodRows(e) /\ AllOpen(e, now) /\ Swept(mine, e, now)
      BY <1>1, <1>10, ExpireStaleHoldsGood, ExpireStaleHoldsSweeps
    <2> QED BY <1>10, <1>13, <2>1, <2>2 DEF Swept, SamePlaces
  <1> HIDE DEF wanted
  <1>15. VouchedPlaceExpiry(now) \in Deadline
    BY <1>1, HoldsEndByTheStart, DeadlineRange
  <1>16. ASSUME needsNoRoom PROVE GoodRows(given(mine)) /\ Given(given(mine), n)
    <2>1. GoodRows(given(mine)) /\ given(mine).ev = mine.ev /\ Fits(given(mine), now, db.ev, before)
      <3>1. CASE adopts
        <4>1. LiveInvitation(mine, p, now) /\ (mine.inv[p].outside => mine.reg[p].outside)
          BY <1>7, <1>8, <1>10, <1>11, <3>1 DEF LiveInvitation
        <4> QED BY <1>1, <1>9, <1>10, <1>12, <1>15, <3>1, <4>1, GivenNowFits
      <3>2. CASE ~adopts
        <4>1. mine.reg[p].outside \/ HoldsFamilyReservation(mine, p, now)
          BY <1>6, <1>7, <1>11, <1>16, <3>2 DEF HoldsFamilyReservation
        <4>2. ~adopts /\ Fits(mine, now, db.ev, before)
              /\ (mine.reg[p].outside \/ HoldsFamilyReservation(mine, p, now))
          BY <1>12, <3>2, <4>1
        <4>3. GoodRows(mine) /\ now \in Time /\ before \in Nat
          BY <1>1, <1>10
        <4> HIDE DEF needsNoRoom
        <4> QED BY ONLY <1>9, <1>15, <4>2, <4>3, p \in Person, GivenNowFits DEF given
      <3> QED BY <3>1, <3>2
    <2> DEFINE g == given(mine)
    <2> HIDE DEF g
    <2>2. GoodRows(g) /\ Fits(g, now, db.ev, before)
      BY <2>1 DEF g
    <2>3. SamePlaces(g.ev, db.ev) /\ Supplemented(g.ev, db.ev)
      BY <2>2 DEF Fits, Supplemented, SamePlaces
    <2>4. ASSUME g.ev.capacity = None \/ Occupied(db, now) <= n PROVE Fits(g, now, g.ev, n)
      <3>1. Fits(g, now, g.ev, before)
        BY <2>2, <2>3 DEF Fits, SamePlaces
      <3> QED BY <1>1, <2>4, <3>1, FitsInMore DEF before, Fits, SamePlaces
    <2>5. Given(g, n)
      BY <2>3, <2>4 DEF Given
    <2> QED BY <2>2, <2>5 DEF g
  <1>17. ASSUME ~needsNoRoom, NEW d \in SupplementaryPlace(wanted, now)
         PROVE  GoodRows(given(d)) /\ Given(given(d), n)
    <2> DEFINE g == given(d)
    <2>1. /\ GoodRows(d) /\ Supplemented(d.ev, db.ev) /\ ~adopts
          /\ Allowed(d.ev, "staff", n) => RoomForOne(d, now, d.ev, n)
      BY <1>1, <1>14, <1>17, SupplementaryPlaceIsRoom DEF Supplemented, SamePlaces
    <2>2. GoodRows(g) /\ g.ev = d.ev
      BY <1>9, <1>15, <2>1, GivenNowGood
    <2>3. RoomForOne(d, now, d.ev, n) => Fits(g, now, d.ev, n)
      BY <1>1, <1>9, <1>15, <2>1, GivenNowFits
    <2> HIDE DEF g
    <2>4. Given(g, n)
      BY <2>1, <2>2, <2>3 DEF Given
    <2> QED BY <2>2, <2>4 DEF g
  <1> HIDE DEF given, needsNoRoom
  <1>18. ASSUME NEW d \in IF needsNoRoom THEN {mine} ELSE SupplementaryPlace(wanted, now)
         PROVE  Given(FillAvailableSpots(placed(d), now), n)
    <2> DEFINE g == given(d)
               people == {p}
               q == Queued(g, people, "declaration", now)
    <2>1. GoodRows(g) /\ Given(g, n)
      BY <1>16, <1>17, <1>18
    <2>2. people \in SUBSET Person /\ "declaration" \in MailKind
      BY DEF MailKind
    <2>3. placed(d) = q
      OBVIOUS
    <2> HIDE DEF g, people
    <2>4. GoodRows(q) /\ q.ev = g.ev /\ (\A m : Fits(g, now, g.ev, m) => Fits(q, now, g.ev, m))
      BY <1>1, <2>1, <2>2, QueuedGood, QueuedOnly, QueuedFits
    <2> HIDE DEF q
    <2>5. Given(q, n)
      BY <2>1, <2>4 DEF Given
    <2>6. Given(FillAvailableSpots(q, now), n)
      BY <2>4, <2>5, FilledGiven
    <2> QED BY <2>3, <2>6
  <1> HIDE DEF placed
  <1>19. \A c \in {FillAvailableSpots(placed(d), now) :
                     d \in IF needsNoRoom THEN {mine} ELSE SupplementaryPlace(wanted, now)} :
            Given(c, n)
    BY <1>18
  <1> QED BY <1>2, <1>19, CommittedGiven

LEMMA SetOutsideWithin ==
    ASSUME NEW p \in Person, NEW outside \in BOOLEAN, NEW n, Counting("staff", n),
           SetOutside(p, outside)
    PROVE  Within(db', n)
  <1> DEFINE e == Served(db, now)
             r == e.reg[p]
             flagged == [e EXCEPT !.reg[p].outside = outside]
             filled == IF outside THEN FillAvailableSpots(flagged, now) ELSE flagged
             withoutOffer(d) ==
                 IF r.status # "WAITLIST_OFFERED" THEN d
                 ELSE [d EXCEPT !.mail = {m \in @ : \/ m.to # p \/ m.kind = "declaration"
                                                    \/ InFlight(m)}]
             seated == IF outside /\ r.status \in {"WAITLISTED", "WAITLIST_OFFERED"}
                       THEN {AllocationEmail(withoutOffer(d), p, now) :
                                d \in Allocated(filled, p, now, Entry("staff"))}
                       ELSE {filled}
  <1>1. /\ GoodRows(db) /\ now \in Time /\ n \in Nat /\ db.ev \in StoredEvent
        /\ Allowed(db.ev, "staff", n) /\ Within(db, n)
    BY CountingFacts
  <1>2. GoodRows(e) /\ Fits(e, now, db.ev, n) /\ AllOpen(e, now) /\ SamePlaces(e.ev, db.ev)
    BY <1>1, ServedWithin DEF Fits
  <1>3. \/ Commit({e})
        \/ /\ ~outside /\ WouldHoldACountedPlace(e, p, now) => HasRoom(e.ev, Occupied(e, now))
           /\ Commit(seated)
    BY DEF SetOutside
  <1> HIDE DEF e
  <1>4. CASE Commit({e})
    BY <1>2, <1>4, CommittedWithin DEF Within
  <1>5. CASE /\ ~outside /\ WouldHoldACountedPlace(e, p, now) => HasRoom(e.ev, Occupied(e, now))
             /\ Commit(seated)
    <2>1. GoodRows(flagged) /\ Fits(flagged, now, db.ev, n)
      <3> DEFINE row == [e.reg[p] EXCEPT !.outside = outside]
      <3>1. flagged = [e EXCEPT !.reg[p] = row]
        OBVIOUS
      <3>2. GoodRows(flagged)
        BY <1>2, NewOutside
      <3>3. /\ row.outside = outside
            /\ row.status = e.reg[p].status /\ row.hold = e.reg[p].hold
        BY <1>2, RowsAre DEF Registration
      <3> HIDE DEF row, flagged
      <3>4. CASE RegClaim(row, now) => RegClaim(e.reg[p], now)
        BY <1>1, <1>2, <3>1, <3>2, <3>4, RowChangedFits
      <3>5. CASE RegClaim(row, now)
        <4>1. ~outside /\ WouldHoldACountedPlace(e, p, now)
          BY <3>3, <3>5 DEF RegClaim, WouldHoldACountedPlace, HoldsFamilyReservation
        <4>2. RoomForOne(e, now, db.ev, n)
          BY <1>1, <1>2, <1>5, <4>1, HasRoomIsRoom
        <4> QED BY <1>1, <1>2, <3>1, <3>2, <4>2, RowGivenFits
      <3> QED BY <3>4, <3>5
    <2> HIDE DEF flagged
    <2>2. GoodRows(filled) /\ Within(filled, n)
      BY <1>1, <2>1, FilledWithin DEF Within
    <2> HIDE DEF filled
    <2>3. ASSUME NEW d, GoodRows(d), Fits(d, now, db.ev, n)
          PROVE  GoodRows(withoutOffer(d)) /\ Fits(withoutOffer(d), now, db.ev, n)
      <3>1. GoodRows(withoutOffer(d))
        <4>1. {m \in d.mail : \/ m.to # p \/ m.kind = "declaration" \/ InFlight(m)} \in SUBSET Mail
          BY <2>3 DEF GoodRows, Database
        <4> QED BY <2>3, <4>1, NewMail
      <3>2. /\ withoutOffer(d).ev = d.ev /\ withoutOffer(d).reg = d.reg
            /\ withoutOffer(d).fam = d.fam /\ withoutOffer(d).inv = d.inv
        BY <2>3 DEF GoodRows, Database
      <3> HIDE DEF withoutOffer
      <3>3. Claims(withoutOffer(d), now) = Claims(d, now)
        BY <3>2, SameClaims
      <3> QED BY <2>3, <3>1, <3>2, <3>3 DEF Fits
    <2> HIDE DEF withoutOffer, r
    <2>4. ASSUME NEW d \in Allocated(filled, p, now, Entry("staff"))
          PROVE  Within(AllocationEmail(withoutOffer(d), p, now), n)
      <3>1. GoodRows(d) /\ Fits(d, now, db.ev, n)
        BY <1>1, <2>2, PublicAndStaffWays, AllocatedWithin
      <3> QED BY <2>3, <3>1, AllocationEmailFits DEF Within
    <2>5. \A d \in seated : Within(d, n)
      BY <2>2, <2>4
    <2> HIDE DEF seated
    <2> QED BY <1>5, <2>5, CommittedWithin
  <1> QED BY <1>3, <1>4, <1>5

-----------------------------------------------------------------------------
(***************************************************************************)
(* Invitations.                                                            *)
(***************************************************************************)
LEMMA InvitationChanged ==
    ASSUME NEW d, GoodRows(d), NEW p \in Person, NEW i
    PROVE  /\ [d EXCEPT !.inv[p] = i].ev = d.ev
           /\ [d EXCEPT !.inv[p] = i].reg = d.reg
           /\ [d EXCEPT !.inv[p] = i].fam = d.fam
           /\ [d EXCEPT !.inv[p] = i].inv[p] = i
           /\ \A q \in Person \ {p} : [d EXCEPT !.inv[p] = i].inv[q] = d.inv[q]
  BY DEF GoodRows, Database

\* An invitation that goes, or whose place was counted before, or found free.
LEMMA InvitationFits ==
    ASSUME NEW d, GoodRows(d), NEW p \in Person, NEW t, NEW i \in Invitation \cup {None},
           NEW ev, NEW n \in Nat,
           \/ Fits(d, t, ev, n) /\ (InvClaim(i, t) => InvClaim(d.inv[p], t))
           \/ RoomForOne(d, t, ev, n)
    PROVE  Fits([d EXCEPT !.inv[p] = i], t, ev, n)
  <1> DEFINE e == [d EXCEPT !.inv[p] = i]
  <1>1. /\ e.ev = d.ev /\ e.reg = d.reg /\ e.fam = d.fam
        /\ e.inv[p] = i /\ \A q \in Person \ {p} : e.inv[q] = d.inv[q]
    BY InvitationChanged
  <1> HIDE DEF e
  <1>2. Claims(e, t) \subseteq Claims(d, t) \cup {<<"invitation", p>>}
    <2>1. \A q \in Person : InvClaim(e.inv[q], t)
              => InvClaim(d.inv[q], t) \/ <<"invitation", q>> \in {<<"invitation", p>>}
      BY <1>1
    <2> QED BY <1>1, <2>1, ClaimsWithin
  <1>3. ASSUME RoomForOne(d, t, ev, n) PROVE Fits(e, t, ev, n)
    <2>1. SamePlaces(e.ev, ev)
      BY <1>1, <1>3 DEF RoomForOne
    <2> QED BY <1>2, <1>3, <2>1, FitsWithOneMore
  <1>4. ASSUME Fits(d, t, ev, n) /\ (InvClaim(i, t) => InvClaim(d.inv[p], t))
        PROVE  Fits(e, t, ev, n)
    <2>1. \A q \in Person : InvClaim(e.inv[q], t) => InvClaim(d.inv[q], t)
      BY <1>1, <1>4
    <2>2. Claims(e, t) \subseteq Claims(d, t) \cup {}
      BY <1>1, <2>1, ClaimsWithin
    <2>3. SamePlaces(e.ev, ev)
      BY <1>1, <1>4 DEF Fits
    <2> QED BY <1>4, <2>2, <2>3, FitsWithFewer
  <1>5. Fits(e, t, ev, n)
    BY <1>3, <1>4
  <1> QED BY <1>5 DEF e

LEMMA InviteGiven ==
    ASSUME TypeOK, NEW p \in Person, NEW outside \in BOOLEAN, NEW n \in Nat, Invite(p, outside)
    PROVE  Given(db', n)
  <1> DEFINE e == FillAvailableSpots(db, now)
             i == [until |-> InvitationDeadline(now), outside |-> outside]
             waiting == Cardinality(Waiting(e))
             free == outside \/ (e.ev.capacity # None =>
                                    InvitationFreePlaces(e.ev, Occupied(e, now), waiting) > 0)
             more == [e EXCEPT !.ev.capacity = @ + 1]
             raised == IF free THEN {e}
                       ELSE IF Occupied(e, now) < e.ev.capacity + 1 /\ e.ev.capacity < MaxCapacity
                            THEN {more} ELSE {}
             invited(d) == [d EXCEPT !.inv[p] = i]
  <1>1. GoodRows(db) /\ now \in Time
    BY DEF TypeOK
  <1>2. /\ GoodRows(e) /\ AllOpen(e, now) /\ SamePlaces(e.ev, db.ev)
        /\ Allowed(e.ev, "staff", n) /\ (e.ev.capacity = None \/ Occupied(db, now) <= n)
           => Fits(e, now, e.ev, n)
    <2>1. GoodRows(e) /\ AllOpen(e, now) /\ SamePlaces(e.ev, db.ev)
      BY <1>1, FilledSwept DEF Invite, Swept
    <2>2. ASSUME Allowed(e.ev, "staff", n), e.ev.capacity = None \/ Occupied(db, now) <= n
          PROVE  Fits(e, now, e.ev, n)
      <3>1. Counting("staff", n)
        BY <2>1, <2>2 DEF Counting, Allowed, SamePlaces, CapacityForEntry, Held
      <3>2. db.ev \in StoredEvent /\ db.ev.status # "CANCELLED" /\ Held(db, now, db.ev, n)
        BY <3>1, CountingFacts DEF Invite
      <3>3. Allowed(db.ev, "staff", n)
        BY <3>1, CountingFacts
      <3>4. Fits(e, now, db.ev, n)
        BY <1>1, <3>2, <3>3, FillAvailableSpotsFits
      <3> QED BY <2>1, <3>4 DEF Fits, SamePlaces
    <2> QED BY <2>1, <2>2
  <1>3. Commit({invited(d) : d \in raised})
    BY DEF Invite
  <1>4. i \in Invitation /\ (outside => ~InvClaim(i, now))
    <2>1. InvitationDeadline(now) \in Deadline
      BY <1>1, HoldsEndByTheStart, DeadlineRange
    <2> QED BY <2>1 DEF Invitation, InvClaim
  <1> HIDE DEF e, i
  <1>5. Occupied(e, now) = Cardinality(Claims(e, now)) /\ Occupied(e, now) \in Nat /\ waiting \in Nat
    BY <1>2, TakenIsClaimed, ClaimsFinite, WaitingIsCounted
  <1>6. e.ev \in StoredEvent /\ SamePlaces(e.ev, e.ev)
    BY <1>2, CapacityRange DEF SamePlaces
  <1> HIDE DEF waiting
  <1>7. ASSUME e.ev.capacity # None => InvitationFreePlaces(e.ev, Occupied(e, now), waiting) > 0,
               Allowed(e.ev, "staff", n)
        PROVE  RoomForOne(e, now, e.ev, n)
    <2>1. CASE e.ev.capacity = None
      BY <1>6, <2>1 DEF RoomForOne
    <2>2. CASE e.ev.capacity # None
      <3>1. e.ev.capacity \in Nat /\ e.ev.kept \in Nat
        BY <1>2, <2>2, CapacityRange
      <3>2. Occupied(e, now) < e.ev.capacity
        BY <1>5, <1>7, <2>2, <3>1
           DEF InvitationFreePlaces, LineRoom, KeptOf, Least, Greatest
      <3>3. e.ev.capacity <= n
        BY <1>7, <2>2 DEF Allowed, CapacityForEntry
      <3> QED BY <1>5, <1>6, <3>1, <3>2, <3>3 DEF RoomForOne
    <2> QED BY <2>1, <2>2
  <1>8. ASSUME NEW d \in raised PROVE Given(invited(d), n)
    <2> DEFINE c == invited(d)
    <2>1. CASE d = e /\ free
      <3>1. c.ev = e.ev
        BY <1>2, <2>1, InvitationChanged
      <3>2. Supplemented(c.ev, db.ev)
        BY <1>2, <3>1 DEF SamePlaces, Supplemented
      <3>3. ASSUME Allowed(e.ev, "staff", n), e.ev.capacity = None \/ Occupied(db, now) <= n
            PROVE  Fits(c, now, e.ev, n)
        <4>1. Fits(e, now, e.ev, n)
          BY <1>2, <3>3
        <4>2. outside \/ RoomForOne(e, now, e.ev, n)
          BY <1>7, <2>1, <3>3
        <4> HIDE DEF free
        <4> QED BY <1>2, <1>4, <2>1, <4>1, <4>2, InvitationFits
      <3> HIDE DEF c
      <3>4. Given(c, n)
        BY <3>1, <3>2, <3>3 DEF Given
      <3> QED BY <3>4 DEF c
    <2>2. CASE d = more /\ ~free /\ Occupied(e, now) < e.ev.capacity + 1
      <3>1. e.ev.capacity # None /\ e.ev.capacity \in Nat
        BY <1>2, <2>2, CapacityRange
      <3> HIDE DEF free
      <3>2. GoodRows(more)
        <4>1. [e.ev EXCEPT !.capacity = @ + 1] \in StoredEvent
          BY <1>2, <3>1 DEF GoodRows, Database, StoredEvent
        <4> QED BY <1>2, <4>1, NewSettings
      <3>3. /\ more.reg = e.reg /\ more.fam = e.fam /\ more.inv = e.inv
            /\ more.ev.capacity = e.ev.capacity + 1 /\ more.ev.kept = e.ev.kept
        BY <1>2 DEF GoodRows, Database, StoredEvent
      <3> HIDE DEF more
      <3>4. Claims(more, now) = Claims(e, now)
        BY <3>3, SameClaims
      <3>5. c.ev = more.ev /\ Supplemented(c.ev, db.ev)
        BY <1>2, <2>2, <3>1, <3>2, <3>3, InvitationChanged DEF SamePlaces, Supplemented
      <3>6. ASSUME Allowed(more.ev, "staff", n) PROVE Fits(c, now, more.ev, n)
        <4>1. e.ev.capacity + 1 <= n
          BY <3>1, <3>3, <3>6, NoneAssumption DEF Allowed, CapacityForEntry
        <4>2. RoomForOne(more, now, more.ev, n)
          BY <1>5, <2>2, <3>1, <3>3, <3>4, <4>1 DEF RoomForOne, SamePlaces
        <4> QED BY <1>4, <2>2, <3>2, <4>2, InvitationFits
      <3> HIDE DEF c
      <3>7. Given(c, n)
        BY <3>5, <3>6 DEF Given
      <3> QED BY <3>7 DEF c
    <2> QED BY <2>1, <2>2
  <1> HIDE DEF raised, invited
  <1>9. \A c \in {invited(d) : d \in raised} : Given(c, n)
    BY <1>8
  <1> QED BY <1>3, <1>9, CommittedGiven

\* The link's registration takes the place that was held in the person's name.
LEMMA AcceptInvitationWithin ==
    ASSUME NEW p \in Person, NEW n, Counting("staff", n), AcceptInvitation(p)
    PROVE  Within(db', n)
  <1> DEFINE row == WithForm(db, p, now, FALSE)
             kind == [row EXCEPT !.reg[p].outside = db.inv[p].outside]
             proved == [row EXCEPT !.reg[p].outside = db.inv[p].outside, !.verified = @ \cup {p}]
             how == InvitedEntry
             mine == Claiming(proved, p, FALSE)
             served == Served(mine, now)
             given == WithPlace(served, p, HoldFor(how, now))
  <1>1. GoodRows(db) /\ now \in Time /\ n \in Nat
    BY CountingFacts
  <1>2. /\ LiveInvitation(db, p, now) /\ MayEnter(db, p)
        /\ Commit({[d EXCEPT !.inv[p] = None] : d \in AllocatedWithEmail(proved, p, now, how)})
    BY DEF AcceptInvitation
  <1>3. GoodRows(row) /\ Within(row, n) /\ row.inv = db.inv /\ row.ev = db.ev /\ row.mail = db.mail
    BY <1>1, <1>2, EnteringFewer DEF WithForm, GoodRows, Database, Within
  <1>4. row.reg[p].status = "PENDING_EMAIL_CONFIRMATION" /\ row.reg[p].hold = None
    BY <1>1 DEF WithForm, Absent, GoodRows, Database
  <1>5. db.inv[p].outside \in BOOLEAN
    BY <1>1, <1>2, OutsideIsBoolean DEF LiveInvitation
  <1> HIDE DEF row
  <1>6. GoodRows(proved)
    <2>1. GoodRows(kind)
      BY <1>3, <1>5, NewOutside
    <2>2. kind.verified \cup {p} \in SUBSET Person
      BY <2>1 DEF GoodRows, Database
    <2>3. proved = [kind EXCEPT !.verified = kind.verified \cup {p}]
      BY <1>3 DEF GoodRows, Database
    <2> HIDE DEF kind, proved
    <2> QED BY <2>1, <2>2, <2>3, NewVerified
  <1>7. /\ proved.ev = db.ev /\ proved.fam = row.fam /\ proved.inv = db.inv
        /\ proved.mail = row.mail
        /\ proved.reg[p] = [row.reg[p] EXCEPT !.outside = db.inv[p].outside]
        /\ \A q \in Person \ {p} : proved.reg[q] = row.reg[q]
    BY <1>3 DEF GoodRows, Database
  <1> HIDE DEF proved
  <1>8. /\ proved.reg[p].outside = db.inv[p].outside
        /\ proved.reg[p].status = "PENDING_EMAIL_CONFIRMATION" /\ proved.reg[p].hold = None
    BY <1>3, <1>4, <1>7, RowsAre DEF Registration
  <1>9. Within(proved, n)
    <2>1. \A q \in Person : RowKept(proved.reg[q], row.reg[q], now)
      BY <1>7, <1>8 DEF RowKept, RegClaim, Ahead
    <2>2. Fewer(row, proved, now)
      BY <1>3, <1>7, <2>1, RowsKeptAreFewer DEF SamePlaces
    <2> QED BY <1>3, <2>2, FewerWithin
  <1>10. how \in Way /\ how.invited
    BY Ways DEF InvitedEntry
  <1>11. Allocated(proved, p, now, how) = {given}
    BY <1>10 DEF Allocated, PlacedOrQueued, HasOwnPlace, GivenPlace
  <1>12. GoodRows(mine) /\ Within(mine, n) /\ mine.inv = db.inv
         /\ mine.reg[p].outside = db.inv[p].outside
    <2> DEFINE adopts == FALSE
    <2>4. adopts \in BOOLEAN /\ (adopts => proved.inv[p] # None)
      OBVIOUS
    <2>5. mine = Claiming(proved, p, adopts)
      OBVIOUS
    <2> HIDE DEF mine, adopts
    <2>6. /\ GoodRows(mine) /\ Fewer(proved, mine, now) /\ mine.inv = proved.inv
          /\ mine.reg[p].outside
                 = (proved.reg[p].outside \/ (adopts /\ proved.inv[p].outside))
      BY <1>1, <1>6, <2>4, <2>5, ClaimingKeeps
    <2>2. /\ GoodRows(mine) /\ Fewer(proved, mine, now) /\ mine.inv = proved.inv
          /\ mine.reg[p].outside
                 = (proved.reg[p].outside \/ (FALSE /\ proved.inv[p].outside))
      BY <2>6 DEF adopts
    <2>3. (db.inv[p].outside \/ (FALSE /\ proved.inv[p].outside)) = db.inv[p].outside
      BY <1>5
    <2> QED BY <1>7, <1>8, <1>9, <2>2, <2>3, FewerWithin
  <1> HIDE DEF mine
  <1>13. GoodRows(served) /\ Fits(served, now, db.ev, n) /\ Swept(mine, served, now)
    BY <1>12, ServedWithin
  <1> HIDE DEF served
  <1>14. /\ LiveInvitation(served, p, now) /\ served.inv[p] = db.inv[p]
         /\ served.reg[p].outside = db.inv[p].outside
    BY <1>1, <1>2, <1>12, <1>13, OwnPlaceStays DEF LiveInvitation
  <1>15. GoodRows(given) /\ HoldFor(how, now) \in Deadline
    BY <1>1, <1>10, <1>13, HoldForRange, WithPlaceGood
  <1>16. /\ given.ev = served.ev /\ given.fam = served.fam /\ given.inv = served.inv
         /\ given.reg[p].outside = served.reg[p].outside
         /\ \A q \in Person \ {p} : given.reg[q] = served.reg[q]
    <2> DEFINE r == Moved(served.reg[p], "PENDING_DECLARATION", HoldFor(how, now))
    <2>1. r.outside = served.reg[p].outside
      BY <1>13, RowsAre DEF Moved, Registration
    <2>2. given = [served EXCEPT !.reg[p] = r]
      BY DEF WithPlace
    <2>4. GoodRows(served) /\ p \in Person
      BY <1>13
    <2> HIDE DEF given, r, kind, how
    <2>3. /\ given.ev = served.ev /\ given.fam = served.fam /\ given.inv = served.inv
          /\ given.reg[p] = r /\ \A q \in Person \ {p} : given.reg[q] = served.reg[q]
      BY ONLY <2>2, <2>4 DEF GoodRows, Database
    <2> QED BY <2>1, <2>3
  <1> HIDE DEF given, how
  <1>17. ASSUME NEW d \in AllocatedWithEmail(proved, p, now, how)
         PROVE  Within([d EXCEPT !.inv[p] = None], n)
    <2> DEFINE e == [d EXCEPT !.inv[p] = None]
    <2>1. d = AllocationEmail(given, p, now)
      BY <1>11 DEF AllocatedWithEmail
    <2>2. GoodRows(d)
      BY <1>1, <1>15, <2>1, AllocationEmailGood
    <2>3. d.ev = given.ev /\ d.reg = given.reg /\ d.fam = given.fam /\ d.inv = given.inv
      BY <1>15, <2>1, QueuedOnly DEF AllocationEmail
    <2>4. GoodRows(e)
      BY <2>2, NewInvitation
    <2>5. /\ e.ev = d.ev /\ e.reg = d.reg /\ e.fam = d.fam
          /\ e.inv[p] = None /\ \A q \in Person \ {p} : e.inv[q] = d.inv[q]
      BY <2>2, InvitationChanged
    <2> HIDE DEF e
    <2>6. SamePlaces(e.ev, db.ev)
      BY <1>13, <1>16, <2>3, <2>5 DEF Fits
    <2>7. Fits(e, now, db.ev, n)
      BY <1>1, <1>13, <1>14, <1>16, <2>3, <2>4, <2>5, <2>6, InvitationTakenOver
    <2> QED BY <2>7 DEF e, Within
  <1>18. \A c \in {[d EXCEPT !.inv[p] = None] : d \in AllocatedWithEmail(proved, p, now, how)} :
             Within(c, n)
    BY <1>17
  <1> QED BY <1>2, <1>18, CommittedWithin DEF how

\* A new deadline is no new claim: the place was held until then already.
LEMMA LaterInvitationWithin ==
    ASSUME NEW p \in Person, NEW n, Counting("staff", n),
           ResendInvitation(p) \/ WithdrawInvitation(p)
    PROVE  Within(db', n)
  <1> DEFINE e == Expired(db, now)
             later == [e.inv[p] EXCEPT !.until = InvitationDeadline(now)]
             left == [e EXCEPT !.inv[p] = None]
  <1>1. GoodRows(db) /\ now \in Time /\ n \in Nat /\ Within(db, n)
    BY CountingFacts
  <1>2. GoodRows(e) /\ Fits(e, now, db.ev, n)
    BY <1>1, ExpiredWithin
  <1>3. LiveInvitation(e, p, now)
    BY DEF ResendInvitation, WithdrawInvitation
  <1>4. \/ Commit({e}) \/ Commit({[e EXCEPT !.inv[p] = later]})
        \/ Commit({FillAvailableSpots(left, now)})
    BY DEF ResendInvitation, WithdrawInvitation
  <1> HIDE DEF e
  <1>5. e.inv[p] \in Invitation
    BY <1>2, <1>3 DEF LiveInvitation, GoodRows, Database
  <1>6. later \in Invitation /\ (InvClaim(later, now) => InvClaim(e.inv[p], now))
    <2>1. InvitationDeadline(now) \in Deadline
      BY <1>1, HoldsEndByTheStart, DeadlineRange
    <2>2. later \in Invitation /\ later.outside = e.inv[p].outside
      BY <1>5, <2>1 DEF Invitation
    <2> QED BY <1>3, <2>2 DEF InvClaim, LiveInvitation
  <1> HIDE DEF later
  <1>7. Within([e EXCEPT !.inv[p] = later], n) /\ Within(e, n)
    BY <1>1, <1>2, <1>6, InvitationFits DEF Within
  <1>8. GoodRows(left) /\ Within(left, n)
    <2>1. ~InvClaim(None, now)
      BY DEF InvClaim
    <2> QED BY <1>1, <1>2, <2>1, InvitationFits, NewInvitation DEF Within
  <1> HIDE DEF left
  <1>9. Within(FillAvailableSpots(left, now), n)
    BY <1>8, FilledWithin
  <1> QED BY <1>4, <1>7, <1>9, CommittedWithin

-----------------------------------------------------------------------------
(***************************************************************************)
(* The sweeps, the editor, the emails and the clock.                       *)
(***************************************************************************)
LEMMA SweepWithin ==
    ASSUME NEW n, Counting("public", n), ExpireEmailLinks \/ SweepLapsedInvitations \/ Maintenance
    PROVE  Within(db', n)
  <1>1. GoodRows(db) /\ now \in Time /\ Within(db, n)
    BY CountingFacts
  <1>2. ASSUME NEW leaving \in SUBSET Person,
               NEW rows, rows = [p \in Person |-> IF p \in leaving THEN Moved(db.reg[p], "EXPIRED", None)
                                                  ELSE db.reg[p]]
        PROVE  GoodRows([db EXCEPT !.reg = rows]) /\ Within([db EXCEPT !.reg = rows], n)
    <2>1. ASSUME NEW p \in Person
          PROVE  /\ rows[p] \in Registration /\ WellFormed(rows[p])
                 /\ RowKept(rows[p], db.reg[p], now)
      <3>1. rows[p] \in Registration /\ WellFormed(rows[p])
        BY <1>1, <1>2, RowsAre, MovedRow DEF Settled
      <3>2. db.reg[p] \in Registration
        BY <1>1, RowsAre
      <3>3. rows[p] = db.reg[p] \/ rows[p].status = "EXPIRED"
        BY <1>2, <3>2 DEF Moved, Registration
      <3> QED BY <3>1, <3>3 DEF RegClaim, RowKept
    <2>2. rows \in [Person -> Registration]
      BY <1>2, <2>1
    <2>3. GoodRows([db EXCEPT !.reg = rows])
      BY <1>1, <2>1, <2>2, NewRows
    <2> DEFINE e == [db EXCEPT !.reg = rows]
    <2>4. e.ev = db.ev /\ e.reg = rows /\ e.fam = db.fam /\ e.inv = db.inv /\ e.mail = db.mail
      BY <1>1 DEF GoodRows, Database
    <2> HIDE DEF e
    <2>5. Fewer(db, e, now)
      BY <2>1, <2>4, RowsKeptAreFewer DEF SamePlaces
    <2> QED BY <2>3, <2>5 DEF Within, e
  <1>3. CASE ExpireEmailLinks
    <2> DEFINE leaving == StaleLinks(db, now)
               rows == [p \in Person |-> IF p \in leaving THEN Moved(db.reg[p], "EXPIRED", None)
                                         ELSE db.reg[p]]
    <2>1. leaving \in SUBSET Person
      BY DEF StaleLinks, WithStatus
    <2>2. Commit({[db EXCEPT !.reg = rows]})
      BY <1>3 DEF ExpireEmailLinks
    <2> HIDE DEF leaving
    <2>3. Within([db EXCEPT !.reg = rows], n)
      BY <1>2, <2>1
    <2> QED BY <2>2, <2>3, CommittedWithin
  <1>4. CASE SweepLapsedInvitations
    BY <1>1, <1>4, FilledWithin, CommittedWithin DEF SweepLapsedInvitations
  <1>5. CASE Maintenance
    <2> DEFINE leaving == {p \in Person : db.reg[p].status = "WAITLISTED"}
               rows == [p \in Person |-> IF p \in leaving THEN Moved(db.reg[p], "EXPIRED", None)
                                         ELSE db.reg[p]]
    <2>1. leaving \in SUBSET Person
      OBVIOUS
    <2>2. WaitlistClosed(db) = [db EXCEPT !.reg = rows]
      BY DEF WaitlistClosed
    <2> HIDE DEF leaving
    <2>3. GoodRows(WaitlistClosed(db)) /\ Within(WaitlistClosed(db), n)
      BY <1>2, <2>1, <2>2
    <2>4. \/ Commit({FillAvailableSpots(WaitlistClosed(db), now)})
          \/ Commit({FillAvailableSpots(db, now)})
      BY <1>5 DEF Maintenance
    <2>5. Within(FillAvailableSpots(WaitlistClosed(db), now), n) /\ Within(FillAvailableSpots(db, now), n)
      BY <1>1, <2>3, FilledWithin
    <2> QED BY <2>4, <2>5, CommittedWithin
  <1> QED BY <1>3, <1>4, <1>5

Sends ==
    \/ \E m \in db.mail : PlanSend(m)
    \/ OfferAccepted \/ DeclarationAccepted \/ ApplyRebase \/ SendGivesUp \/ WorkerStops

\* A deadline moves on a row that holds its place already, and the clock only ends claims.
Fading == db'.ev = db.ev /\ Claims(db', now') \subseteq Claims(db, now)

\* What any step of the system may give.
LEMMA StepsGive ==
    ASSUME TypeOK, Next
    PROVE  \/ /\ now' = now
              /\ \/ \A n : Counting("staff", n) => Within(db', n)
                 \/ \E p \in Desk : LapsedOfferConfirmed(p)
                 \/ \A n \in Nat : Given(db', n)
           \/ now' = now /\ \E form \in EventForms : EditEvent(form)
           \/ Sends
           \/ Tick
  <1> DEFINE Gives == /\ now' = now
                      /\ \/ \A n : Counting("staff", n) => Within(db', n)
                         \/ \E p \in Desk : LapsedOfferConfirmed(p)
                         \/ \A n \in Nat : Given(db', n)
  <1>1. Relative \subseteq Person /\ Invitee \subseteq Person /\ Desk \subseteq Person
    BY PersonAssumption
  <1>2. CASE \E p \in Person, channel \in Channel : PassWaitlistCheck(p, channel)
    BY <1>2, CountingFacts DEF PassWaitlistCheck
  <1>3. CASE \E p \in Person :
                 \/ Submit(p)
                 \/ \E until \in SittingDeadlines(now) : SubmitInSitting(p, until)
                 \/ \E until \in SittingDeadlines(now) : HoldFamilyPlace(p, until)
                 \/ ConfirmFamilyEntry(p)
    <2>1. now' = now
      BY <1>3 DEF Submit, SubmitInSitting, HoldFamilyPlace, ConfirmFamilyEntry, Commit
    <2>2. \A n : Counting("staff", n) => Within(db', n)
      BY <1>3, PublicEntryWithin, StaffMayTakeMore
    <2> QED BY <2>1, <2>2
  <1>4. CASE \E p \in Person : SubmitByStaff(p) \/ SubmitVouched(p)
    <2>1. now' = now
      BY <1>4 DEF SubmitByStaff, SubmitVouched, Commit
    <2>2. \A n : Counting("staff", n) => Within(db', n)
      BY <1>4, StaffEntryWithin
    <2> QED BY <2>1, <2>2
  <1>5. CASE \E p \in Person : ConfirmEmail(p) \/ SignDeclaration(p) \/ Unregister(p) \/ Promote(p)
    <2>1. now' = now
      BY <1>5 DEF ConfirmEmail, SignDeclaration, Unregister, Promote, Commit
    <2>2. ASSUME NEW n, Counting("staff", n), NEW p \in Person, ConfirmEmail(p) PROVE Within(db', n)
      <3>1. Counting(IF db.reg[p].staff THEN "staff" ELSE "public", n)
        BY <2>2, StaffMayTakeMore
      <3> QED BY <2>2, <3>1, ConfirmEmailWithin
    <2>3. \A n : Counting("staff", n) => Within(db', n)
      BY <1>5, <2>2, SignDeclarationWithin, UnregisterWithin, PromoteWithin
    <2> QED BY <2>1, <2>3
  <1>6. CASE \E p \in Desk : ConfirmByStaff(p)
    <2>1. now' = now
      BY <1>6 DEF ConfirmByStaff, Commit
    <2>2. PICK p \in Desk : ConfirmByStaff(p)
      BY <1>6
    <2>3. LapsedOfferConfirmed(p) \/ \A n : Counting("staff", n) => Within(db', n)
      BY <1>1, <2>2, ConfirmByStaffWithin
    <2> QED BY <2>1, <2>3
  <1>7. CASE \E p \in Person : OfferPlaceTo(p) \/ GivePlaceNow(p)
    <2>1. now' = now
      BY <1>7 DEF OfferPlaceTo, GivePlaceNow, Commit
    <2>2. \A n \in Nat : Given(db', n)
      BY <1>7, OfferPlaceToGiven, GivePlaceNowGiven
    <2> QED BY <2>1, <2>2
  <1>8. CASE \E p \in Person, outside \in BOOLEAN : SetOutside(p, outside)
    <2>1. now' = now
      BY <1>8 DEF SetOutside, Commit
    <2>2. \A n : Counting("staff", n) => Within(db', n)
      BY <1>8, SetOutsideWithin
    <2> QED BY <2>1, <2>2
  <1>9. CASE \E p \in Person, outside \in BOOLEAN : Invite(p, outside)
    <2>1. now' = now
      BY <1>9 DEF Invite, Commit
    <2>2. \A n \in Nat : Given(db', n)
      BY <1>9, InviteGiven
    <2> QED BY <2>1, <2>2
  <1>10. CASE \E p \in Person : AcceptInvitation(p) \/ ResendInvitation(p) \/ WithdrawInvitation(p)
    <2>1. now' = now
      BY <1>10 DEF AcceptInvitation, ResendInvitation, WithdrawInvitation, Commit
    <2>2. \A n : Counting("staff", n) => Within(db', n)
      BY <1>10, AcceptInvitationWithin, LaterInvitationWithin
    <2> QED BY <2>1, <2>2
  <1>11. CASE ExpireEmailLinks \/ SweepLapsedInvitations \/ Maintenance
    <2>1. now' = now
      BY <1>11 DEF ExpireEmailLinks, SweepLapsedInvitations, Maintenance, Commit
    <2>2. \A n : Counting("staff", n) => Within(db', n)
      BY <1>11, SweepWithin, StaffMayTakeMore
    <2> QED BY <2>1, <2>2
  <1>12. CASE \E form \in EventForms : EditEvent(form)
    BY <1>12 DEF EditEvent, Commit
  <1>13. CASE Sends \/ Tick
    BY <1>13
  <1> HIDE DEF Gives
  <1>14. \/ \E p \in Person, channel \in Channel : PassWaitlistCheck(p, channel)
         \/ \E p \in Person :
                \/ Submit(p)
                \/ \E until \in SittingDeadlines(now) : SubmitInSitting(p, until)
                \/ \E until \in SittingDeadlines(now) : HoldFamilyPlace(p, until)
                \/ ConfirmFamilyEntry(p)
                \/ SubmitByStaff(p) \/ SubmitVouched(p)
                \/ ConfirmEmail(p) \/ SignDeclaration(p) \/ Unregister(p) \/ Promote(p)
                \/ OfferPlaceTo(p) \/ GivePlaceNow(p)
                \/ AcceptInvitation(p) \/ ResendInvitation(p) \/ WithdrawInvitation(p)
         \/ \E p \in Desk : ConfirmByStaff(p)
         \/ \E p \in Person, outside \in BOOLEAN : SetOutside(p, outside) \/ Invite(p, outside)
         \/ ExpireEmailLinks \/ SweepLapsedInvitations \/ Maintenance
         \/ \E form \in EventForms : EditEvent(form)
         \/ Sends \/ Tick
    BY <1>1 DEF Next, Channel, Sends
  <1> QED BY <1>2, <1>3, <1>4, <1>5, <1>6, <1>7, <1>8, <1>9, <1>10, <1>11, <1>12, <1>13, <1>14

\* The one step that may lower a capacity, and does not: the editor keeps to the stored one.
LEMMA EditFits ==
    ASSUME TypeOK, NoOverbooking, ~EditorMayLower, NEW form \in EventForms, EditEvent(form)
    PROVE  NoOverbooking'
  <1> DEFINE saved == [db EXCEPT !.ev = Stored(form, db.ev.released)]
  <1>1. GoodRows(db) /\ now \in Time
    BY DEF TypeOK
  <1>2. GoodRows(saved)
    <2>1. form \in EventForm /\ db.ev.released \in BOOLEAN
      BY <1>1, EventAssumption DEF GoodRows, Database, StoredEvent
    <2>2. Stored(form, db.ev.released) \in StoredEvent
      BY <2>1 DEF Stored, EventForm, StoredEvent
    <2> QED BY <1>1, <2>2, NewSettings
  <1>3. ~Lowers(db.ev, form)
    BY DEF EditEvent
  <1>4. /\ saved.reg = db.reg /\ saved.fam = db.fam /\ saved.inv = db.inv
        /\ saved.ev.capacity = form.capacity
    BY <1>1 DEF GoodRows, Database, Stored
  <1>5. Commit({saved}) \/ Commit({FillAvailableSpots(saved, now)})
    BY DEF EditEvent
  <1> HIDE DEF saved
  <1>6. Claims(saved, now) = Claims(db, now)
    BY <1>4, SameClaims
  <1>7. saved.ev.capacity = None
        \/ (db.ev.capacity # None /\ db.ev.capacity <= saved.ev.capacity)
    <2>1. form.capacity = None \/ (db.ev.capacity # None /\ ~(form.capacity < db.ev.capacity))
      BY <1>3 DEF Lowers
    <2>2. form.capacity \in Nat \cup {None} /\ db.ev.capacity \in Nat \cup {None}
      BY <1>1, EventAssumption, CapacityRange DEF EventForm
    <2> QED BY <1>4, <2>1, <2>2
  <1>8. saved.ev.capacity = None \/ Cardinality(Claims(saved, now)) <= saved.ev.capacity
    BY <1>1, <1>2, <1>6, <1>7, ClaimsFinite, CapacityRange DEF NoOverbooking
  <1>9. CASE Commit({saved})
    BY <1>8, <1>9 DEF Commit, NoOverbooking
  <1>10. CASE Commit({FillAvailableSpots(saved, now)})
    <2> DEFINE f == FillAvailableSpots(saved, now)
    <2>1. saved.ev \in StoredEvent /\ SamePlaces(saved.ev, saved.ev)
      BY <1>2, CapacityRange DEF SamePlaces
    <2>2. SamePlaces(f.ev, saved.ev)
      BY <1>1, <1>2, FilledSwept DEF Swept
    <2>3. CASE saved.ev.capacity # None
      <3>1. saved.ev.capacity \in Nat
        BY <1>2, <2>3, CapacityRange
      <3>2. Fits(saved, now, saved.ev, saved.ev.capacity) /\ Allowed(saved.ev, "staff", saved.ev.capacity)
        BY <1>8, <2>1, <3>1 DEF Fits, Allowed, CapacityForEntry
      <3>3. Fits(f, now, saved.ev, saved.ev.capacity)
        BY <1>1, <1>2, <2>1, <3>1, <3>2, FilledFits
      <3> HIDE DEF f
      <3>4. f.ev.capacity = None \/ Cardinality(Claims(f, now)) <= f.ev.capacity
        BY <2>2, <3>3 DEF Fits, SamePlaces
      <3> QED BY <1>10, <3>4 DEF Commit, NoOverbooking, f
    <2> QED BY <1>10, <2>2, <2>3 DEF Commit, NoOverbooking, SamePlaces
  <1> QED BY <1>5, <1>9, <1>10

LEMMA RebasedFades ==
    ASSUME NEW d, GoodRows(d), NEW s \in Delivery, NEW t
    PROVE  /\ Rebased(d, s).ev = d.ev /\ Claims(Rebased(d, s), t) \subseteq Claims(d, t)
  <1> DEFINE p == s.mail.to
             r == [d.reg[p] EXCEPT !.hold = s.to]
             e == [d EXCEPT !.reg[p] = r]
  <1>1. p \in Person /\ StatusOfKind(s.mail.kind) \in {"PENDING_DECLARATION", "WAITLIST_OFFERED"}
    BY DEF Delivery, Mail, StatusOfKind
  <1>2. Rebased(d, s) = d \/ (/\ Rebased(d, s) = e
                              /\ d.reg[p].status \in {"PENDING_DECLARATION", "WAITLIST_OFFERED"})
    <2>1. [d EXCEPT !.reg[p].hold = s.to] = e
      OBVIOUS
    <2> HIDE DEF e, r
    <2> QED BY <1>1, <2>1 DEF Rebased
  <1>3. ASSUME d.reg[p].status \in {"PENDING_DECLARATION", "WAITLIST_OFFERED"}
        PROVE  RegClaim(r, t) => RegClaim(d.reg[p], t)
    <2>1. r.status = d.reg[p].status /\ r.outside = d.reg[p].outside
      BY <1>1, RowsAre DEF Registration
    <2> QED BY <1>3, <2>1 DEF RegClaim
  <1>4. e = [d EXCEPT !.reg[p] = r]
    OBVIOUS
  <1> HIDE DEF e, r, p
  <1>5. e.ev = d.ev
    BY <1>1, <1>4, RowReplaced
  <1>6. ASSUME d.reg[p].status \in {"PENDING_DECLARATION", "WAITLIST_OFFERED"}
        PROVE  Claims(e, t) \subseteq Claims(d, t)
    BY <1>1, <1>3, <1>4, <1>6, RowChanged
  <1> QED BY <1>2, <1>5, <1>6

LEMMA SendsFade ==
    ASSUME TypeOK, Sends
    PROVE  now' = now /\ Fading
  <1>1. GoodRows(db) /\ (sending # None => sending \in Delivery)
    BY DEF TypeOK
  <1>2. now' = now
    BY DEF Sends, PlanSend, OfferAccepted, DeclarationAccepted, ApplyRebase, SendGivesUp, WorkerStops
  <1> DEFINE u == Unqueued(db, sending.mail)
  <1>3. \/ db' = db
        \/ db' = u
        \/ sending # None /\ db' = Rebased(db, sending)
        \/ sending # None /\ db' = Rebased(u, sending)
    BY DEF Sends, PlanSend, OfferAccepted, DeclarationAccepted, ApplyRebase, SendGivesUp, WorkerStops
  <1>4. GoodRows(u) /\ u.ev = db.ev /\ Claims(u, now) = Claims(db, now)
    <2>1. u.ev = db.ev /\ u.reg = db.reg /\ u.fam = db.fam /\ u.inv = db.inv
      BY <1>1 DEF Unqueued, GoodRows, Database
    <2>2. GoodRows(u)
      BY <1>1, UnqueuedGood
    <2> HIDE DEF u
    <2> QED BY <2>1, <2>2, SameClaims
  <1> HIDE DEF u
  <1>5. sending # None => /\ Rebased(db, sending).ev = db.ev
                          /\ Claims(Rebased(db, sending), now) \subseteq Claims(db, now)
                          /\ Rebased(u, sending).ev = u.ev
                          /\ Claims(Rebased(u, sending), now) \subseteq Claims(u, now)
    BY <1>1, <1>4, RebasedFades
  <1> QED BY <1>2, <1>3, <1>4, <1>5 DEF Fading

LEMMA TickFades ==
    ASSUME TypeOK, Tick
    PROVE  Fading
  <1>1. GoodRows(db) /\ now \in Nat
    BY BoundsAssumption DEF TypeOK, Time
  <1>2. db' = db /\ now' = now + 1
    BY DEF Tick
  <1>3. ASSUME NEW until \in Deadline, until > now + 1 PROVE until > now
    <2>1. until \in Nat
      BY DeadlineRange
    <2> QED BY <1>1, <1>3, <2>1
  <1>4. ASSUME NEW c \in Claims(db, now + 1) PROVE c \in Claims(db, now)
    <2>1. PICK kind \in {"registration", "family", "invitation"}, p \in Person : c = <<kind, p>>
      BY ClaimsRange
    <2>2. db.reg[p].hold \in Deadline \cup {None} /\ db.fam[p] \in Deadline \cup {None}
      BY <1>1, RowsAre DEF Registration, GoodRows, Database
    <2>3. db.inv[p] # None => db.inv[p].until \in Deadline
      BY <1>1 DEF GoodRows, Database, Invitation
    <2>4. /\ RegClaim(db.reg[p], now + 1) => RegClaim(db.reg[p], now)
          /\ Ahead(db.fam[p], now + 1) => Ahead(db.fam[p], now)
          /\ InvClaim(db.inv[p], now + 1) => InvClaim(db.inv[p], now)
      BY <1>3, <2>2, <2>3 DEF RegClaim, Ahead, InvClaim
    <2> QED BY <1>4, <2>1, <2>4, ClaimsAre
  <1> QED BY <1>2, <1>4 DEF Fading

-----------------------------------------------------------------------------
LEMMA NothingClaimedAtFirst ==
    Init => NoOverbooking
  <1> SUFFICES ASSUME Init PROVE NoOverbooking
    OBVIOUS
  <1>1. \A p \in Person : /\ ~RegClaim(db.reg[p], now) /\ ~Ahead(db.fam[p], now)
                          /\ ~InvClaim(db.inv[p], now)
    BY DEF Init, Absent, RegClaim, Ahead, InvClaim
  <1>2. ASSUME NEW c \in Claims(db, now) PROVE FALSE
    <2>1. PICK kind \in {"registration", "family", "invitation"}, p \in Person : c = <<kind, p>>
      BY ClaimsRange
    <2> QED BY <1>1, <1>2, <2>1, ClaimsAre
  <1>3. Claims(db, now) = {}
    BY <1>2
  <1>4. Cardinality(Claims(db, now)) = 0
    BY <1>3, FS_EmptySet
  <1>5. db.ev.capacity \in Nat \cup {None}
    BY EventAssumption DEF Init, Stored, EventForm
  <1> QED BY <1>4, <1>5 DEF NoOverbooking

\* A count that is right for the staff is right for what is announced.
LEMMA StepKeepsNoOverbooking ==
    ASSUME TypeOK, NoOverbooking, ~EditorMayLower, Next
    PROVE  NoOverbooking'
  <1>1. GoodRows(db) /\ now \in Time /\ db.ev.capacity \in Nat \cup {None}
    BY CapacityRange DEF TypeOK
  <1>2. ASSUME NEW n \in Nat, n = db.ev.capacity
        PROVE  /\ Counting("staff", n) /\ Cardinality(Claims(db, now)) <= n
               /\ Occupied(db, now) <= n
    <2>1. n # None
      BY NoneAssumption
    <2>2. Fits(db, now, db.ev, n)
      BY <1>2, <2>1 DEF NoOverbooking, Fits, SamePlaces
    <2>3. Held(db, now, db.ev, n)
      BY <2>2, FitsHeld
    <2> QED BY <1>2, <2>1, <2>2, <2>3 DEF Counting, Allowed, CapacityForEntry, Fits, Held
  <1>3. CASE now' = now /\ \A n : Counting("staff", n) => Within(db', n)
    <2>1. CASE db.ev.capacity = None
      <3>1. PICK n \in Nat : Allowed(db.ev, "staff", n) /\ Held(db, now, db.ev, n)
        BY <1>1, SomeCount
      <3>2. Within(db', n)
        BY <1>3, <3>1 DEF Counting
      <3> QED BY <2>1, <3>2 DEF Within, Fewer, Fits, SamePlaces, NoOverbooking
    <2>2. CASE db.ev.capacity # None
      <3> DEFINE n == db.ev.capacity
      <3>1. n \in Nat /\ n = db.ev.capacity
        BY <1>1, <2>2
      <3> HIDE DEF n
      <3>2. Within(db', n) /\ Fits(db, now, db.ev, n)
        BY <1>2, <1>3, <3>1 DEF Fits, SamePlaces
      <3>3. Fits(db', now, db.ev, n)
        <4>1. CASE Fewer(db, db', now)
          BY <3>1, <3>2, <4>1, FitsWithFewer DEF Fewer
        <4> QED BY <3>2, <4>1 DEF Within
      <3> QED BY <1>3, <2>2, <3>1, <3>3 DEF Fits, SamePlaces, NoOverbooking
    <2> QED BY <2>1, <2>2
  <1>4. ASSUME now' = now, SamePlaces(db'.ev, db.ev), Claims(db', now) \subseteq Claims(db, now)
        PROVE  NoOverbooking'
    <2>1. Cardinality(Claims(db', now)) <= Cardinality(Claims(db, now))
      BY <1>4, ClaimsFinite, FS_Subset
    <2> QED BY <1>1, <1>4, <2>1, ClaimsFinite DEF NoOverbooking, SamePlaces
  <1>5. CASE now' = now /\ \E p \in Desk : LapsedOfferConfirmed(p)
    BY <1>4, <1>5 DEF LapsedOfferConfirmed
  <1>6. CASE now' = now /\ \A n \in Nat : Given(db', n)
    <2>1. CASE db'.ev.capacity = None
      BY <2>1 DEF NoOverbooking
    <2>2. CASE db'.ev.capacity # None
      <3> DEFINE n == db'.ev.capacity
      <3>1. Supplemented(db'.ev, db.ev)
        BY <1>6 DEF Given
      <3>2. n \in Nat /\ db.ev.capacity \in Nat /\ db.ev.capacity <= n
        BY <1>1, <2>2, <3>1, NoneAssumption DEF Supplemented
      <3>3. Allowed(db'.ev, "staff", n) /\ Occupied(db, now) <= n
        <4>1. Occupied(db, now) <= db.ev.capacity /\ Occupied(db, now) \in Nat
          BY <1>2, <3>2, TakenFinite
        <4> QED BY <3>2, <4>1 DEF Allowed, CapacityForEntry
      <3>4. Fits(db', now, db'.ev, n)
        BY <1>6, <3>2, <3>3 DEF Given
      <3> QED BY <1>6, <2>2, <3>4 DEF Fits, NoOverbooking
    <2> QED BY <2>1, <2>2
  <1>7. CASE Sends \/ Tick
    <2>1. Fading
      BY <1>7, SendsFade, TickFades
    <2>2. Cardinality(Claims(db', now')) <= Cardinality(Claims(db, now))
      BY <2>1, ClaimsFinite, FS_Subset DEF Fading
    <2> QED BY <1>1, <2>1, <2>2, ClaimsFinite DEF NoOverbooking, Fading
  <1> QED BY <1>3, <1>5, <1>6, <1>7, StepsGive, EditFits

\* However many people there are and whatever order the transactions, the sends and the clock
\* come in, the counted places claimed are never more than the event has, as long as the
\* editor posts no capacity below the stored one (lockEventForCapacity, countOccupied).
THEOREM NoOverbookingHolds ==
    ASSUME ~EditorMayLower
    PROVE  Spec => []NoOverbooking
  <1>1. TypeOK /\ NoOverbooking /\ [Next]_vars => NoOverbooking'
    BY StepKeepsNoOverbooking DEF vars, NoOverbooking
  <1> QED BY <1>1, TypeCorrect, NothingClaimedAtFirst, PTL DEF Spec

\* What a step by the public door, or of the sweeps, may take: what it found, or what is
\* announced.
LEMMA AnnouncedOrFewer ==
    ASSUME TypeOK, [Next]_vars, Occupied(db', now') > Occupied(db, now), db'.ev.capacity # None,
           \/ \E p \in Person : EntersByThePublicDoor(p)
           \/ Maintenance \/ SweepLapsedInvitations
    PROVE  Occupied(db', now') <= CapacityForEntry(db'.ev, "public")
  <1>1. GoodRows(db) /\ now \in Time /\ db.ev \in StoredEvent /\ Occupied(db, now) \in Nat
        /\ Occupied(db', now) \in Nat
    BY CapacityRange, TakenFinite DEF TypeOK
  <1>2. now' = now
    BY DEF EntersByThePublicDoor, Submit, ConfirmEmail, ConfirmFamilyEntry, SubmitInSitting,
           HoldFamilyPlace, Maintenance, SweepLapsedInvitations, Commit
  <1>3. ASSUME NEW n, Counting("public", n) PROVE Within(db', n)
    <2>1. CASE \E p \in Person : EntersByThePublicDoor(p)
      <3>1. PICK p \in Person : EntersByThePublicDoor(p)
        BY <2>1
      <3>2. ASSUME ConfirmEmail(p), ~db.reg[p].staff PROVE Within(db', n)
        <4>1. Counting(IF db.reg[p].staff THEN "staff" ELSE "public", n)
          BY <1>3, <3>2
        <4> QED BY <3>2, <4>1, ConfirmEmailWithin
      <3>3. \/ ConfirmEmail(p) /\ ~db.reg[p].staff
            \/ Submit(p)
            \/ ConfirmFamilyEntry(p)
            \/ \E until \in SittingDeadlines(now) : SubmitInSitting(p, until)
            \/ \E until \in SittingDeadlines(now) : HoldFamilyPlace(p, until)
        BY <3>1 DEF EntersByThePublicDoor
      <3> QED BY <1>3, <3>2, <3>3, PublicEntryWithin
    <2>2. CASE Maintenance \/ SweepLapsedInvitations
      BY <1>3, <2>2, SweepWithin
    <2> QED BY <2>1, <2>2
  <1> DEFINE announced == CapacityForEntry(db.ev, "public")
             n == IF announced <= Occupied(db, now) THEN Occupied(db, now) ELSE announced
  <1>4. CASE db.ev.capacity = None
    <2>1. PICK m \in Nat : Allowed(db.ev, "staff", m) /\ Held(db, now, db.ev, m)
      BY <1>1, SomeCount
    <2>2. Counting("public", m)
      BY <1>4, <2>1 DEF Counting, Allowed
    <2>3. SamePlaces(db'.ev, db.ev)
      BY <1>3, <2>2 DEF Within, Fewer, Fits
    <2> QED BY <1>4, <2>3 DEF SamePlaces
  <1>5. CASE db.ev.capacity # None
    <2>1. announced \in Nat
      BY <1>1, <1>5, EntryCapacityRange
    <2>2. n \in Nat /\ announced <= n /\ Occupied(db, now) <= n
          /\ (n = Occupied(db, now) \/ n = announced)
      BY <1>1, <2>1
    <2> HIDE DEF n
    <2>3. Counting("public", n)
      BY <2>2 DEF Counting, Allowed, Held, SamePlaces
    <2>4. Within(db', n)
      BY <1>3, <2>3
    <2>5. CASE Fewer(db, db', now)
      <3>1. Occupied(db', now) <= Occupied(db, now)
        BY <2>5, TakenFinite, FS_Subset DEF Fewer, Occupied
      <3> QED BY <1>1, <1>2, <3>1
    <2>6. CASE Fits(db', now, db.ev, n)
      <3>1. Held(db', now, db.ev, n)
        BY <2>2, <2>6, FitsHeld
      <3>2. Occupied(db', now) <= n /\ SamePlaces(db'.ev, db.ev)
        BY <1>5, <3>1 DEF Held
      <3>3. n = announced
        BY <1>1, <1>2, <2>2, <3>2
      <3>4. CapacityForEntry(db'.ev, "public") = announced
        BY <3>2 DEF SamePlaces, CapacityForEntry, KeptOf
      <3> QED BY <1>2, <3>2, <3>3, <3>4
    <2> QED BY <2>4, <2>5, <2>6 DEF Within
  <1> QED BY <1>4, <1>5

\* However many people there are: whoever enters through the site, and whomever a sweep offers
\* a place, leaves the places kept for the club alone, whatever the editor kept or lowered
\* meanwhile (capacityForEntry, kept-places.ts).
THEOREM KeptPlacesKept ==
    Spec => KeptPlacesStayWithTheClub
  <1> DEFINE Kept == (/\ Occupied(db', now') > Occupied(db, now) /\ db'.ev.capacity # None
                      /\ \/ \E p \in Person : EntersByThePublicDoor(p)
                         \/ Maintenance \/ SweepLapsedInvitations)
                     => Occupied(db', now') <= CapacityForEntry(db'.ev, "public")
  <1>1. TypeOK /\ [Next]_vars => [Kept]_vars
    BY AnnouncedOrFewer
  <1> QED BY <1>1, TypeCorrect, PTL DEF Spec, KeptPlacesStayWithTheClub
=============================================================================
