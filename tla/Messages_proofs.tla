-------------------------- MODULE Messages_proofs --------------------------
(***************************************************************************)
(* What becomes of the club's messages, for every set of people, letters   *)
(* and roads.  A family's sitting names everybody, sends one message and   *)
(* keeps it back while its form is open: the invariant (SittingInv) counts *)
(* what each sitting holds and who in it still waits.  A visitor's message *)
(* takes the second road only when the first let it go: RelayInv says what *)
(* a worker holds at each of its steps.  What is told of a letter is the   *)
(* same whichever fact came first: FactsInv relates every letter's note to *)
(* the refusals that bear on it.                                           *)
(***************************************************************************)
EXTENDS DeliveryFacts, FamilySitting, Relay, FiniteSetTheorems, TLAPS

-----------------------------------------------------------------------------
(***************************************************************************)
(* The family's sitting.                                                   *)
(***************************************************************************)
\* Not yet left and not let go: whoever is named by this message still counts on it.
Unfinished(l) == l.state \in {"waiting", "leaving"} /\ ~l.letGo

\* Whoever has no message yet is in no sitting, holds no seed and has confirmed nothing.
Newcomers ==
  \A p \in People : mail[Own(p)].state = "none" =>
    /\ half[p] = 0 /\ p \notin joined
    /\ \A s \in Sittings : p \notin sitting[s].people /\ Own(p) \notin sitting[s].held

UnopenedIsEmpty ==
  \A s \in Sittings : ~sitting[s].open => sitting[s] = NoSitting /\ mail[TheFamilys(s)].state = "none"

\* What a sitting holds is its family's message, or a message of one of its people.
HeldIsTheirs ==
  \A s \in Sittings : \A m \in sitting[s].held :
    \/ m = TheFamilys(s)
    \/ \E p \in People : m = Own(p) /\ (p \in sitting[s].people \/ sitting[s].confirmed)

\* p came by the next form of this sitting, and is in no other.
OnlyIn(p, s) == half[p] = 0 /\ \A q \in Sittings : p \in sitting[q].people => q = s

\* The family's message, once queued, is all its sitting holds; and one of its people can confirm
\* by it alone, so the next form finds two who wait.
FamilyStands ==
  \A s \in Sittings :
    IF mail[TheFamilys(s)].state = "none"
    THEN TheFamilys(s) \notin sitting[s].held /\ ~sitting[s].confirmed
    ELSE /\ mail[TheFamilys(s)].state # "deleted" /\ sitting[s].held = {TheFamilys(s)}
         /\ \/ sitting[s].confirmed
            \/ \E p \in sitting[s].people \ joined : mail[Own(p)].state = "deleted" /\ OnlyIn(p, s)

UnfinishedIsHeld ==
  \A s \in Sittings : \A p \in sitting[s].people :
    Unfinished(mail[Own(p)]) => Own(p) \in sitting[s].held

\* What the button has read is short only of those who joined since.
PressStands ==
  \A s \in Sittings : pressing[s] # {} =>
    /\ pressing[s] \subseteq sitting[s].people /\ ~sitting[s].confirmed
    /\ mail[TheFamilys(s)].state = "left"
    /\ sitting[s].people \ pressing[s] \subseteq missed

MissedCameLate ==
  \A p \in missed : /\ half[p] = 0 /\ mail[Own(p)].state # "none"
                    /\ \A s, q \in Sittings : p \in sitting[s].people \cap sitting[q].people => s = q

ConfirmationStands ==
  \A s \in Sittings :
    /\ mail[Confirmation(s)].state # "none" => sitting[s].confirmed
    /\ says[s] # {} => mail[Confirmation(s)].state \in {"leaving", "left"}

\* A sitting somebody opened by their own seed lives at least as long as the seed.
SeedsHold ==
  \A s \in Sittings : \A p \in sitting[s].people :
    half[p] # 0 /\ ~sitting[s].released /\ ~sitting[s].confirmed =>
      /\ sitting[s].since + Window >= half[p]
      /\ sitting[s].until >= half[p] /\ sitting[s].reserved >= half[p]

\* Of two sittings that hold one message at most one can still move it.
HeldApart ==
  \A s, q \in Sittings : \A m \in sitting[s].held \cap sitting[q].held :
    s = q \/ sitting[s].released \/ sitting[q].released

TurnsKept ==
  \A s \in Sittings : \A m \in sitting[s].held :
    NeverTried(mail[m]) /\ ~mail[m].marked /\ ~sitting[s].released => mail[m].due >= sitting[s].until

RoomOnTheClock == \A s \in Sittings : sitting[s].open => sitting[s].reserved + Window <= LastTick + 1

\* EverybodyIsNamed, in its two halves.
EntrantsAreNamed ==
  \A p \in People \ (joined \cup missed) :
    mail[Own(p)].state = "deleted" =>
      \E s \in Sittings : /\ p \in sitting[s].people /\ ~sitting[s].confirmed
                          /\ mail[TheFamilys(s)].state \in {"waiting", "leaving", "left"}

Told(p, s) ==
  /\ p \in sitting[s].people
  /\ \/ Waiting(mail[Confirmation(s)]) \/ p \in says[s]
     \/ mail[Confirmation(s)].state = "leaving" /\ says[s] = {}

SignersAreTold == \A p \in signed \ alone : \E s \in Sittings : Told(p, s)

SittingInv ==
  /\ SittingTypeOK /\ Newcomers /\ UnopenedIsEmpty /\ HeldIsTheirs /\ FamilyStands
  /\ UnfinishedIsHeld /\ PressStands /\ MissedCameLate /\ ConfirmationStands /\ SeedsHold
  /\ HeldApart /\ TurnsKept /\ RoomOnTheClock /\ EntrantsAreNamed /\ SignersAreTold

LEMMA MessagesApart ==
    /\ \A p \in People : Own(p) \in Messages
    /\ \A s \in Sittings : TheFamilys(s) \in Messages /\ Confirmation(s) \in Messages
    /\ \A p, q : Own(p) = Own(q) => p = q
    /\ \A s, q : /\ TheFamilys(s) = TheFamilys(q) => s = q
                 /\ Confirmation(s) = Confirmation(q) => s = q
                 /\ Own(q) # TheFamilys(s) /\ Own(q) # Confirmation(s)
                 /\ TheFamilys(s) # Confirmation(q)
    /\ \A m \in Messages : \/ \E p \in People : m = Own(p)
                           \/ \E s \in Sittings : m = TheFamilys(s) \/ m = Confirmation(s)
  BY DEF Messages, Own, TheFamilys, Confirmation

MailRow == [state : {"none", "waiting", "leaving", "left", "deleted"}, due : Ticks,
            tried : BOOLEAN, marked : BOOLEAN, letGo : BOOLEAN]
SittingRow == [open : BOOLEAN, since : Ticks, people : SUBSET People,
               held : SUBSET Messages, until : Ticks, reserved : Ticks,
               released : BOOLEAN, confirmed : BOOLEAN]

LEMMA SittingTypes ==
    SittingTypeOK <=>
      /\ clock \in Ticks /\ hitches \in 0..HitchesMax
      /\ mail \in [Messages -> MailRow] /\ half \in [People -> Ticks]
      /\ sitting \in [Sittings -> SittingRow]
      /\ pressing \in [Sittings -> SUBSET People] /\ says \in [Sittings -> SUBSET People]
      /\ signed \subseteq joined /\ joined \subseteq People /\ alone \subseteq signed /\ missed \subseteq People
  BY DEF SittingTypeOK, MailRow, SittingRow

LEMMA TickRange == \A t : t \in Ticks <=> t \in Nat /\ t <= LastTick
  BY SittingAssumption DEF Ticks

LEMMA NextTick ==
    /\ 0 \in Ticks
    /\ \A t \in Ticks : t \in Nat /\ t <= LastTick /\ (t # LastTick => t + 1 \in Ticks)
  BY SittingAssumption DEF Ticks

LEMMA EmptyRows == NoMail \in MailRow /\ NoSitting \in SittingRow
  <1>1. 0 \in Ticks
    BY TickRange, SittingAssumption
  <1> QED BY <1>1 DEF NoMail, MailRow, NoSitting, SittingRow

LEMMA NewMailRow ==
    ASSUME NEW t \in Ticks
    PROVE  /\ NewMail(t) \in MailRow
           /\ NewMail(t).state = "waiting" /\ NewMail(t).due = t
           /\ ~NewMail(t).tried /\ ~NewMail(t).marked /\ ~NewMail(t).letGo
  BY EmptyRows DEF NewMail, NoMail, MailRow

LEMMA MovedMail ==
    ASSUME NEW l \in MailRow, NEW t \in Ticks
    PROVE  /\ Moved(l, t) \in MailRow
           /\ Moved(l, t).state = l.state /\ Moved(l, t).tried = l.tried
           /\ Moved(l, t).marked = l.marked /\ Moved(l, t).letGo = l.letGo
           /\ Moved(l, t).due = IF NeverTried(l) /\ ~l.marked THEN t ELSE l.due
  BY DEF Moved, MailRow

LEMMA ReplacedMail ==
    ASSUME NEW l \in MailRow
    PROVE  /\ ReplacedBy(l) \in MailRow
           /\ ReplacedBy(l).state = IF NeverTried(l) THEN "deleted" ELSE l.state
           /\ ~NeverTried(l) => ReplacedBy(l).letGo
           /\ ~NeverTried(ReplacedBy(l)) /\ ~Unfinished(ReplacedBy(l))
  <1>1. CASE NeverTried(l)
    BY <1>1, EmptyRows DEF ReplacedBy, NoMail, MailRow, NeverTried, Waiting, Unfinished
  <1>2. CASE ~NeverTried(l)
    BY <1>2 DEF ReplacedBy, MailRow, NeverTried, Waiting, Unfinished
  <1> QED BY <1>1, <1>2

LEMMA AskedTicks ==
    ASSUME SittingTypeOK
    PROVE  \A at \in Asked : at \in Ticks /\ at \in Nat /\ clock - 1 <= at /\ at <= clock
  BY TickRange, SittingTypes DEF Asked

LEMMA NamedInTwoHalves == EverybodyIsNamed <=> EntrantsAreNamed /\ SignersAreTold
  BY DEF EverybodyIsNamed, EntrantsAreNamed, SignersAreTold, Told

-----------------------------------------------------------------------------
(* Steps of the queue, and of the windows: what they leave as it is. *)

\* A message goes on, never back to nothing or out of the queue, and is never taken back once let go.
Onward(l, k) ==
  /\ k.state = "none" <=> l.state = "none"
  /\ k.state = "deleted" <=> l.state = "deleted"
  /\ l.state = "left" => k.state = "left"
  /\ Unfinished(k) => Unfinished(l)

\* Only a sitting's window moves, or ends.
SameSitting(row, next) ==
  /\ next.open = row.open /\ next.people = row.people /\ next.held = row.held
  /\ next.confirmed = row.confirmed /\ next.reserved = row.reserved /\ next.since = row.since
  /\ row.released => next.released
  /\ ~row.open => next = row

LEMMA OnwardKeeps ==
    ASSUME SittingInv,
           mail' \in [Messages -> MailRow], sitting' \in [Sittings -> SittingRow],
           \A p \in People : Onward(mail[Own(p)], mail'[Own(p)]),
           \A s \in Sittings : Onward(mail[TheFamilys(s)], mail'[TheFamilys(s)]),
           \A s \in Sittings : SameSitting(sitting[s], sitting'[s]),
           UNCHANGED <<half, pressing, joined, missed>>
    PROVE  /\ Newcomers' /\ UnopenedIsEmpty' /\ HeldIsTheirs' /\ FamilyStands' /\ UnfinishedIsHeld'
           /\ PressStands' /\ MissedCameLate' /\ HeldApart' /\ RoomOnTheClock' /\ EntrantsAreNamed'
  <1>1. Newcomers'
    BY DEF SittingInv, Newcomers, Onward, SameSitting
  <1>2. UnopenedIsEmpty'
    BY DEF SittingInv, UnopenedIsEmpty, Onward, SameSitting
  <1>3. HeldIsTheirs'
    BY DEF SittingInv, HeldIsTheirs, SameSitting
  <1>4. FamilyStands'
    <2> SUFFICES ASSUME NEW s \in Sittings
                 PROVE  IF mail'[TheFamilys(s)].state = "none"
                        THEN TheFamilys(s) \notin sitting'[s].held /\ ~sitting'[s].confirmed
                        ELSE /\ mail'[TheFamilys(s)].state # "deleted"
                             /\ sitting'[s].held = {TheFamilys(s)}
                             /\ \/ sitting'[s].confirmed
                                \/ \E p \in sitting'[s].people \ joined' :
                                      mail'[Own(p)].state = "deleted" /\ OnlyIn(p, s)'
      BY DEF FamilyStands
    <2>1. CASE mail[TheFamilys(s)].state = "none"
      BY <2>1 DEF SittingInv, FamilyStands, Onward, SameSitting
    <2>2. CASE mail[TheFamilys(s)].state # "none"
      <3>1. CASE sitting[s].confirmed
        BY <2>2, <3>1 DEF SittingInv, FamilyStands, Onward, SameSitting
      <3>2. CASE ~sitting[s].confirmed
        <4>1. PICK p \in sitting[s].people \ joined : mail[Own(p)].state = "deleted" /\ OnlyIn(p, s)
          BY <2>2, <3>2 DEF SittingInv, FamilyStands
        <4>2. p \in People
          BY <4>1, SittingTypes DEF SittingInv, SittingRow
        <4>3. mail'[Own(p)].state = "deleted" /\ OnlyIn(p, s)' /\ p \in sitting'[s].people \ joined'
          BY <4>1, <4>2 DEF Onward, SameSitting, OnlyIn
        <4> QED BY <2>2, <4>3 DEF SittingInv, FamilyStands, Onward, SameSitting
      <3> QED BY <3>1, <3>2
    <2> QED BY <2>1, <2>2
  <1>5. UnfinishedIsHeld'
    <2>1. \A s \in Sittings : sitting[s].people \subseteq People
      BY SittingTypes DEF SittingInv, SittingRow
    <2> QED BY <2>1 DEF SittingInv, UnfinishedIsHeld, Onward, SameSitting
  <1>6. PressStands'
    BY DEF SittingInv, PressStands, Onward, SameSitting
  <1>9. HeldApart'
    BY DEF SittingInv, HeldApart, SameSitting
  <1>10. RoomOnTheClock'
    BY DEF SittingInv, RoomOnTheClock, SameSitting
  <1>7. MissedCameLate'
    <2>1. missed \subseteq People
      BY SittingTypes DEF SittingInv
    <2> QED BY <2>1 DEF SittingInv, MissedCameLate, Onward, SameSitting
  <1>8. EntrantsAreNamed'
    <2>1. \A s \in Sittings : mail'[TheFamilys(s)].state \in {"none", "deleted", "waiting", "leaving", "left"}
      BY MessagesApart DEF MailRow
    <2> QED BY <2>1 DEF SittingInv, EntrantsAreNamed, Onward, SameSitting
  <1> QED BY <1>1, <1>2, <1>3, <1>4, <1>5, <1>6, <1>7, <1>8, <1>9, <1>10

-----------------------------------------------------------------------------
(* The clock and the queue's worker. *)

LEMMA ClockTicksKeeps ==
    ASSUME SittingInv, ClockTicks
    PROVE  SittingInv'
  <1>1. UNCHANGED <<mail, half, sitting, pressing, joined, signed, alone, says, hitches, missed>>
    BY DEF ClockTicks
  <1>2. SittingTypeOK'
    <2>1. clock' \in Ticks
      BY NextTick, SittingTypes DEF SittingInv, ClockTicks
    <2> QED BY <1>1, <2>1, SittingTypes DEF SittingInv, SittingTypeOK
  <1>3. /\ \A p \in People : Onward(mail[Own(p)], mail'[Own(p)])
        /\ \A s \in Sittings : Onward(mail[TheFamilys(s)], mail'[TheFamilys(s)])
        /\ \A s \in Sittings : SameSitting(sitting[s], sitting'[s])
    BY <1>1 DEF Onward, SameSitting
  <1>4. ConfirmationStands' /\ SeedsHold' /\ TurnsKept' /\ SignersAreTold'
    BY <1>1 DEF SittingInv, ConfirmationStands, SeedsHold, TurnsKept, SignersAreTold, Told
  <1>5. mail' \in [Messages -> MailRow] /\ sitting' \in [Sittings -> SittingRow]
    BY <1>1, SittingTypes DEF SittingInv
  <1> QED BY <1>1, <1>2, <1>3, <1>4, <1>5, OnwardKeeps DEF SittingInv

\* A worker's step on one message leaves the sittings alone.
LEMMA OneMailKeeps ==
    ASSUME SittingInv, NEW m \in Messages, NEW l \in MailRow, mail' = [mail EXCEPT ![m] = l],
           mail[m].state \in {"waiting", "leaving"}, l.state \in {"waiting", "leaving", "left"},
           Unfinished(l) => Unfinished(mail[m]), NeverTried(l) => l.marked,
           UNCHANGED <<clock, half, sitting, pressing, joined, signed, alone, missed>>,
           hitches' \in 0..HitchesMax, says' \in [Sittings -> SUBSET People],
           ConfirmationStands', SignersAreTold'
    PROVE  SittingInv'
  <1>1. /\ mail' \in [Messages -> MailRow] /\ mail'[m] = l
        /\ \A x \in Messages \ {m} : mail'[x] = mail[x]
    BY SittingTypes DEF SittingInv
  <1>2. sitting' \in [Sittings -> SittingRow]
    BY SittingTypes DEF SittingInv
  <1>3. SittingTypeOK'
    BY <1>1, <1>2, SittingTypes DEF SittingInv, SittingTypeOK, MailRow, SittingRow
  <1>4. \A x \in Messages : Onward(mail[x], mail'[x])
    BY <1>1 DEF Onward, Unfinished
  <1>5. \A s \in Sittings : SameSitting(sitting[s], sitting'[s])
    BY DEF SameSitting
  <1>6. SeedsHold'
    BY DEF SittingInv, SeedsHold
  <1>7. TurnsKept'
    <2>1. \A s \in Sittings : sitting[s].held \subseteq Messages
      BY SittingTypes DEF SittingInv, SittingRow
    <2> QED BY <1>1, <2>1 DEF SittingInv, TurnsKept, NeverTried, Waiting
  <1>8. /\ \A p \in People : Onward(mail[Own(p)], mail'[Own(p)])
        /\ \A s \in Sittings : Onward(mail[TheFamilys(s)], mail'[TheFamilys(s)])
    BY <1>4, MessagesApart
  <1> QED BY <1>1, <1>2, <1>3, <1>5, <1>6, <1>7, <1>8, OnwardKeeps DEF SittingInv

LEMMA ClaimsKeeps ==
    ASSUME SittingInv, NEW m \in Messages, Claims(m)
    PROVE  SittingInv'
  <1> DEFINE l == [mail[m] EXCEPT !.state = "leaving", !.tried = TRUE, !.due = 0]
  <1>1. mail \in [Messages -> MailRow] /\ mail[m] \in MailRow
    BY SittingTypes DEF SittingInv
  <1>2. /\ l \in MailRow /\ l.state = "leaving" /\ l.tried /\ l.letGo = mail[m].letGo
    BY <1>1, NextTick DEF MailRow
  <1>3. mail' = [mail EXCEPT ![m] = l]
    BY DEF Claims
  <1>4. mail[m].state = "waiting"
    BY DEF Claims, Waiting
  <1>5. UNCHANGED <<clock, half, sitting, pressing, joined, signed, alone, says, hitches, missed>>
    BY DEF Claims
  <1> HIDE DEF l
  <1>6. mail'[m] = l /\ \A x \in Messages \ {m} : mail'[x] = mail[x]
    BY <1>1, <1>3
  <1>7. ConfirmationStands'
    BY <1>2, <1>4, <1>5, <1>6, MessagesApart DEF SittingInv, ConfirmationStands
  <1>8. SignersAreTold'
    <2>1. \A p \in People, s \in Sittings : Told(p, s) => Told(p, s)'
      BY <1>2, <1>4, <1>5, <1>6, MessagesApart DEF SittingInv, ConfirmationStands, Told, Waiting
    <2> QED BY <1>5, <2>1, SittingTypes DEF SittingInv, SignersAreTold
  <1>9. Unfinished(l) => Unfinished(mail[m])
    BY <1>2, <1>4 DEF Unfinished
  <1>10. ~NeverTried(l)
    BY <1>2 DEF NeverTried
  <1>11. hitches' \in 0..HitchesMax /\ says' \in [Sittings -> SUBSET People]
    BY <1>5, SittingTypes DEF SittingInv
  <1> QED BY <1>2, <1>3, <1>4, <1>5, <1>7, <1>8, <1>9, <1>10, <1>11, OneMailKeeps

LEMMA LeavesKeeps ==
    ASSUME SittingInv, NEW m \in Messages, Leaves(m)
    PROVE  SittingInv'
  <1> DEFINE l == [NoMail EXCEPT !.state = "left"]
  <1>1. mail \in [Messages -> MailRow] /\ mail[m] \in MailRow
    BY SittingTypes DEF SittingInv
  <1>2. /\ l \in MailRow /\ l.state = "left"
    BY EmptyRows DEF NoMail, MailRow
  <1>3. mail' = [mail EXCEPT ![m] = l]
    BY DEF Leaves
  <1>4. mail[m].state = "leaving" /\ \A s \in Sittings : m = Confirmation(s) => says[s] # {}
    BY DEF Leaves, Rendered
  <1>5. UNCHANGED <<clock, half, sitting, pressing, joined, signed, alone, says, hitches, missed>>
    BY DEF Leaves
  <1> HIDE DEF l
  <1>6. mail'[m] = l /\ \A x \in Messages \ {m} : mail'[x] = mail[x]
    BY <1>1, <1>3
  <1>7. ConfirmationStands'
    BY <1>2, <1>4, <1>5, <1>6, MessagesApart DEF SittingInv, ConfirmationStands
  <1>8. SignersAreTold'
    <2>1. \A p \in People, s \in Sittings : Told(p, s) => Told(p, s)'
      BY <1>2, <1>4, <1>5, <1>6, MessagesApart DEF Told, Waiting
    <2> QED BY <1>5, <2>1, SittingTypes DEF SittingInv, SignersAreTold
  <1>9. ~Unfinished(l) /\ ~NeverTried(l)
    BY <1>2 DEF Unfinished, NeverTried, Waiting
  <1>10. hitches' \in 0..HitchesMax /\ says' \in [Sittings -> SUBSET People]
    BY <1>5, SittingTypes DEF SittingInv
  <1> QED BY <1>2, <1>3, <1>4, <1>5, <1>7, <1>8, <1>9, <1>10, OneMailKeeps

LEMMA HitchKeeps ==
    ASSUME SittingInv, NEW m \in Messages, NEW stopped \in BOOLEAN, Hitch(m, stopped)
    PROVE  SittingInv'
  <1> DEFINE due == IF clock = LastTick THEN clock ELSE clock + 1
             l == [mail[m] EXCEPT !.state = "waiting", !.tried = ~stopped, !.marked = stopped, !.due = due]
  <1>1. mail \in [Messages -> MailRow] /\ mail[m] \in MailRow
    BY SittingTypes DEF SittingInv
  <1>a. due \in Ticks
    BY NextTick, SittingTypes DEF SittingInv
  <1>2. /\ l \in MailRow /\ l.state = "waiting" /\ l.letGo = mail[m].letGo
        /\ l.tried = ~stopped /\ l.marked = stopped
    BY <1>1, <1>a DEF MailRow
  <1>3. mail' = [mail EXCEPT ![m] = l]
    BY <1>1 DEF Hitch, MailRow
  <1>4. mail[m].state = "leaving" /\ hitches' = hitches + 1 /\ hitches < HitchesMax
    BY DEF Hitch
  <1>5. UNCHANGED <<clock, half, sitting, pressing, joined, signed, alone, missed>>
    BY DEF Hitch
  <1> HIDE DEF l
  <1>6. mail'[m] = l /\ \A x \in Messages \ {m} : mail'[x] = mail[x]
    BY <1>1, <1>3
  <1>s. /\ says' \in [Sittings -> SUBSET People]
        /\ \A s \in Sittings : says'[s] = IF m = Confirmation(s) THEN {} ELSE says[s]
    BY SittingTypes DEF SittingInv, Hitch, Unsaid
  <1>7. ConfirmationStands'
    BY <1>2, <1>4, <1>5, <1>6, <1>s, MessagesApart DEF SittingInv, ConfirmationStands
  <1>8. SignersAreTold'
    <2>1. \A p \in People, s \in Sittings : Told(p, s) => Told(p, s)'
      BY <1>2, <1>4, <1>5, <1>6, <1>s, MessagesApart DEF Told, Waiting
    <2> QED BY <1>5, <2>1, SittingTypes DEF SittingInv, SignersAreTold
  <1>9. Unfinished(l) => Unfinished(mail[m])
    BY <1>2, <1>4 DEF Unfinished
  <1>10. NeverTried(l) => l.marked
    BY <1>2 DEF NeverTried
  <1>11. hitches' \in 0..HitchesMax
    BY <1>4, SittingTypes, SittingAssumption DEF SittingInv
  <1> QED BY <1>2, <1>3, <1>4, <1>5, <1>7, <1>8, <1>9, <1>10, <1>11, <1>s, OneMailKeeps

LEMMA RenderKeeps ==
    ASSUME SittingInv, NEW s \in Sittings, RenderConfirmation(s)
    PROVE  SittingInv'
  <1>1. UNCHANGED <<clock, mail, half, sitting, pressing, joined, signed, alone, hitches, missed>>
    BY DEF RenderConfirmation
  <1>2. /\ mail[Confirmation(s)].state = "leaving" /\ says[s] = {}
        /\ says' \in [Sittings -> SUBSET People] /\ says'[s] = sitting[s].people \cap signed
        /\ \A q \in Sittings \ {s} : says'[q] = says[q]
    BY SittingTypes DEF SittingInv, RenderConfirmation
  <1>3. SittingTypeOK'
    BY <1>1, <1>2, SittingTypes DEF SittingInv, SittingTypeOK
  <1>4. /\ \A p \in People : Onward(mail[Own(p)], mail'[Own(p)])
        /\ \A q \in Sittings : Onward(mail[TheFamilys(q)], mail'[TheFamilys(q)])
        /\ \A q \in Sittings : SameSitting(sitting[q], sitting'[q])
    BY <1>1 DEF Onward, SameSitting
  <1>5. ConfirmationStands' /\ SeedsHold' /\ TurnsKept'
    BY <1>1, <1>2 DEF SittingInv, ConfirmationStands, SeedsHold, TurnsKept
  <1>6. SignersAreTold'
    <2>1. \A p \in signed, q \in Sittings : Told(p, q) => Told(p, q)'
      BY <1>1, <1>2 DEF Told, Waiting
    <2> QED BY <1>1, <2>1 DEF SittingInv, SignersAreTold
  <1>7. mail' \in [Messages -> MailRow] /\ sitting' \in [Sittings -> SittingRow]
    BY <1>1, SittingTypes DEF SittingInv
  <1> QED BY <1>1, <1>3, <1>4, <1>5, <1>6, <1>7, OnwardKeeps DEF SittingInv

-----------------------------------------------------------------------------
(* The links and the button. *)

LEMMA FirstFormKeeps ==
    ASSUME SittingInv, NEW p \in People, FirstForm(p)
    PROVE  SittingInv'
  <1>1. /\ clock \in Ticks /\ clock + Window \in Ticks /\ clock + Window # 0
    BY NextTick, TickRange, SittingTypes, SittingAssumption DEF SittingInv, FirstForm
  <1>2. mail \in [Messages -> MailRow] /\ Own(p) \in Messages
    BY SittingTypes, MessagesApart DEF SittingInv
  <1>3. /\ mail' \in [Messages -> MailRow]
        /\ mail[Own(p)].state = "none" /\ mail'[Own(p)].state = "waiting"
        /\ \A x \in Messages \ {Own(p)} : mail'[x] = mail[x]
    BY <1>1, <1>2, NewMailRow DEF FirstForm
  <1>4. /\ half' \in [People -> Ticks] /\ \A q \in People \ {p} : half'[q] = half[q]
    BY <1>1, SittingTypes DEF SittingInv, FirstForm
  <1>5. UNCHANGED <<clock, sitting, pressing, joined, signed, alone, says, hitches, missed>>
    BY DEF FirstForm
  <1>6. SittingTypeOK'
    BY <1>3, <1>4, <1>5, SittingTypes DEF SittingInv, SittingTypeOK, MailRow
  <1>7. /\ p \notin joined /\ p \notin missed
        /\ \A s \in Sittings : p \notin sitting[s].people /\ Own(p) \notin sitting[s].held
    BY <1>3 DEF SittingInv, Newcomers, MissedCameLate
  <1>t. \A s \in Sittings : sitting[s].people \subseteq People /\ sitting[s].held \subseteq Messages
    BY SittingTypes DEF SittingInv, SittingRow
  <1>8. Newcomers'
    BY <1>3, <1>4, <1>5, MessagesApart DEF SittingInv, Newcomers
  <1>9. UnopenedIsEmpty' /\ RoomOnTheClock' /\ HeldApart' /\ HeldIsTheirs'
    BY <1>3, <1>5, MessagesApart
       DEF SittingInv, UnopenedIsEmpty, RoomOnTheClock, HeldApart, HeldIsTheirs
  <1>10. FamilyStands'
    <2>1. \A s \in Sittings : mail'[TheFamilys(s)] = mail[TheFamilys(s)]
      BY <1>3, MessagesApart
    <2>2. \A s \in Sittings : \A q \in sitting[s].people :
             mail[Own(q)].state = "deleted" /\ OnlyIn(q, s) =>
               mail'[Own(q)].state = "deleted" /\ OnlyIn(q, s)'
      BY <1>3, <1>4, <1>5, <1>7, <1>t, MessagesApart DEF OnlyIn
    <2> QED BY <1>5, <2>1, <2>2 DEF SittingInv, FamilyStands
  <1>11. UnfinishedIsHeld' /\ SeedsHold'
    BY <1>3, <1>4, <1>5, <1>7, <1>t, MessagesApart DEF SittingInv, UnfinishedIsHeld, SeedsHold
  <1>12. PressStands' /\ ConfirmationStands'
    BY <1>3, <1>5, MessagesApart DEF SittingInv, PressStands, ConfirmationStands
  <1>13. MissedCameLate'
    <2>1. missed \subseteq People
      BY SittingTypes DEF SittingInv
    <2> QED BY <1>3, <1>4, <1>5, <1>7, <2>1, MessagesApart DEF SittingInv, MissedCameLate
  <1>14. TurnsKept'
    BY <1>3, <1>5, <1>7, <1>t DEF SittingInv, TurnsKept
  <1>15. EntrantsAreNamed'
    BY <1>3, <1>5, MessagesApart DEF SittingInv, EntrantsAreNamed
  <1>16. SignersAreTold'
    <2>1. \A s \in Sittings : mail'[Confirmation(s)] = mail[Confirmation(s)]
      BY <1>3, MessagesApart
    <2>2. \A q, s : s \in Sittings /\ Told(q, s) => Told(q, s)'
      BY <1>5, <2>1 DEF Told
    <2>3. SignersAreTold
      BY DEF SittingInv
    <2> QED BY <1>5, <2>2, <2>3 DEF SignersAreTold
  <1> QED BY <1>6, <1>8, <1>9, <1>10, <1>11, <1>12, <1>13, <1>14, <1>15, <1>16 DEF SittingInv

LEMMA PressOwnKeeps ==
    ASSUME SittingInv, NEW p \in People, PressOwn(p)
    PROVE  SittingInv'
  <1>1. /\ mail[Own(p)].state = "left" /\ joined' = joined \cup {p}
        /\ UNCHANGED <<clock, mail, half, sitting, pressing, signed, alone, says, hitches, missed>>
    BY DEF PressOwn
  <1>2. SittingTypeOK'
    BY <1>1, SittingTypes DEF SittingInv, SittingTypeOK
  <1>3. Newcomers' /\ EntrantsAreNamed'
    BY <1>1, MessagesApart DEF SittingInv, Newcomers, EntrantsAreNamed
  <1>4. FamilyStands'
    <2>1. \A s \in Sittings : \A q \in sitting[s].people \ joined :
             mail[Own(q)].state = "deleted" /\ OnlyIn(q, s) =>
               q \in sitting'[s].people \ joined' /\ mail'[Own(q)].state = "deleted" /\ OnlyIn(q, s)'
      BY <1>1 DEF OnlyIn
    <2> QED BY <1>1, <2>1 DEF SittingInv, FamilyStands
  <1>5. UnopenedIsEmpty' /\ HeldIsTheirs' /\ UnfinishedIsHeld' /\ PressStands' /\ MissedCameLate'
    BY <1>1 DEF SittingInv, UnopenedIsEmpty, HeldIsTheirs, UnfinishedIsHeld, PressStands, MissedCameLate
  <1>6. ConfirmationStands' /\ SeedsHold' /\ HeldApart' /\ TurnsKept' /\ RoomOnTheClock' /\ SignersAreTold'
    BY <1>1 DEF SittingInv, ConfirmationStands, SeedsHold, HeldApart, TurnsKept, RoomOnTheClock,
         SignersAreTold, Told
  <1> QED BY <1>2, <1>3, <1>4, <1>5, <1>6 DEF SittingInv

LEMMA PressReadsKeeps ==
    ASSUME SittingInv, NEW s \in Sittings, PressReads(s)
    PROVE  SittingInv'
  <1>1. /\ mail[TheFamilys(s)].state = "left" /\ ~sitting[s].confirmed
        /\ pressing' \in [Sittings -> SUBSET People] /\ pressing'[s] = sitting[s].people
        /\ \A q \in Sittings \ {s} : pressing'[q] = pressing[q]
        /\ UNCHANGED <<clock, mail, half, sitting, joined, signed, alone, says, hitches, missed>>
    BY SittingTypes DEF SittingInv, PressReads, SittingRow
  <1>2. SittingTypeOK'
    BY <1>1, SittingTypes DEF SittingInv, SittingTypeOK
  <1>3. PressStands'
    BY <1>1 DEF SittingInv, PressStands
  <1>4. FamilyStands'
    BY <1>1 DEF SittingInv, FamilyStands, OnlyIn
  <1>5. /\ Newcomers' /\ UnopenedIsEmpty' /\ HeldIsTheirs' /\ UnfinishedIsHeld' /\ MissedCameLate'
        /\ EntrantsAreNamed'
    BY <1>1 DEF SittingInv, Newcomers, UnopenedIsEmpty, HeldIsTheirs, UnfinishedIsHeld, MissedCameLate,
         EntrantsAreNamed
  <1>6. ConfirmationStands' /\ SeedsHold' /\ HeldApart' /\ TurnsKept' /\ RoomOnTheClock' /\ SignersAreTold'
    BY <1>1 DEF SittingInv, ConfirmationStands, SeedsHold, HeldApart, TurnsKept, RoomOnTheClock,
         SignersAreTold, Told
  <1> QED BY <1>2, <1>3, <1>4, <1>5, <1>6 DEF SittingInv

LEMMA PressFailsKeeps ==
    ASSUME SittingInv, NEW s \in Sittings, PressFails(s)
    PROVE  SittingInv'
  <1>1. /\ pressing[s] # {} /\ pressing' \in [Sittings -> SUBSET People] /\ pressing'[s] = {}
        /\ \A q \in Sittings \ {s} : pressing'[q] = pressing[q]
        /\ missed' = missed \ sitting[s].people
        /\ UNCHANGED <<clock, mail, half, sitting, joined, signed, alone, says, hitches>>
    BY SittingTypes DEF SittingInv, PressFails
  <1>2. SittingTypeOK'
    BY <1>1, SittingTypes DEF SittingInv, SittingTypeOK
  <1>3. PressStands'
    BY <1>1 DEF SittingInv, PressStands, MissedCameLate
  <1>4. FamilyStands'
    BY <1>1 DEF SittingInv, FamilyStands, OnlyIn
  <1>5. EntrantsAreNamed'
    BY <1>1 DEF SittingInv, EntrantsAreNamed, PressStands
  <1>6. Newcomers' /\ UnopenedIsEmpty' /\ HeldIsTheirs' /\ UnfinishedIsHeld' /\ MissedCameLate'
    BY <1>1 DEF SittingInv, Newcomers, UnopenedIsEmpty, HeldIsTheirs, UnfinishedIsHeld, MissedCameLate
  <1>7. ConfirmationStands' /\ SeedsHold' /\ HeldApart' /\ TurnsKept' /\ RoomOnTheClock' /\ SignersAreTold'
    BY <1>1 DEF SittingInv, ConfirmationStands, SeedsHold, HeldApart, TurnsKept, RoomOnTheClock,
         SignersAreTold, Told
  <1> QED BY <1>2, <1>3, <1>4, <1>5, <1>6, <1>7 DEF SittingInv

LEMMA PressWritesKeeps ==
    ASSUME SittingInv, NEW s \in Sittings, PressWrites(s)
    PROVE  SittingInv'
  <1>1. /\ pressing[s] # {} /\ joined' = joined \cup pressing[s]
        /\ pressing' \in [Sittings -> SUBSET People] /\ pressing'[s] = {}
        /\ \A q \in Sittings \ {s} : pressing'[q] = pressing[q]
        /\ UNCHANGED <<clock, mail, half, signed, alone, says, hitches, missed>>
    BY SittingTypes DEF SittingInv, PressWrites
  <1>2. /\ pressing[s] \subseteq sitting[s].people /\ ~sitting[s].confirmed
        /\ mail[TheFamilys(s)].state = "left" /\ sitting[s].people \ pressing[s] \subseteq missed
    BY <1>1 DEF SittingInv, PressStands
  <1>3. /\ sitting' \in [Sittings -> SittingRow]
        /\ \A q \in Sittings \ {s} : sitting'[q] = sitting[q]
        /\ sitting'[s] = [sitting[s] EXCEPT !.confirmed = TRUE, !.people = pressing[s]]
    <2>1. sitting \in [Sittings -> SittingRow] /\ pressing[s] \subseteq People
      BY SittingTypes DEF SittingInv
    <2>2. [sitting[s] EXCEPT !.confirmed = TRUE, !.people = pressing[s]] \in SittingRow
      BY <2>1 DEF SittingRow
    <2>3. sitting' = [sitting EXCEPT ![s] = [sitting[s] EXCEPT !.confirmed = TRUE, !.people = pressing[s]]]
      BY <2>1 DEF PressWrites, SittingRow
    <2> QED BY <2>1, <2>2, <2>3
  <1>4. /\ sitting'[s].confirmed /\ sitting'[s].people = pressing[s]
        /\ sitting'[s].held = sitting[s].held /\ sitting'[s].open = sitting[s].open
        /\ sitting'[s].released = sitting[s].released /\ sitting'[s].until = sitting[s].until
        /\ sitting'[s].reserved = sitting[s].reserved
    BY <1>3, SittingTypes DEF SittingInv, SittingRow
  <1>5. \A q \in Sittings : sitting'[q].people \subseteq sitting[q].people
    BY <1>2, <1>3, <1>4
  <1>6. SittingTypeOK'
    BY <1>1, <1>3, SittingTypes DEF SittingInv, SittingTypeOK, SittingRow
  <1>7. sitting[s].open
    <2>1. NoSitting.people = {}
      BY DEF NoSitting
    <2> QED BY <1>1, <1>2, <2>1 DEF SittingInv, UnopenedIsEmpty
  <1>8. Newcomers'
    <2>1. \A q \in Sittings : sitting'[q].held = sitting[q].held
      BY <1>3, <1>4
    <2>2. \A p \in joined' : p \in joined \/ p \in sitting[s].people
      BY <1>1, <1>2
    <2> QED BY <1>1, <1>5, <2>1, <2>2 DEF SittingInv, Newcomers
  <1>9. UnopenedIsEmpty' /\ RoomOnTheClock'
    BY <1>1, <1>3, <1>4, <1>7 DEF SittingInv, UnopenedIsEmpty, RoomOnTheClock
  <1>h. \A q \in Sittings : sitting'[q].held = sitting[q].held
    BY <1>3, <1>4
  <1>r. \A q \in Sittings : sitting'[q].released = sitting[q].released
    BY <1>3, <1>4
  <1>10. HeldIsTheirs'
    <2>1. \A q \in Sittings, p \in People :
             p \in sitting[q].people \/ sitting[q].confirmed =>
               p \in sitting'[q].people \/ sitting'[q].confirmed
      BY <1>3, <1>4
    <2>2. \A q \in Sittings, m \in Messages : m \in sitting'[q].held => m \in sitting[q].held
      BY <1>h
    <2>3. \A q \in Sittings : sitting'[q].held \subseteq Messages
      BY <1>3 DEF SittingRow
    <2> QED BY <2>1, <2>2, <2>3 DEF SittingInv, HeldIsTheirs
  <1>11. FamilyStands'
    <2> SUFFICES ASSUME NEW q \in Sittings \ {s}
                 PROVE  IF mail'[TheFamilys(q)].state = "none"
                        THEN TheFamilys(q) \notin sitting'[q].held /\ ~sitting'[q].confirmed
                        ELSE /\ mail'[TheFamilys(q)].state # "deleted"
                             /\ sitting'[q].held = {TheFamilys(q)}
                             /\ \/ sitting'[q].confirmed
                                \/ \E p \in sitting'[q].people \ joined' :
                                      mail'[Own(p)].state = "deleted" /\ OnlyIn(p, q)'
      BY <1>1, <1>2, <1>4 DEF SittingInv, FamilyStands
    <2>1. \A p \in sitting[q].people \ joined :
             OnlyIn(p, q) => p \in sitting'[q].people \ joined' /\ OnlyIn(p, q)'
      BY <1>1, <1>2, <1>3, <1>5 DEF OnlyIn
    <2> QED BY <1>1, <1>3, <2>1 DEF SittingInv, FamilyStands
  <1>12. UnfinishedIsHeld'
    BY <1>1, <1>3, <1>4, <1>5 DEF SittingInv, UnfinishedIsHeld
  <1>13. PressStands'
    BY <1>1, <1>3 DEF SittingInv, PressStands
  <1>14. MissedCameLate'
    BY <1>1, <1>5 DEF SittingInv, MissedCameLate
  <1>15. ConfirmationStands'
    BY <1>1, <1>3, <1>4 DEF SittingInv, ConfirmationStands
  <1>16. SeedsHold' /\ TurnsKept'
    <2>1. \A q \in Sittings : sitting'[q].until = sitting[q].until
      BY <1>3, <1>4
    <2>2. TurnsKept'
      BY <1>1, <1>h, <1>r, <2>1 DEF SittingInv, TurnsKept
    <2>3. SeedsHold'
      BY <1>1, <1>3, <1>4 DEF SittingInv, SeedsHold
    <2> QED BY <2>2, <2>3
  <1>17. HeldApart'
    BY <1>h, <1>r DEF SittingInv, HeldApart
  <1>18. EntrantsAreNamed'
    BY <1>1, <1>2, <1>3 DEF SittingInv, EntrantsAreNamed
  <1>19. SignersAreTold'
    <2>1. \A p \in signed, q \in Sittings : Told(p, q) => q # s
      BY <1>2 DEF SittingInv, ConfirmationStands, Told, Waiting
    <2>2. \A p, q : p \in signed /\ q \in Sittings /\ Told(p, q) => Told(p, q)'
      <3>1. \A p, q : p \in signed /\ q \in Sittings /\ Told(p, q) => sitting'[q] = sitting[q]
        BY <1>3, <2>1
      <3> QED BY <1>1, <3>1 DEF Told
    <2>3. SignersAreTold
      BY DEF SittingInv
    <2> QED BY <1>1, <2>2, <2>3 DEF SignersAreTold
  <1> QED BY <1>6, <1>8, <1>9, <1>10, <1>11, <1>12, <1>13, <1>14, <1>15, <1>16, <1>17, <1>18, <1>19
          DEF SittingInv

\* A signer is named by the family's confirmation, or told alone.
LEMMA SignKeeps ==
    ASSUME SittingInv, NEW p \in People, Sign(p)
    PROVE  SittingInv'
  <1>1. /\ UNCHANGED <<clock, half, sitting, pressing, joined, says, hitches, missed>>
        /\ signed' = signed \cup {p} /\ p \in joined \ signed
    BY DEF Sign
  <1>2. PICK s \in Sittings :
          /\ sitting[s].confirmed /\ p \in sitting[s].people
          /\ LET l == mail[Confirmation(s)]
                 due == IF sitting[s].people \cap joined \subseteq signed' \/ clock + SignWindow > LastTick
                        THEN clock ELSE clock + SignWindow
             IN \/ /\ l.state = "none" \/ Waiting(l)
                   /\ mail' = [mail EXCEPT ![Confirmation(s)] =
                                   IF l.state = "none" THEN NewMail(due) ELSE Moved(l, due)]
                   /\ UNCHANGED alone
                \/ alone' = alone \cup {p} /\ UNCHANGED mail
    BY DEF Sign, CanStillName
  <1> DEFINE due == IF sitting[s].people \cap joined \subseteq signed' \/ clock + SignWindow > LastTick
                    THEN clock ELSE clock + SignWindow
             l == IF mail[Confirmation(s)].state = "none" THEN NewMail(due)
                  ELSE Moved(mail[Confirmation(s)], due)
  <1>3. mail \in [Messages -> MailRow] /\ Confirmation(s) \in Messages
    BY SittingTypes, MessagesApart DEF SittingInv
  <1>4. due \in Ticks
    BY TickRange, SittingTypes, SittingAssumption DEF SittingInv
  <1> HIDE DEF due
  <1>5. l \in MailRow /\ (mail[Confirmation(s)].state = "none" \/ Waiting(mail[Confirmation(s)]) => Waiting(l))
    BY <1>3, <1>4, NewMailRow, MovedMail DEF Waiting
  <1>6. \/ /\ mail' = [mail EXCEPT ![Confirmation(s)] = l] /\ UNCHANGED alone /\ Waiting(l)
           /\ mail[Confirmation(s)].state = "none" \/ Waiting(mail[Confirmation(s)])
        \/ alone' = alone \cup {p} /\ UNCHANGED mail
    BY <1>2, <1>5 DEF due
  <1> HIDE DEF l
  <1>7. /\ mail' \in [Messages -> MailRow]
        /\ \A x \in Messages \ {Confirmation(s)} : mail'[x] = mail[x]
        /\ mail'[Confirmation(s)] = mail[Confirmation(s)] \/ Waiting(mail'[Confirmation(s)])
    BY <1>3, <1>5, <1>6
  <1>8. SittingTypeOK'
    <2>1. alone' \subseteq signed' /\ signed' \subseteq joined'
      BY <1>1, <1>6, SittingTypes DEF SittingInv
    <2> QED BY <1>1, <1>7, <2>1, SittingTypes DEF SittingInv, SittingTypeOK, MailRow
  <1>9. /\ \A q \in People : Onward(mail[Own(q)], mail'[Own(q)])
        /\ \A q \in Sittings : Onward(mail[TheFamilys(q)], mail'[TheFamilys(q)])
    BY <1>7, MessagesApart DEF Onward
  <1>10. \A q \in Sittings : SameSitting(sitting[q], sitting'[q])
    BY <1>1 DEF SameSitting
  <1>11. ConfirmationStands'
    <2>1. CASE mail'[Confirmation(s)] = mail[Confirmation(s)]
      BY <1>1, <1>7, <2>1, MessagesApart DEF SittingInv, ConfirmationStands
    <2>2. CASE mail'[Confirmation(s)] # mail[Confirmation(s)]
      <3>1. says[s] = {}
        BY <1>6, <2>2 DEF SittingInv, ConfirmationStands, Waiting
      <3>2. \A q \in Sittings \ {s} : mail'[Confirmation(q)] = mail[Confirmation(q)]
        BY <1>7, MessagesApart
      <3> QED BY <1>1, <1>2, <3>1, <3>2 DEF SittingInv, ConfirmationStands
    <2> QED BY <2>1, <2>2
  <1>12. SeedsHold' /\ TurnsKept'
    <2>1. SeedsHold'
      BY <1>1 DEF SittingInv, SeedsHold
    <2>2. ASSUME NEW q \in Sittings, NEW m \in sitting[q].held
          PROVE  mail'[m] = mail[m]
      <3>1. m # Confirmation(s)
        <4>1. m = TheFamilys(q) \/ \E x \in People : m = Own(x)
          BY DEF SittingInv, HeldIsTheirs
        <4> QED BY <4>1, MessagesApart
      <3>2. m \in Messages
        BY SittingTypes DEF SittingInv, SittingRow
      <3> QED BY <1>7, <3>1, <3>2
    <2> QED BY <1>1, <2>1, <2>2 DEF SittingInv, TurnsKept
  <1>13. SignersAreTold'
    <2>1. \A q \in signed, t \in Sittings : Told(q, t) => Told(q, t)'
      BY <1>1, <1>7, MessagesApart DEF Told, Waiting
    <2>2. p \in signed' \ alone' => Told(p, s)'
      <3>1. CASE alone' = alone \cup {p}
        BY <3>1
      <3>2. CASE mail' = [mail EXCEPT ![Confirmation(s)] = l] /\ Waiting(l)
        <4>1. mail'[Confirmation(s)] = l
          BY <1>3, <3>2
        <4> QED BY <1>1, <1>2, <3>2, <4>1 DEF Told
      <3> QED BY <1>6, <3>1, <3>2
    <2>3. alone \subseteq alone'
      BY <1>6
    <2> QED BY <1>1, <2>1, <2>2, <2>3 DEF SittingInv, SignersAreTold
  <1>14. sitting' \in [Sittings -> SittingRow]
    BY <1>1, SittingTypes DEF SittingInv
  <1> QED BY <1>1, <1>7, <1>8, <1>9, <1>10, <1>11, <1>12, <1>13, <1>14, OnwardKeeps DEF SittingInv

-----------------------------------------------------------------------------
(* A window moved, or ended by a press. *)

\* The messages one sitting holds are moved, the rest stay where they are.
LEMMA HeldMoved ==
    ASSUME SittingInv, NEW s \in Sittings, NEW t \in Ticks,
           mail' = [m \in Messages |-> IF m \in sitting[s].held THEN Moved(mail[m], t) ELSE mail[m]]
    PROVE  /\ mail' \in [Messages -> MailRow]
           /\ \A m \in Messages : Onward(mail[m], mail'[m])
           /\ \A m \in Messages : /\ mail'[m].state = mail[m].state /\ mail'[m].tried = mail[m].tried
                                  /\ mail'[m].marked = mail[m].marked
                                  /\ m \notin sitting[s].held => mail'[m] = mail[m]
                                  /\ m \in sitting[s].held /\ NeverTried(mail[m]) /\ ~mail[m].marked =>
                                       mail'[m].due = t
  <1>1. mail \in [Messages -> MailRow]
    BY SittingTypes DEF SittingInv
  <1>2. \A m \in Messages : mail[m] \in MailRow /\ Moved(mail[m], t) \in MailRow
    BY <1>1, MovedMail
  <1>3. mail' \in [Messages -> MailRow]
    BY <1>2
  <1>4. \A m \in Messages : Onward(mail[m], mail'[m])
    BY <1>1, MovedMail DEF Onward, Unfinished
  <1>5. \A m \in Messages : /\ mail'[m].state = mail[m].state /\ mail'[m].tried = mail[m].tried
                            /\ mail'[m].marked = mail[m].marked
                            /\ m \notin sitting[s].held => mail'[m] = mail[m]
                            /\ m \in sitting[s].held /\ NeverTried(mail[m]) /\ ~mail[m].marked =>
                                 mail'[m].due = t
    BY <1>1, MovedMail
  <1> QED BY <1>3, <1>4, <1>5

LEMMA WindowKeeps ==
    ASSUME SittingInv, NEW s \in Sittings, NEW t \in Ticks, ~sitting[s].released, sitting[s].open,
           mail' = [m \in Messages |-> IF m \in sitting[s].held THEN Moved(mail[m], t) ELSE mail[m]],
           NEW row \in SittingRow, sitting' = [sitting EXCEPT ![s] = row],
           SameSitting(sitting[s], row), row.released \/ (row.until = t /\ t >= row.since + Window),
           UNCHANGED <<clock, half, pressing, joined, signed, alone, says, hitches, missed>>
    PROVE  SittingInv'
  <1>1. /\ sitting' \in [Sittings -> SittingRow] /\ sitting'[s] = row
        /\ \A q \in Sittings \ {s} : sitting'[q] = sitting[q]
    BY SittingTypes DEF SittingInv
  <1>2. /\ mail' \in [Messages -> MailRow]
        /\ \A m \in Messages : Onward(mail[m], mail'[m])
        /\ \A m \in Messages : /\ mail'[m].state = mail[m].state /\ mail'[m].tried = mail[m].tried
                               /\ mail'[m].marked = mail[m].marked
                               /\ m \notin sitting[s].held => mail'[m] = mail[m]
                               /\ m \in sitting[s].held /\ NeverTried(mail[m]) /\ ~mail[m].marked =>
                                    mail'[m].due = t
    BY HeldMoved
  <1>3. SittingTypeOK'
    BY <1>1, <1>2, SittingTypes DEF SittingInv, SittingTypeOK, MailRow, SittingRow
  <1>4. \A q \in Sittings : SameSitting(sitting[q], sitting'[q])
    BY <1>1 DEF SameSitting
  <1>5. ConfirmationStands'
    BY <1>2, <1>4, MessagesApart DEF SittingInv, ConfirmationStands, SameSitting
  <1>6. SignersAreTold'
    <2>1. \A p \in signed, q \in Sittings : Told(p, q) => Told(p, q)'
      BY <1>2, <1>4, MessagesApart DEF Told, Waiting, SameSitting
    <2> QED BY <2>1 DEF SittingInv, SignersAreTold
  <1>7. SeedsHold'
    <2> SUFFICES ASSUME NEW q \in Sittings, NEW p \in sitting'[q].people,
                        half[p] # 0, ~sitting'[q].released, ~sitting'[q].confirmed
                 PROVE  /\ sitting'[q].since + Window >= half[p]
                        /\ sitting'[q].until >= half[p] /\ sitting'[q].reserved >= half[p]
      BY DEF SeedsHold
    <2>1. /\ sitting[q].since + Window >= half[p]
          /\ sitting[q].until >= half[p] /\ sitting[q].reserved >= half[p]
      BY <1>4 DEF SittingInv, SeedsHold, SameSitting
    <2>2. CASE q # s
      BY <1>1, <2>1, <2>2
    <2>3. CASE q = s
      <3>1. row.until >= sitting[q].since + Window
        BY <1>1, <2>3 DEF SameSitting
      <3>2. sitting[q].since \in Nat /\ half[p] \in Nat /\ row.until \in Nat /\ Window \in Nat
        <4>1. p \in People
          BY <1>1 DEF SittingRow
        <4>2. sitting[q] \in SittingRow /\ half[p] \in Ticks
          BY <4>1, SittingTypes DEF SittingInv
        <4> QED BY <4>2, NextTick, SittingAssumption DEF SittingRow
      <3>3. row.until >= half[p]
        BY <2>1, <3>1, <3>2
      <3> QED BY <1>1, <2>1, <2>3, <3>3 DEF SameSitting
    <2> QED BY <2>2, <2>3
  <1>8. TurnsKept'
    <2> SUFFICES ASSUME NEW q \in Sittings, NEW m \in sitting'[q].held,
                        NeverTried(mail'[m]), ~mail'[m].marked, ~sitting'[q].released
                 PROVE  mail'[m].due >= sitting'[q].until
      BY DEF TurnsKept
    <2>1. m \in sitting[q].held /\ m \in Messages
      BY <1>1, <1>4 DEF SameSitting, SittingRow
    <2>2. NeverTried(mail[m]) /\ ~mail[m].marked
      BY <1>2, <2>1 DEF NeverTried, Waiting
    <2>3. CASE q = s
      BY <1>1, <1>2, <2>1, <2>2, <2>3, TickRange
    <2>4. CASE q # s
      <3>1. m \notin sitting[s].held
        BY <1>1, <2>1, <2>4 DEF SittingInv, HeldApart
      <3> QED BY <1>1, <1>2, <2>1, <2>2, <2>4, <3>1 DEF SittingInv, TurnsKept
    <2> QED BY <2>3, <2>4
  <1>9. /\ \A q \in People : Onward(mail[Own(q)], mail'[Own(q)])
        /\ \A q \in Sittings : Onward(mail[TheFamilys(q)], mail'[TheFamilys(q)])
    BY <1>2, MessagesApart
  <1> QED BY <1>1, <1>2, <1>3, <1>4, <1>5, <1>6, <1>7, <1>8, <1>9, OnwardKeeps DEF SittingInv

LEMMA ReleaseKeeps ==
    ASSUME SittingInv, NEW s \in Sittings, Release(s)
    PROVE  SittingInv'
  <1> DEFINE row == [sitting[s] EXCEPT !.released = TRUE,
                                       !.until = IF @ < clock THEN @ ELSE clock]
  <1>1. sitting \in [Sittings -> SittingRow] /\ sitting[s] \in SittingRow /\ clock \in Ticks
    BY SittingTypes DEF SittingInv
  <1>2. row \in SittingRow /\ row.released /\ SameSitting(sitting[s], row)
    BY <1>1 DEF SittingRow, SameSitting, Release
  <1>3. sitting' = [sitting EXCEPT ![s] = row]
    BY <1>1 DEF Release, SittingRow
  <1> HIDE DEF row
  <1> QED BY <1>1, <1>2, <1>3, WindowKeeps DEF Release

LEMMA ContinueKeeps ==
    ASSUME SittingInv, NEW s \in Sittings, NEW at \in AskedOf(s), Continue(s, at)
    PROVE  SittingInv'
  <1> DEFINE row == [sitting[s] EXCEPT !.until = at + Window]
  <1>1. sitting \in [Sittings -> SittingRow] /\ sitting[s] \in SittingRow
    BY SittingTypes DEF SittingInv
  <1>2. at \in Ticks /\ at \in Nat /\ sitting[s].since <= at
    BY AskedTicks DEF AskedOf, SittingInv
  <1>3. sitting[s].open /\ ~sitting[s].released /\ sitting[s].reserved > at
    BY DEF Continue, Live
  <1>4. at + Window \in Ticks
    <2>1. sitting[s].reserved + Window <= LastTick + 1 /\ sitting[s].reserved \in Nat
      BY <1>1, <1>3, NextTick DEF SittingInv, RoomOnTheClock, SittingRow
    <2> QED BY <1>2, <1>3, <2>1, TickRange, SittingAssumption
  <1>5. row \in SittingRow /\ SameSitting(sitting[s], row) /\ row.until = at + Window
    BY <1>1, <1>3, <1>4 DEF SittingRow, SameSitting
  <1>6. at + Window >= row.since + Window
    <2>1. row.since = sitting[s].since /\ sitting[s].since \in Nat
      BY <1>1, NextTick DEF SittingRow
    <2> QED BY <1>2, <2>1, SittingAssumption
  <1>7. sitting' = [sitting EXCEPT ![s] = row]
    BY <1>1 DEF Continue, SittingRow
  <1>8. mail' = [m \in Messages |-> IF m \in sitting[s].held THEN Moved(mail[m], at + Window) ELSE mail[m]]
    BY DEF Continue
  <1>9. UNCHANGED <<clock, half, pressing, joined, signed, alone, says, hitches, missed>>
    BY DEF Continue
  <1> HIDE DEF row
  <1> QED BY <1>3, <1>4, <1>5, <1>6, <1>7, <1>8, <1>9, WindowKeeps

-----------------------------------------------------------------------------
(* A sitting opened. *)

\* An unopened sitting holds nothing, and nobody presses its button.
LEMMA Unopened ==
    ASSUME SittingInv, NEW s \in Sittings, ~sitting[s].open
    PROVE  /\ sitting[s].people = {} /\ sitting[s].held = {} /\ ~sitting[s].confirmed
           /\ mail[TheFamilys(s)].state = "none" /\ pressing[s] = {}
           /\ mail[Confirmation(s)].state = "none" /\ says[s] = {}
  <1>1. /\ sitting[s].people = {} /\ sitting[s].held = {} /\ ~sitting[s].confirmed
        /\ mail[TheFamilys(s)].state = "none"
    BY DEF SittingInv, UnopenedIsEmpty, NoSitting
  <1>2. pressing[s] = {}
    BY <1>1, SittingTypes DEF SittingInv, PressStands
  <1>3. mail[Confirmation(s)].state = "none" /\ says[s] = {}
    BY <1>1 DEF SittingInv, ConfirmationStands
  <1> QED BY <1>1, <1>2, <1>3

\* Whoever opens one by their seed is in no sitting that can still move their message.
LEMMA SeedMovesAlone ==
    ASSUME SittingInv, NEW p \in People, NEW at \in Asked, half[p] # 0, half[p] > at,
           \A q \in Sittings : p \in sitting[q].people => ~Live(q, at),
           NEW q \in Sittings, Own(p) \in sitting[q].held
    PROVE  sitting[q].released
  <1>1. CASE sitting[q].confirmed
    BY <1>1, MessagesApart DEF SittingInv, FamilyStands
  <1>2. CASE ~sitting[q].confirmed
    <2>1. p \in sitting[q].people
      BY <1>2, MessagesApart DEF SittingInv, HeldIsTheirs
    <2>2. sitting[q].open
      BY <2>1, Unopened
    <2>3. half[p] \in Nat /\ at \in Nat /\ sitting[q].until \in Nat /\ sitting[q].reserved \in Nat
      BY AskedTicks, NextTick, SittingTypes DEF SittingInv, SittingRow
    <2>4. ASSUME ~sitting[q].released
          PROVE  Live(q, at)
      <3>1. sitting[q].until >= half[p] /\ sitting[q].reserved >= half[p]
        BY <1>2, <2>1, <2>4 DEF SittingInv, SeedsHold
      <3> QED BY <1>2, <2>2, <2>3, <2>4, <3>1 DEF Live
    <2> QED BY <2>1, <2>4
  <1> QED BY <1>1, <1>2

LEMMA OpenFromSeedKeeps ==
    ASSUME SittingInv, NEW s \in Sittings, NEW p \in People, NEW at \in Asked, OpenFromSeed(s, p, at)
    PROVE  SittingInv'
  <1> DEFINE holds == NeverTried(mail[Own(p)])
             row == [Opened(at, half[p] + HoldFor) EXCEPT
                       !.people = {p}, !.held = IF holds THEN {Own(p)} ELSE {}]
             l == IF holds THEN Moved(mail[Own(p)], at + Window)
                  ELSE [mail[Own(p)] EXCEPT !.letGo = TRUE]
  <1>1. /\ sitting \in [Sittings -> SittingRow] /\ mail \in [Messages -> MailRow]
        /\ half[p] \in Ticks /\ Own(p) \in Messages /\ mail[Own(p)] \in MailRow
    BY SittingTypes, MessagesApart DEF SittingInv
  <1>2. /\ at \in Ticks /\ at \in Nat /\ half[p] \in Nat /\ half[p] - Window <= at /\ at < half[p]
        /\ half[p] # 0 /\ Window \in Nat \ {0} /\ HoldFor \in Nat /\ LastTick \in Nat
    BY <1>1, AskedTicks, NextTick, SittingAssumption DEF SittingInv, OpenFromSeed
  <1>3. /\ ~sitting[s].open /\ half[p] + HoldFor + Window <= LastTick + 1
    BY DEF OpenFromSeed, MayOpen
  <1>4. at + Window \in Ticks /\ half[p] + HoldFor \in Ticks
    BY <1>2, <1>3, TickRange
  <1>5. /\ mail[Own(p)].state # "none"
    BY <1>2 DEF SittingInv, Newcomers
  <1>6. /\ row \in SittingRow /\ row.open /\ row.since = at /\ row.people = {p}
        /\ row.held = (IF holds THEN {Own(p)} ELSE {}) /\ row.until = at + Window
        /\ row.reserved = half[p] + HoldFor /\ ~row.released /\ ~row.confirmed
    BY <1>1, <1>2, <1>4, EmptyRows DEF Opened, NoSitting, SittingRow
  <1>7. /\ l \in MailRow /\ l.state = mail[Own(p)].state /\ l.tried = mail[Own(p)].tried
        /\ l.marked = mail[Own(p)].marked
        /\ IF holds THEN l.letGo = mail[Own(p)].letGo ELSE l.letGo
        /\ holds /\ ~mail[Own(p)].marked => l.due = at + Window
    <2>1. CASE holds
      BY <1>1, <1>4, <2>1, MovedMail
    <2>2. CASE ~holds
      BY <1>1, <2>2 DEF MailRow
    <2> QED BY <2>1, <2>2
  <1>8. /\ sitting' = [sitting EXCEPT ![s] = row] /\ mail' = [mail EXCEPT ![Own(p)] = l]
        /\ UNCHANGED <<clock, half, pressing, joined, signed, alone, says, hitches, missed>>
    BY <1>1 DEF OpenFromSeed
  <1>9. \A q \in Sittings : Own(p) \in sitting[q].held => sitting[q].released
    <2>1. \A q \in Sittings : p \in sitting[q].people => ~Live(q, at)
      BY DEF OpenFromSeed
    <2> QED BY <1>2, <2>1, SeedMovesAlone
  <1> HIDE DEF row, l
  <1>10. /\ sitting' \in [Sittings -> SittingRow] /\ sitting'[s] = row
         /\ \A q \in Sittings \ {s} : sitting'[q] = sitting[q]
         /\ mail' \in [Messages -> MailRow] /\ mail'[Own(p)] = l
         /\ \A m \in Messages \ {Own(p)} : mail'[m] = mail[m]
    BY <1>1, <1>6, <1>7, <1>8
  <1>11. /\ \A q \in Sittings : /\ mail'[TheFamilys(q)] = mail[TheFamilys(q)]
                                /\ mail'[Confirmation(q)] = mail[Confirmation(q)]
         /\ \A x \in People : /\ mail'[Own(x)].state = mail[Own(x)].state
                              /\ Unfinished(mail'[Own(x)]) => Unfinished(mail[Own(x)])
    BY <1>7, <1>10, MessagesApart DEF Unfinished, NeverTried
  <1>12. /\ sitting[s].people = {} /\ sitting[s].held = {} /\ ~sitting[s].confirmed
         /\ mail[TheFamilys(s)].state = "none" /\ pressing[s] = {}
         /\ mail[Confirmation(s)].state = "none" /\ says[s] = {}
    BY <1>3, Unopened
  <1>t. \A q \in Sittings : sitting[q].people \subseteq People /\ sitting[q].held \subseteq Messages
    BY <1>1 DEF SittingRow
  <1>13. SittingTypeOK'
    BY <1>8, <1>10, SittingTypes DEF SittingInv, SittingTypeOK, MailRow, SittingRow
  <1>14. Newcomers'
    BY <1>5, <1>6, <1>8, <1>10, <1>11, MessagesApart DEF SittingInv, Newcomers
  <1>15. UnopenedIsEmpty' /\ RoomOnTheClock'
    BY <1>3, <1>6, <1>10, <1>11 DEF SittingInv, UnopenedIsEmpty, RoomOnTheClock
  <1>16. HeldIsTheirs'
    BY <1>6, <1>10 DEF SittingInv, HeldIsTheirs
  <1>17. FamilyStands'
    <2> SUFFICES ASSUME NEW q \in Sittings
                 PROVE  IF mail'[TheFamilys(q)].state = "none"
                        THEN TheFamilys(q) \notin sitting'[q].held /\ ~sitting'[q].confirmed
                        ELSE /\ mail'[TheFamilys(q)].state # "deleted"
                             /\ sitting'[q].held = {TheFamilys(q)}
                             /\ \/ sitting'[q].confirmed
                                \/ \E x \in sitting'[q].people \ joined' :
                                      mail'[Own(x)].state = "deleted" /\ OnlyIn(x, q)'
      BY DEF FamilyStands
    <2>1. CASE q = s
      BY <1>6, <1>10, <1>11, <1>12, <2>1, MessagesApart
    <2>2. CASE q # s
      <3>1. ASSUME NEW x \in sitting[q].people \ joined, mail[Own(x)].state = "deleted", OnlyIn(x, q)
            PROVE  mail'[Own(x)].state = "deleted" /\ OnlyIn(x, q)'
        BY <1>2, <1>6, <1>8, <1>10, <1>11, <1>t, <3>1 DEF OnlyIn
      <3> QED BY <1>8, <1>10, <1>11, <2>2, <3>1 DEF SittingInv, FamilyStands
    <2> QED BY <2>1, <2>2
  <1>18. UnfinishedIsHeld'
    <2>1. Unfinished(l) => Own(p) \in row.held
      BY <1>6, <1>7 DEF Unfinished
    <2> QED BY <1>6, <1>10, <1>11, <1>t, <2>1 DEF SittingInv, UnfinishedIsHeld
  <1>19. PressStands'
    BY <1>8, <1>10, <1>11, <1>12 DEF SittingInv, PressStands
  <1>20. MissedCameLate'
    BY <1>2, <1>6, <1>8, <1>10, <1>11, SittingTypes DEF SittingInv, MissedCameLate
  <1>21. ConfirmationStands'
    BY <1>8, <1>10, <1>11, <1>12 DEF SittingInv, ConfirmationStands
  <1>22. SeedsHold'
    <2>1. row.since + Window >= half[p] /\ row.until >= half[p] /\ row.reserved >= half[p]
      BY <1>2, <1>6
    <2> QED BY <1>6, <1>8, <1>10, <2>1 DEF SittingInv, SeedsHold
  <1>23. HeldApart'
    BY <1>6, <1>9, <1>10 DEF SittingInv, HeldApart
  <1>24. TurnsKept'
    <2> SUFFICES ASSUME NEW q \in Sittings, NEW m \in sitting'[q].held,
                        NeverTried(mail'[m]), ~mail'[m].marked, ~sitting'[q].released
                 PROVE  mail'[m].due >= sitting'[q].until
      BY DEF TurnsKept
    <2>1. CASE q = s
      BY <1>2, <1>6, <1>7, <1>10, <2>1
    <2>2. CASE q # s
      <3>1. m # Own(p) /\ m \in Messages
        BY <1>9, <1>10, <1>t, <2>2
      <3> QED BY <1>10, <2>2, <3>1 DEF SittingInv, TurnsKept
    <2> QED BY <2>1, <2>2
  <1>25. EntrantsAreNamed'
    BY <1>8, <1>10, <1>11, <1>12 DEF SittingInv, EntrantsAreNamed
  <1>26. SignersAreTold'
    <2>1. \A x \in signed, q \in Sittings : Told(x, q) => q # s /\ Told(x, q)'
      BY <1>8, <1>10, <1>11, <1>12 DEF Told
    <2> QED BY <1>8, <2>1 DEF SittingInv, SignersAreTold
  <1> QED BY <1>13, <1>14, <1>15, <1>16, <1>17, <1>18, <1>19, <1>20, <1>21, <1>22, <1>23, <1>24,
             <1>25, <1>26 DEF SittingInv

-----------------------------------------------------------------------------
(* A form settled: the messages held stay apart, or become the family's one. *)

LEMMA SettledRow ==
    ASSUME sitting \in [Sittings -> SittingRow], NEW s \in Sittings, NEW row \in SittingRow,
           NEW mails, NEW at, at + Window \in Ticks, Settled(s, row, mails, at)
    PROVE  /\ sitting' \in [Sittings -> SittingRow]
           /\ \A q \in Sittings \ {s} : sitting'[q] = sitting[q]
           /\ sitting'[s].open = row.open /\ sitting'[s].since = row.since
           /\ sitting'[s].people = row.people /\ sitting'[s].until = at + Window
           /\ sitting'[s].reserved = row.reserved /\ sitting'[s].released = row.released
           /\ sitting'[s].confirmed = row.confirmed
           /\ sitting'[s].held = IF Cardinality(row.people \ joined) >= 2 THEN {TheFamilys(s)} ELSE row.held
  <1> DEFINE held == IF Cardinality(row.people \ joined) >= 2 THEN {TheFamilys(s)} ELSE row.held
             next == [row EXCEPT !.held = held, !.until = at + Window]
  <1>1. sitting' = [sitting EXCEPT ![s] = next]
    BY DEF Settled
  <1>2. held \subseteq Messages
    BY MessagesApart DEF SittingRow
  <1> HIDE DEF held
  <1>3. /\ next \in SittingRow /\ next.open = row.open /\ next.since = row.since
        /\ next.people = row.people /\ next.until = at + Window /\ next.reserved = row.reserved
        /\ next.released = row.released /\ next.confirmed = row.confirmed /\ next.held = held
    BY <1>2 DEF SittingRow
  <1> HIDE DEF next
  <1>4. sitting' \in [Sittings -> SittingRow] /\ sitting'[s] = next
        /\ \A q \in Sittings \ {s} : sitting'[q] = sitting[q]
    BY <1>1, <1>3
  <1> QED BY <1>3, <1>4 DEF held

\* One or nobody waits: each keeps a message, and the window moves them.
LEMMA SettledApart ==
    ASSUME NEW s \in Sittings, NEW row \in SittingRow, NEW mails \in [Messages -> MailRow],
           NEW at, at + Window \in Ticks, Settled(s, row, mails, at),
           ~(Cardinality(row.people \ joined) >= 2)
    PROVE  /\ mail' \in [Messages -> MailRow]
           /\ \A m \in Messages :
                /\ mail'[m].state = mails[m].state /\ mail'[m].tried = mails[m].tried
                /\ mail'[m].marked = mails[m].marked /\ mail'[m].letGo = mails[m].letGo
                /\ m \notin row.held => mail'[m] = mails[m]
                /\ m \in row.held /\ NeverTried(mails[m]) /\ ~mails[m].marked => mail'[m].due = at + Window
  <1>1. mail' = [m \in Messages |-> IF m \in row.held THEN Moved(mails[m], at + Window) ELSE mails[m]]
    BY DEF Settled
  <1>2. \A m \in Messages : mails[m] \in MailRow /\ Moved(mails[m], at + Window) \in MailRow
    BY MovedMail
  <1>3. mail' \in [Messages -> MailRow]
    BY <1>1, <1>2
  <1>4. \A m \in Messages :
           /\ mail'[m].state = mails[m].state /\ mail'[m].tried = mails[m].tried
           /\ mail'[m].marked = mails[m].marked /\ mail'[m].letGo = mails[m].letGo
           /\ m \notin row.held => mail'[m] = mails[m]
           /\ m \in row.held /\ NeverTried(mails[m]) /\ ~mails[m].marked => mail'[m].due = at + Window
    BY <1>1, <1>2, MovedMail
  <1> QED BY <1>3, <1>4

\* Two wait: the family's message takes the place of those held.
LEMMA SettledTogether ==
    ASSUME NEW s \in Sittings, NEW row \in SittingRow, NEW mails \in [Messages -> MailRow],
           NEW at, at + Window \in Ticks, Settled(s, row, mails, at),
           Cardinality(row.people \ joined) >= 2
    PROVE  /\ mail' \in [Messages -> MailRow]
           /\ \A m \in Messages \ {TheFamilys(s)} :
                mail'[m] = IF m \in row.held THEN ReplacedBy(mails[m]) ELSE mails[m]
           /\ mails[TheFamilys(s)].state = "none" => mail'[TheFamilys(s)].state = "waiting"
           /\ mails[TheFamilys(s)].state # "none" =>
                mail'[TheFamilys(s)].state = mails[TheFamilys(s)].state
           /\ NeverTried(mail'[TheFamilys(s)]) /\ ~mail'[TheFamilys(s)].marked =>
                mail'[TheFamilys(s)].due = at + Window
  <1> DEFINE queued == IF mails[TheFamilys(s)].state = "none"
                       THEN [mails EXCEPT ![TheFamilys(s)] = NewMail(at + Window)] ELSE mails
             replaced == [m \in Messages |-> IF m \in row.held \ {TheFamilys(s)}
                                            THEN ReplacedBy(queued[m]) ELSE queued[m]]
  <1>1. mail' = [m \in Messages |-> IF m \in {TheFamilys(s)} THEN Moved(replaced[m], at + Window)
                                   ELSE replaced[m]]
    BY DEF Settled
  <1>2. TheFamilys(s) \in Messages
    BY MessagesApart
  <1>3. queued \in [Messages -> MailRow]
    BY NewMailRow
  <1>4. /\ \A m \in Messages \ {TheFamilys(s)} : queued[m] = mails[m]
        /\ queued[TheFamilys(s)] \in MailRow
        /\ mails[TheFamilys(s)].state = "none" => queued[TheFamilys(s)].state = "waiting"
        /\ mails[TheFamilys(s)].state # "none" => queued[TheFamilys(s)] = mails[TheFamilys(s)]
    BY <1>2, NewMailRow
  <1> HIDE DEF queued
  <1>5. /\ \A m \in Messages \ {TheFamilys(s)} :
             mail'[m] = IF m \in row.held THEN ReplacedBy(mails[m]) ELSE mails[m]
        /\ mail'[TheFamilys(s)] = Moved(queued[TheFamilys(s)], at + Window)
    BY <1>1, <1>2, <1>4
  <1>6. /\ mail'[TheFamilys(s)] \in MailRow
        /\ mail'[TheFamilys(s)].state = queued[TheFamilys(s)].state
        /\ NeverTried(mail'[TheFamilys(s)]) /\ ~mail'[TheFamilys(s)].marked =>
             mail'[TheFamilys(s)].due = at + Window
    BY <1>4, <1>5, MovedMail DEF NeverTried, Waiting
  <1>7. mail' \in [Messages -> MailRow]
    <2>1. \A m \in Messages : mails[m] \in MailRow /\ ReplacedBy(mails[m]) \in MailRow
      BY ReplacedMail
    <2>2. \A m \in Messages : mail'[m] \in MailRow
      BY <1>5, <1>6, <2>1
    <2> QED BY <1>1, <2>2
  <1> QED BY <1>4, <1>5, <1>6, <1>7

LEMMA TwoAreTwo ==
    ASSUME NEW S \in SUBSET People, NEW p \in S, NEW q \in S, p # q
    PROVE  Cardinality(S) >= 2
  <1>1. IsFiniteSet(S)
    BY SittingAssumption, FS_Subset
  <1>2. {p, q} \subseteq S /\ IsFiniteSet({p, q}) /\ Cardinality({p, q}) = 2
    <2>1. IsFiniteSet({p}) /\ Cardinality({p}) = 1
      BY FS_Singleton
    <2>2. q \notin {p} /\ {p} \cup {q} = {p, q}
      OBVIOUS
    <2> QED BY <2>1, <2>2, FS_AddElement
  <1>3. Cardinality({p, q}) <= Cardinality(S) /\ Cardinality(S) \in Nat
    BY <1>1, <1>2, FS_Subset, FS_CardinalityType
  <1> QED BY <1>2, <1>3

LEMMA OneIsOne == ASSUME NEW p PROVE ~(Cardinality({p}) >= 2)
  BY FS_Singleton

\* A sitting holds no confirmation, and no other family's message.
LEMMA HoldsNoOther ==
    ASSUME SittingInv, NEW s \in Sittings, NEW q \in Sittings
    PROVE  Confirmation(q) \notin sitting[s].held /\ (q # s => TheFamilys(q) \notin sitting[s].held)
  <1>1. ASSUME NEW m \in sitting[s].held
        PROVE  m = TheFamilys(s) \/ \E x \in People : m = Own(x)
    BY DEF SittingInv, HeldIsTheirs
  <1> QED BY <1>1, MessagesApart

\* A form in a sitting that lives, or in one it opens: base is the row before the person joins.
LEMMA FormKeeps ==
    ASSUME SittingInv, NEW s \in Sittings, NEW p \in People, NEW at \in Asked,
           mail[Own(p)].state = "none", ~sitting[s].released, ~sitting[s].confirmed,
           NEW base \in SittingRow, base.open, ~base.released, ~base.confirmed, base.since <= at,
           base.reserved > at, base.reserved + Window <= LastTick + 1,
           base.people = sitting[s].people, base.held = sitting[s].held,
           sitting[s].open => base = sitting[s],
           Settled(s, [base EXCEPT !.people = @ \cup {p}, !.held = @ \cup {Own(p)}],
                   [mail EXCEPT ![Own(p)] = NewMail(at + Window)], at),
           missed' \in {missed, missed \cup {p}}, pressing[s] # {} => p \in missed',
           UNCHANGED <<clock, half, pressing, joined, signed, alone, says, hitches>>
    PROVE  SittingInv'
  <1> DEFINE row == [base EXCEPT !.people = @ \cup {p}, !.held = @ \cup {Own(p)}]
             mails == [mail EXCEPT ![Own(p)] = NewMail(at + Window)]
             family == Cardinality(row.people \ joined) >= 2
             f == TheFamilys(s)
  <1>1. /\ sitting \in [Sittings -> SittingRow] /\ mail \in [Messages -> MailRow]
        /\ Own(p) \in Messages /\ f \in Messages /\ Own(p) # f
        /\ \A q \in Sittings : sitting[q].people \subseteq People /\ sitting[q].held \subseteq Messages
    BY SittingTypes, MessagesApart DEF SittingInv, SittingRow
  <1>2. /\ at \in Ticks /\ at \in Nat /\ at + Window \in Ticks
    <2>1. base.reserved \in Nat
      BY NextTick DEF SittingRow
    <2> QED BY <2>1, AskedTicks, TickRange, SittingAssumption DEF SittingInv
  <1>3. /\ half[p] = 0 /\ p \notin joined
        /\ \A q \in Sittings : p \notin sitting[q].people /\ Own(p) \notin sitting[q].held
    BY DEF SittingInv, Newcomers
  <1>4. /\ row \in SittingRow /\ row.open /\ ~row.released /\ ~row.confirmed
        /\ row.since = base.since /\ row.reserved = base.reserved
        /\ row.people = sitting[s].people \cup {p} /\ row.held = sitting[s].held \cup {Own(p)}
    BY <1>1 DEF SittingRow
  <1>5. /\ mails \in [Messages -> MailRow] /\ mails[Own(p)] = NewMail(at + Window)
        /\ \A m \in Messages \ {Own(p)} : mails[m] = mail[m]
        /\ NewMail(at + Window).state = "waiting" /\ NewMail(at + Window).due = at + Window
        /\ ~NewMail(at + Window).tried /\ ~NewMail(at + Window).marked /\ NewMail(at + Window) \in MailRow
    BY <1>1, <1>2, NewMailRow
  <1>6. Settled(s, row, mails, at)
    OBVIOUS
  <1> HIDE DEF row, mails
  <1>7. /\ sitting' \in [Sittings -> SittingRow]
        /\ \A q \in Sittings \ {s} : sitting'[q] = sitting[q]
        /\ sitting'[s].open /\ sitting'[s].since = base.since
        /\ sitting'[s].people = sitting[s].people \cup {p} /\ sitting'[s].until = at + Window
        /\ sitting'[s].reserved = base.reserved /\ ~sitting'[s].released /\ ~sitting'[s].confirmed
        /\ sitting'[s].held = IF family THEN {f} ELSE sitting[s].held \cup {Own(p)}
    <2>1. /\ sitting' \in [Sittings -> SittingRow]
          /\ \A q \in Sittings \ {s} : sitting'[q] = sitting[q]
          /\ sitting'[s].open = row.open /\ sitting'[s].since = row.since
          /\ sitting'[s].people = row.people /\ sitting'[s].until = at + Window
          /\ sitting'[s].reserved = row.reserved /\ sitting'[s].released = row.released
          /\ sitting'[s].confirmed = row.confirmed
          /\ sitting'[s].held = IF Cardinality(row.people \ joined) >= 2 THEN {TheFamilys(s)} ELSE row.held
      BY <1>1, <1>2, <1>4, <1>6, SettledRow
    <2> QED BY <1>4, <2>1
  <1>8. \A q \in Sittings \ {s} : f \notin sitting[q].held
    BY HoldsNoOther
  <1>9. mail[f].state # "none" => family
    <2> SUFFICES ASSUME mail[f].state # "none"
                 PROVE  family
      OBVIOUS
    <2>1. PICK b \in sitting[s].people \ joined : TRUE
      BY DEF SittingInv, FamilyStands
    <2>2. b # p /\ b \in row.people \ joined /\ p \in row.people \ joined
      BY <1>3, <1>4, <2>1
    <2>3. row.people \ joined \in SUBSET People
      BY <1>4 DEF SittingRow
    <2> QED BY <2>2, <2>3, TwoAreTwo
  <1>10. /\ mail' \in [Messages -> MailRow]
         /\ \A m \in Messages \ {Own(p), f} :
              /\ mail'[m].state = "none" <=> mail[m].state = "none"
              /\ mail[m].state = "deleted" => mail'[m].state = "deleted"
              /\ mail[m].state = "left" => mail'[m].state = "left"
              /\ Unfinished(mail'[m]) => Unfinished(mail[m])
              /\ m \notin sitting[s].held => mail'[m] = mail[m]
              /\ ~family => mail'[m].state = mail[m].state
              /\ family /\ m \in sitting[s].held => ~Unfinished(mail'[m])
              /\ ~family /\ NeverTried(mail'[m]) /\ ~mail'[m].marked /\ m \in sitting[s].held =>
                   mail'[m].due = at + Window
         /\ IF family THEN mail'[Own(p)].state = "deleted"
                      ELSE mail'[Own(p)].state = "waiting" /\ mail'[Own(p)].due = at + Window
         /\ IF family THEN mail'[f].state = (IF mail[f].state = "none" THEN "waiting" ELSE mail[f].state)
                      ELSE mail'[f].state = "none"
         /\ family /\ NeverTried(mail'[f]) /\ ~mail'[f].marked => mail'[f].due = at + Window
    <2>1. CASE family
      <3>1. /\ mail' \in [Messages -> MailRow]
            /\ \A m \in Messages \ {f} : mail'[m] = IF m \in row.held THEN ReplacedBy(mails[m]) ELSE mails[m]
            /\ mails[f].state = "none" => mail'[f].state = "waiting"
            /\ mails[f].state # "none" => mail'[f].state = mails[f].state
            /\ NeverTried(mail'[f]) /\ ~mail'[f].marked => mail'[f].due = at + Window
        BY <1>2, <1>4, <1>5, <1>6, <2>1, SettledTogether
      <3>2. mail'[Own(p)].state = "deleted"
        <4>1. NeverTried(NewMail(at + Window))
          BY <1>5 DEF NeverTried, Waiting
        <4> QED BY <1>1, <1>4, <1>5, <3>1, <4>1, ReplacedMail
      <3>3. mails[f] = mail[f]
        BY <1>1, <1>5
      <3>4. ASSUME NEW m \in Messages \ {Own(p), f}
            PROVE  /\ mail'[m].state = "none" <=> mail[m].state = "none"
                   /\ mail[m].state = "deleted" => mail'[m].state = "deleted"
                   /\ mail[m].state = "left" => mail'[m].state = "left"
                   /\ Unfinished(mail'[m]) => Unfinished(mail[m])
                   /\ m \notin sitting[s].held => mail'[m] = mail[m]
                   /\ m \in sitting[s].held => ~Unfinished(mail'[m])
        <4>1. mails[m] = mail[m] /\ mail[m] \in MailRow
          BY <1>1, <1>5
        <4>2. CASE m \in sitting[s].held
          <5>1. mail'[m] = ReplacedBy(mail[m])
            BY <1>4, <3>1, <4>1, <4>2
          <5>2. NeverTried(mail[m]) => mail[m].state = "waiting"
            BY DEF NeverTried, Waiting
          <5> QED BY <4>1, <4>2, <5>1, <5>2, ReplacedMail
        <4>3. CASE m \notin sitting[s].held
          BY <1>4, <3>1, <4>1, <4>3
        <4> QED BY <4>2, <4>3
      <3> QED BY <2>1, <3>1, <3>2, <3>3, <3>4
    <2>2. CASE ~family
      <3>1. /\ mail' \in [Messages -> MailRow]
            /\ \A m \in Messages :
                 /\ mail'[m].state = mails[m].state /\ mail'[m].tried = mails[m].tried
                 /\ mail'[m].marked = mails[m].marked /\ mail'[m].letGo = mails[m].letGo
                 /\ m \notin row.held => mail'[m] = mails[m]
                 /\ m \in row.held /\ NeverTried(mails[m]) /\ ~mails[m].marked => mail'[m].due = at + Window
        BY <1>2, <1>4, <1>5, <1>6, <2>2, SettledApart
      <3>2. mail'[Own(p)].state = "waiting" /\ mail'[Own(p)].due = at + Window
        BY <1>1, <1>4, <1>5, <3>1 DEF NeverTried, Waiting
      <3>3. mail'[f].state = "none"
        BY <1>1, <1>5, <1>9, <2>2, <3>1
      <3>4. ASSUME NEW m \in Messages \ {Own(p), f}
            PROVE  /\ mail'[m].state = mail[m].state
                   /\ Unfinished(mail'[m]) => Unfinished(mail[m])
                   /\ m \notin sitting[s].held => mail'[m] = mail[m]
                   /\ NeverTried(mail'[m]) /\ ~mail'[m].marked /\ m \in sitting[s].held =>
                        mail'[m].due = at + Window
        BY <1>4, <1>5, <3>1 DEF Unfinished, NeverTried, Waiting
      <3> QED BY <2>2, <3>1, <3>2, <3>3, <3>4
    <2> QED BY <2>1, <2>2
  <1> HIDE DEF family
  <1>11. \A q \in Sittings : mail'[Confirmation(q)] = mail[Confirmation(q)]
    <2> SUFFICES ASSUME NEW q \in Sittings
                 PROVE  mail'[Confirmation(q)] = mail[Confirmation(q)]
      OBVIOUS
    <2>1. Confirmation(q) \in Messages \ {Own(p), f} /\ Confirmation(q) \notin sitting[s].held
      BY MessagesApart, HoldsNoOther
    <2> QED BY <1>10, <2>1
  <1>12. \A q \in Sittings \ {s} : mail'[TheFamilys(q)] = mail[TheFamilys(q)]
    <2> SUFFICES ASSUME NEW q \in Sittings \ {s}
                 PROVE  mail'[TheFamilys(q)] = mail[TheFamilys(q)]
      OBVIOUS
    <2>1. TheFamilys(q) \in Messages \ {Own(p), f} /\ TheFamilys(q) \notin sitting[s].held
      BY MessagesApart, HoldsNoOther
    <2> QED BY <1>10, <2>1
  <1>13. \A x \in People \ {p} : Own(x) \in Messages \ {Own(p), f}
    BY MessagesApart
  <1>14. mail[f].state # "deleted" /\ mail[f].state = "none" => mail'[f].state \in {"none", "waiting"}
    BY <1>10
  <1>15. SittingTypeOK'
    <2>1. missed' \subseteq People
      BY SittingTypes DEF SittingInv
    <2> QED BY <1>7, <1>10, <2>1, SittingTypes DEF SittingInv, SittingTypeOK, MailRow, SittingRow
  <1>16. Newcomers'
    <2> SUFFICES ASSUME NEW x \in People, mail'[Own(x)].state = "none"
                 PROVE  /\ half[x] = 0 /\ x \notin joined
                        /\ \A q \in Sittings : x \notin sitting'[q].people /\ Own(x) \notin sitting'[q].held
      BY DEF Newcomers
    <2>1. x # p
      BY <1>10
    <2>2. mail[Own(x)].state = "none"
      BY <1>10, <1>13, <2>1
    <2>3. /\ half[x] = 0 /\ x \notin joined
          /\ \A q \in Sittings : x \notin sitting[q].people /\ Own(x) \notin sitting[q].held
      BY <2>2 DEF SittingInv, Newcomers
    <2> QED BY <1>7, <1>13, <2>1, <2>3
  <1>17. UnopenedIsEmpty' /\ RoomOnTheClock'
    BY <1>7, <1>12 DEF SittingInv, UnopenedIsEmpty, RoomOnTheClock
  <1>18. HeldIsTheirs'
    <2> SUFFICES ASSUME NEW q \in Sittings, NEW m \in sitting'[q].held
                 PROVE  \/ m = TheFamilys(q)
                        \/ \E x \in People : m = Own(x) /\ (x \in sitting'[q].people \/ sitting'[q].confirmed)
      BY DEF HeldIsTheirs
    <2>1. CASE q # s
      BY <1>7, <2>1 DEF SittingInv, HeldIsTheirs
    <2>2. CASE q = s
      <3>1. m = f \/ m = Own(p) \/ m \in sitting[s].held
        BY <1>7, <2>2
      <3>2. CASE m \in sitting[s].held
        <4>1. m = f \/ \E x \in People : m = Own(x) /\ x \in sitting[s].people
          BY <3>2 DEF SittingInv, HeldIsTheirs
        <4> QED BY <1>7, <2>2, <4>1
      <3> QED BY <1>7, <2>2, <3>1, <3>2
    <2> QED BY <2>1, <2>2
  <1>19. OnlyIn(p, s)'
    BY <1>3, <1>7 DEF OnlyIn
  <1>20. FamilyStands'
    <2> SUFFICES ASSUME NEW q \in Sittings
                 PROVE  IF mail'[TheFamilys(q)].state = "none"
                        THEN TheFamilys(q) \notin sitting'[q].held /\ ~sitting'[q].confirmed
                        ELSE /\ mail'[TheFamilys(q)].state # "deleted"
                             /\ sitting'[q].held = {TheFamilys(q)}
                             /\ \/ sitting'[q].confirmed
                                \/ \E x \in sitting'[q].people \ joined' :
                                      mail'[Own(x)].state = "deleted" /\ OnlyIn(x, q)'
      BY DEF FamilyStands
    <2>1. CASE q = s
      <3>1. CASE family
        <4>1. mail'[f].state # "none" /\ mail'[f].state # "deleted"
          BY <1>10, <3>1 DEF SittingInv, FamilyStands
        <4>2. p \in sitting'[s].people \ joined' /\ mail'[Own(p)].state = "deleted"
          BY <1>3, <1>7, <1>10, <3>1
        <4> QED BY <1>7, <1>19, <2>1, <3>1, <4>1, <4>2
      <3>2. CASE ~family
        <4>1. mail'[f].state = "none" /\ mail[f].state = "none"
          BY <1>9, <1>10, <3>2
        <4>2. f \notin sitting[s].held
          BY <4>1 DEF SittingInv, FamilyStands
        <4> QED BY <1>1, <1>7, <2>1, <3>2, <4>1, <4>2
      <3> QED BY <3>1, <3>2
    <2>2. CASE q # s
      <3>1. ASSUME NEW x \in sitting[q].people \ joined, mail[Own(x)].state = "deleted", OnlyIn(x, q)
            PROVE  mail'[Own(x)].state = "deleted" /\ OnlyIn(x, q)'
        <4>1. x # p /\ x \in People
          BY <1>1, <1>3
        <4>2. mail'[Own(x)].state = "deleted"
          BY <1>10, <1>13, <3>1, <4>1
        <4> QED BY <1>7, <3>1, <4>1, <4>2 DEF OnlyIn
      <3> QED BY <1>7, <1>12, <2>2, <3>1 DEF SittingInv, FamilyStands
    <2> QED BY <2>1, <2>2
  <1>21. UnfinishedIsHeld'
    <2> SUFFICES ASSUME NEW q \in Sittings, NEW x \in sitting'[q].people, Unfinished(mail'[Own(x)])
                 PROVE  Own(x) \in sitting'[q].held
      BY DEF UnfinishedIsHeld
    <2>1. CASE x = p
      <3>1. q = s
        BY <1>3, <1>7, <2>1
      <3>2. ~family
        BY <1>10, <2>1 DEF Unfinished
      <3> QED BY <1>7, <2>1, <3>1, <3>2
    <2>2. CASE x # p
      <3>1. x \in sitting[q].people /\ x \in People
        BY <1>1, <1>7, <2>2
      <3>2. Unfinished(mail[Own(x)]) /\ (family => Own(x) \notin sitting[s].held)
        BY <1>10, <1>13, <2>2, <3>1
      <3>3. Own(x) \in sitting[q].held
        BY <3>1, <3>2 DEF SittingInv, UnfinishedIsHeld
      <3> QED BY <1>7, <3>2, <3>3
    <2> QED BY <2>1, <2>2
  <1>22. PressStands'
    <2> SUFFICES ASSUME NEW q \in Sittings, pressing[q] # {}
                 PROVE  /\ pressing[q] \subseteq sitting'[q].people /\ ~sitting'[q].confirmed
                        /\ mail'[TheFamilys(q)].state = "left"
                        /\ sitting'[q].people \ pressing[q] \subseteq missed'
      BY DEF PressStands
    <2>1. /\ pressing[q] \subseteq sitting[q].people /\ ~sitting[q].confirmed
          /\ mail[TheFamilys(q)].state = "left" /\ sitting[q].people \ pressing[q] \subseteq missed
      BY DEF SittingInv, PressStands
    <2>2. CASE q = s
      <3>1. family /\ mail'[f].state = "left"
        BY <1>9, <1>10, <2>1, <2>2
      <3> QED BY <1>7, <2>1, <2>2, <3>1
    <2>3. CASE q # s
      BY <1>7, <1>12, <2>1, <2>3
    <2> QED BY <2>2, <2>3
  <1>23. MissedCameLate'
    <2> SUFFICES ASSUME NEW x \in missed'
                 PROVE  /\ half[x] = 0 /\ mail'[Own(x)].state # "none"
                        /\ \A t, q \in Sittings : x \in sitting'[t].people \cap sitting'[q].people => t = q
      BY DEF MissedCameLate
    <2>1. CASE x = p
      BY <1>3, <1>7, <1>10, <2>1
    <2>2. CASE x # p
      <3>1. x \in missed /\ x \in People
        BY <2>2, SittingTypes DEF SittingInv
      <3>2. /\ half[x] = 0 /\ mail[Own(x)].state # "none"
            /\ \A t, q \in Sittings : x \in sitting[t].people \cap sitting[q].people => t = q
        BY <3>1 DEF SittingInv, MissedCameLate
      <3>3. mail'[Own(x)].state # "none"
        BY <1>10, <1>13, <2>2, <3>1, <3>2
      <3>4. \A q \in Sittings : x \in sitting'[q].people => x \in sitting[q].people
        BY <1>7, <2>2
      <3> QED BY <3>2, <3>3, <3>4
    <2> QED BY <2>1, <2>2
  <1>24. ConfirmationStands'
    BY <1>7, <1>11 DEF SittingInv, ConfirmationStands
  <1>25. SeedsHold'
    <2> SUFFICES ASSUME NEW q \in Sittings, NEW x \in sitting'[q].people,
                        half[x] # 0, ~sitting'[q].released, ~sitting'[q].confirmed
                 PROVE  /\ sitting'[q].since + Window >= half[x]
                        /\ sitting'[q].until >= half[x] /\ sitting'[q].reserved >= half[x]
      BY DEF SeedsHold
    <2>1. x # p /\ x \in sitting[q].people
      BY <1>3, <1>7
    <2>2. CASE q # s
      BY <1>7, <2>1, <2>2 DEF SittingInv, SeedsHold
    <2>3. CASE q = s
      <3>1. sitting[s].open
        BY <2>1, <2>3, Unopened
      <3>2. /\ sitting[s].since + Window >= half[x] /\ sitting[s].reserved >= half[x]
        BY <2>1, <2>3 DEF SittingInv, SeedsHold
      <3>3. half[x] \in Nat /\ base.since \in Nat /\ Window \in Nat
        BY <1>1, <2>1, NextTick, SittingTypes, SittingAssumption DEF SittingInv, SittingRow
      <3>4. at + Window >= half[x]
        BY <1>2, <3>1, <3>2, <3>3
      <3> QED BY <1>7, <2>3, <3>1, <3>2, <3>4
    <2> QED BY <2>2, <2>3
  <1>26. HeldApart'
    <2> SUFFICES ASSUME NEW t \in Sittings, NEW q \in Sittings,
                        NEW m \in sitting'[t].held \cap sitting'[q].held, t # q
                 PROVE  sitting'[t].released \/ sitting'[q].released
      BY DEF HeldApart
    <2>1. ASSUME NEW x \in Sittings, NEW y \in Sittings \ {s}, x # y, m \in sitting'[y].held,
                 m \in sitting'[x].held
          PROVE  m \in sitting[x].held /\ m \in sitting[y].held
      BY <1>3, <1>7, <1>8, <2>1
    <2>2. m \in sitting[t].held /\ m \in sitting[q].held
      BY <2>1
    <2>3. sitting[t].released \/ sitting[q].released
      BY <2>2 DEF SittingInv, HeldApart
    <2> QED BY <1>7, <2>3
  <1>27. TurnsKept'
    <2> SUFFICES ASSUME NEW q \in Sittings, NEW m \in sitting'[q].held,
                        NeverTried(mail'[m]), ~mail'[m].marked, ~sitting'[q].released
                 PROVE  mail'[m].due >= sitting'[q].until
      BY DEF TurnsKept
    <2>1. CASE q = s
      <3>1. mail'[m].due = at + Window
        <4>1. CASE family
          BY <1>7, <1>10, <2>1, <4>1
        <4>2. CASE ~family
          <5>1. m = Own(p) \/ m \in sitting[s].held
            BY <1>7, <2>1, <4>2
          <5>2. m # f
            BY <1>10, <4>2 DEF NeverTried, Waiting
          <5> QED BY <1>1, <1>10, <4>2, <5>1, <5>2
        <4> QED BY <4>1, <4>2
      <3>2. sitting'[q].until = at + Window /\ at + Window \in Nat
        BY <1>2, <1>7, <2>1, NextTick
      <3> QED BY <3>1, <3>2
    <2>2. CASE q # s
      <3>1. m \in sitting[q].held /\ m \in Messages \ {Own(p), f} /\ ~sitting[q].released
        BY <1>1, <1>3, <1>7, <1>8, <2>2
      <3>2. m \notin sitting[s].held
        BY <2>2, <3>1 DEF SittingInv, HeldApart
      <3>3. mail'[m] = mail[m]
        BY <1>10, <3>1, <3>2
      <3> QED BY <1>7, <2>2, <3>1, <3>3 DEF SittingInv, TurnsKept
    <2> QED BY <2>1, <2>2
  <1>28. EntrantsAreNamed'
    <2> SUFFICES ASSUME NEW x \in People \ (joined \cup missed'), mail'[Own(x)].state = "deleted"
                 PROVE  \E q \in Sittings : /\ x \in sitting'[q].people /\ ~sitting'[q].confirmed
                                            /\ mail'[TheFamilys(q)].state \in {"waiting", "leaving", "left"}
      BY DEF EntrantsAreNamed
    <2>1. \A q \in Sittings : mail[TheFamilys(q)].state \in {"waiting", "leaving", "left"} =>
                                mail'[TheFamilys(q)].state \in {"waiting", "leaving", "left"}
      BY <1>9, <1>10, <1>12
    <2>2. CASE x # p /\ mail[Own(x)].state = "deleted"
      <3>1. PICK q \in Sittings : /\ x \in sitting[q].people /\ ~sitting[q].confirmed
                                  /\ mail[TheFamilys(q)].state \in {"waiting", "leaving", "left"}
        BY <2>2 DEF SittingInv, EntrantsAreNamed
      <3> QED BY <1>7, <2>1, <3>1
    <2>3. CASE x = p \/ mail[Own(x)].state # "deleted"
      <3>1. family /\ x \in sitting'[s].people
        <4>1. CASE x = p
          BY <1>7, <1>10, <4>1
        <4>2. CASE x # p /\ mail[Own(x)].state # "deleted"
          <5>1. family /\ Own(x) \in sitting[s].held
            BY <1>10, <1>13, <4>2
          <5>2. x \in sitting[s].people
            BY <5>1, MessagesApart DEF SittingInv, HeldIsTheirs
          <5> QED BY <1>7, <5>1, <5>2
        <4> QED BY <2>3, <4>1, <4>2
      <3>2. mail'[f].state \in {"waiting", "leaving", "left"}
        <4>1. mail[f] \in MailRow
          BY <1>1
        <4> QED BY <1>10, <3>1, <4>1 DEF SittingInv, FamilyStands, MailRow
      <3> QED BY <1>7, <3>1, <3>2
    <2> QED BY <2>2, <2>3
  <1>29. SignersAreTold'
    <2>1. \A x \in signed, q \in Sittings : Told(x, q) => Told(x, q)'
      BY <1>7, <1>11 DEF Told
    <2> QED BY <2>1 DEF SittingInv, SignersAreTold
  <1> QED BY <1>15, <1>16, <1>17, <1>18, <1>20, <1>21, <1>22, <1>23, <1>24, <1>25, <1>26, <1>27,
             <1>28, <1>29 DEF SittingInv

LEMMA NextFormKeeps ==
    ASSUME SittingInv, NEW s \in Sittings, NEW p \in People, NEW at \in AskedOf(s), NextForm(s, p, at)
    PROVE  SittingInv'
  <1>1. /\ sitting[s] \in SittingRow /\ at \in Asked /\ sitting[s].since <= at
    BY SittingTypes DEF SittingInv, AskedOf
  <1>2. /\ sitting[s].open /\ ~sitting[s].released /\ ~sitting[s].confirmed /\ sitting[s].reserved > at
        /\ mail[Own(p)].state = "none"
    BY DEF NextForm, Live
  <1>3. sitting[s].reserved + Window <= LastTick + 1
    BY <1>2 DEF SittingInv, RoomOnTheClock
  <1>4. missed' \in {missed, missed \cup {p}} /\ (pressing[s] # {} => p \in missed')
    BY DEF NextForm
  <1>5. Settled(s, [sitting[s] EXCEPT !.people = @ \cup {p}, !.held = @ \cup {Own(p)}],
                [mail EXCEPT ![Own(p)] = NewMail(at + Window)], at)
    BY DEF NextForm
  <1>6. UNCHANGED <<clock, half, pressing, joined, signed, alone, says, hitches>>
    BY DEF NextForm
  <1> QED BY <1>1, <1>2, <1>3, <1>4, <1>5, <1>6, FormKeeps

LEMMA FormOpensAnotherKeeps ==
    ASSUME SittingInv, NEW gone \in Sittings, NEW s \in Sittings, NEW p \in People,
           NEW at \in AskedOf(gone), FormOpensAnother(gone, s, p, at)
    PROVE  SittingInv'
  <1> DEFINE carried == sitting[gone].reserved
             reserved == IF carried > at THEN carried ELSE at + Window + HoldFor
             base == Opened(at, reserved)
  <1>1. /\ at \in Asked /\ at \in Ticks /\ at \in Nat /\ carried \in Nat
        /\ Window \in Nat \ {0} /\ HoldFor \in Nat /\ LastTick \in Nat
    BY SittingTypes, AskedTicks, NextTick, SittingAssumption DEF SittingInv, AskedOf, SittingRow
  <1>2. ~sitting[s].open /\ reserved + Window <= LastTick + 1 /\ mail[Own(p)].state = "none"
    BY DEF FormOpensAnother, MayOpen
  <1>3. reserved \in Ticks /\ reserved > at /\ at + Window \in Ticks
    BY <1>1, <1>2, TickRange
  <1>4. sitting[s] = NoSitting
    BY <1>2 DEF SittingInv, UnopenedIsEmpty
  <1>5. /\ sitting[s].people = {} /\ sitting[s].held = {} /\ pressing[s] = {}
        /\ ~sitting[s].released /\ ~sitting[s].confirmed
    BY <1>2, <1>4, Unopened DEF NoSitting
  <1>6. Settled(s, [base EXCEPT !.people = {p}, !.held = {Own(p)}],
                [mail EXCEPT ![Own(p)] = NewMail(at + Window)], at)
    BY DEF FormOpensAnother
  <1>7. UNCHANGED <<clock, half, pressing, joined, signed, alone, says, hitches, missed>>
    BY DEF FormOpensAnother
  <1> HIDE DEF carried, reserved
  <1>8. /\ base \in SittingRow /\ base.open /\ ~base.released /\ ~base.confirmed
        /\ base.since = at /\ base.reserved = reserved /\ base.people = {} /\ base.held = {}
    BY <1>1, <1>3, EmptyRows DEF Opened, NoSitting, SittingRow
  <1> HIDE DEF base
  <1>9. [base EXCEPT !.people = {p}, !.held = {Own(p)}]
          = [base EXCEPT !.people = @ \cup {p}, !.held = @ \cup {Own(p)}]
    BY <1>8 DEF SittingRow
  <1>10. Settled(s, [base EXCEPT !.people = @ \cup {p}, !.held = @ \cup {Own(p)}],
                 [mail EXCEPT ![Own(p)] = NewMail(at + Window)], at)
    BY <1>6, <1>9
  <1>11. /\ base.since <= at /\ base.reserved > at /\ base.reserved + Window <= LastTick + 1
         /\ base.people = sitting[s].people /\ base.held = sitting[s].held
         /\ missed' = missed /\ UNCHANGED <<clock, half, pressing, joined, signed, alone, says, hitches>>
    BY <1>1, <1>2, <1>3, <1>5, <1>7, <1>8
  <1> QED BY <1>1, <1>2, <1>5, <1>8, <1>10, <1>11, FormKeeps

-----------------------------------------------------------------------------
(* The sittings' invariant. *)

LEMMA SittingInitFits == ASSUME SittingInit PROVE SittingInv
  <1>1. /\ clock = 0 /\ hitches = 0 /\ joined = {} /\ signed = {} /\ alone = {} /\ missed = {}
        /\ \A p \in People : half[p] = 0
        /\ \A s \in Sittings : sitting[s] = NoSitting /\ pressing[s] = {} /\ says[s] = {}
        /\ \A m \in Messages : mail[m] = NoMail
    BY DEF SittingInit
  <1>2. SittingTypeOK
    BY EmptyRows, NextTick, SittingTypes, SittingAssumption DEF SittingInit
  <1>3. /\ NoMail.state = "none" /\ ~NoSitting.open /\ NoSitting.people = {} /\ NoSitting.held = {}
        /\ ~NoSitting.confirmed
    BY DEF NoMail, NoSitting
  <1>4. Newcomers /\ UnopenedIsEmpty /\ HeldIsTheirs /\ FamilyStands
    BY <1>1, <1>3, MessagesApart DEF Newcomers, UnopenedIsEmpty, HeldIsTheirs, FamilyStands
  <1>5. UnfinishedIsHeld /\ PressStands /\ MissedCameLate /\ ConfirmationStands
    BY <1>1, <1>3, MessagesApart DEF UnfinishedIsHeld, PressStands, MissedCameLate, ConfirmationStands
  <1>6. SeedsHold /\ HeldApart /\ TurnsKept /\ RoomOnTheClock
    BY <1>1, <1>3 DEF SeedsHold, HeldApart, TurnsKept, RoomOnTheClock
  <1>7. EntrantsAreNamed /\ SignersAreTold
    BY <1>1, <1>3, MessagesApart DEF EntrantsAreNamed, SignersAreTold
  <1> QED BY <1>2, <1>4, <1>5, <1>6, <1>7 DEF SittingInv

LEMMA SittingStepKeeps == ASSUME SittingInv, [SittingNext]_sittingVars PROVE SittingInv'
  <1>1. CASE UNCHANGED sittingVars
    <2>1. UNCHANGED <<clock, mail, half, sitting, pressing, joined, signed, alone, says, hitches, missed>>
      BY <1>1 DEF sittingVars
    <2>2. SittingTypeOK' /\ Newcomers' /\ UnopenedIsEmpty' /\ HeldIsTheirs' /\ FamilyStands'
      BY <2>1 DEF SittingInv, SittingTypeOK, Newcomers, UnopenedIsEmpty, HeldIsTheirs, FamilyStands, OnlyIn
    <2>3. UnfinishedIsHeld' /\ PressStands' /\ MissedCameLate' /\ ConfirmationStands' /\ SeedsHold'
      BY <2>1 DEF SittingInv, UnfinishedIsHeld, PressStands, MissedCameLate, ConfirmationStands, SeedsHold
    <2>4. HeldApart' /\ TurnsKept' /\ RoomOnTheClock' /\ EntrantsAreNamed' /\ SignersAreTold'
      BY <2>1 DEF SittingInv, HeldApart, TurnsKept, RoomOnTheClock, EntrantsAreNamed, SignersAreTold, Told
    <2> QED BY <2>2, <2>3, <2>4 DEF SittingInv
  <1>2. CASE ClockTicks
    BY <1>2, ClockTicksKeeps
  <1>3. ASSUME NEW p \in People, FirstForm(p) \/ PressOwn(p) \/ Sign(p)
        PROVE  SittingInv'
    BY <1>3, FirstFormKeeps, PressOwnKeeps, SignKeeps
  <1>4. ASSUME NEW s \in Sittings,
               \/ Release(s) \/ RenderConfirmation(s)
               \/ PressReads(s) \/ PressWrites(s) \/ PressFails(s)
        PROVE  SittingInv'
    BY <1>4, ReleaseKeeps, RenderKeeps, PressReadsKeeps, PressWritesKeeps, PressFailsKeeps
  <1>5. ASSUME NEW s \in Sittings, NEW p \in People, NEW at \in Asked, OpenFromSeed(s, p, at)
        PROVE  SittingInv'
    BY <1>5, OpenFromSeedKeeps
  <1>6. ASSUME NEW s \in Sittings, NEW at \in AskedOf(s), Continue(s, at)
        PROVE  SittingInv'
    BY <1>6, ContinueKeeps
  <1>7. ASSUME NEW s \in Sittings, NEW at \in AskedOf(s), NEW p \in People, NextForm(s, p, at)
        PROVE  SittingInv'
    BY <1>7, NextFormKeeps
  <1>8. ASSUME NEW s \in Sittings, NEW at \in AskedOf(s), NEW p \in People, NEW next \in Sittings,
               FormOpensAnother(s, next, p, at)
        PROVE  SittingInv'
    BY <1>8, FormOpensAnotherKeeps
  <1>9. ASSUME NEW m \in Messages, Claims(m) \/ Leaves(m)
        PROVE  SittingInv'
    BY <1>9, ClaimsKeeps, LeavesKeeps
  <1>10. ASSUME NEW m \in Messages, NEW stopped \in BOOLEAN, Hitch(m, stopped)
         PROVE  SittingInv'
    BY <1>10, HitchKeeps
  <1> QED BY <1>1, <1>2, <1>3, <1>4, <1>5, <1>6, <1>7, <1>8, <1>9, <1>10 DEF SittingNext

\* A row of the queue at any turn, the clock's or not.
TurnRow == [state : {"none", "waiting", "leaving", "left", "deleted"}, due : Int,
            tried : BOOLEAN, marked : BOOLEAN, letGo : BOOLEAN]

\* Only the worker's claim makes a waiting message leave.
LEMMA SettledLeavesNone ==
    ASSUME NEW s \in Sittings, NEW row, NEW mails \in [Messages -> TurnRow], NEW at \in Int,
           Settled(s, row, mails, at), NEW m \in Messages, mail'[m].state = "leaving"
    PROVE  mails[m].state = "leaving"
  <1> DEFINE queued == IF mails[TheFamilys(s)].state = "none"
                       THEN [mails EXCEPT ![TheFamilys(s)] = NewMail(at + Window)] ELSE mails
             replaced == [x \in Messages |-> IF x \in row.held \ {TheFamilys(s)}
                                            THEN ReplacedBy(queued[x]) ELSE queued[x]]
             kept == IF Cardinality(row.people \ joined) >= 2 THEN replaced ELSE mails
  <1>1. mail'[m] = kept[m] \/ mail'[m] = Moved(kept[m], at + Window)
    BY DEF Settled
  <1>2. \A l : Moved(l, at + Window) = l \/ Moved(l, at + Window) = [l EXCEPT !.due = at + Window]
    BY DEF Moved
  <1>8. \A l \in TurnRow : Moved(l, at + Window).state = l.state
    <2>1. \A l \in TurnRow : [l EXCEPT !.due = at + Window].state = l.state
      BY DEF TurnRow
    <2> QED BY <1>2, <2>1
  <1>3. queued[m] = mails[m] \/ queued[m] = NewMail(at + Window)
    OBVIOUS
  <1>4. NewMail(at + Window).state = "waiting"
    BY DEF NewMail, NoMail
  <1> HIDE DEF queued
  <1>5. kept[m] \in {mails[m], queued[m], ReplacedBy(queued[m])}
    OBVIOUS
  <1> HIDE DEF replaced, kept
  <1>6. \A l \in TurnRow : ReplacedBy(l) \in TurnRow /\ ReplacedBy(l).state \in {l.state, "deleted"}
    <2>1. /\ [NoMail EXCEPT !.state = "deleted"] \in TurnRow
          /\ [NoMail EXCEPT !.state = "deleted"].state = "deleted"
      <3>1. NoMail \in TurnRow
        BY DEF NoMail, TurnRow
      <3> QED BY <3>1 DEF TurnRow
    <2>2. \A l \in TurnRow : /\ [l EXCEPT !.letGo = TRUE] \in TurnRow
                            /\ [l EXCEPT !.letGo = TRUE].state = l.state
      BY DEF TurnRow
    <2> QED BY <2>1, <2>2 DEF ReplacedBy
  <1>7. mails[m] \in TurnRow /\ NewMail(at + Window) \in TurnRow
    <2>1. at + Window \in Int
      BY SittingAssumption
    <2> QED BY <2>1 DEF NewMail, NoMail, TurnRow
  <1>9. queued[m] \in TurnRow /\ queued[m].state \in {mails[m].state, "waiting"}
    BY <1>3, <1>4, <1>7
  <1>10. kept[m] \in TurnRow /\ kept[m].state \in {mails[m].state, "waiting", "deleted"}
    BY <1>5, <1>6, <1>7, <1>9
  <1>11. mail'[m].state = kept[m].state
    BY <1>1, <1>8, <1>10
  <1> QED BY <1>10, <1>11

LEMMA OnlyAClaimLeaves ==
    ASSUME SittingInv, [SittingNext]_sittingVars, NEW m \in Messages,
           mail[m].state = "waiting", mail'[m].state = "leaving"
    PROVE  mail[m].due <= clock
  <1>1. mail \in [Messages -> MailRow] /\ mail[m] \in MailRow
    BY SittingTypes DEF SittingInv
  <1>2. \A t : Moved(mail[m], t).state = mail[m].state
    BY <1>1 DEF Moved, MailRow
  <1>3. \A t : NewMail(t).state = "waiting"
    BY DEF NewMail, NoMail
  <1>4. ~UNCHANGED mail
    OBVIOUS
  <1>5. ASSUME NEW p \in People, FirstForm(p) \/ PressOwn(p) \/ Sign(p)
        PROVE  FALSE
    <2>1. CASE FirstForm(p)
      BY <1>1, <1>3, <2>1 DEF FirstForm
    <2>2. CASE Sign(p)
      BY <1>1, <1>2, <1>3, <1>4, <2>2 DEF Sign
    <2> QED BY <1>4, <1>5, <2>1, <2>2 DEF PressOwn
  <1>6. ASSUME NEW s \in Sittings,
               \/ Release(s) \/ RenderConfirmation(s)
               \/ PressReads(s) \/ PressWrites(s) \/ PressFails(s)
        PROVE  FALSE
    BY <1>1, <1>2, <1>4, <1>6 DEF Release, RenderConfirmation, PressReads, PressWrites, PressFails
  <1>7. ASSUME NEW s \in Sittings, NEW p \in People, NEW at \in Asked, OpenFromSeed(s, p, at)
        PROVE  FALSE
    <2>1. mail' = [mail EXCEPT ![Own(p)] = IF NeverTried(mail[Own(p)]) THEN Moved(@, at + Window)
                                           ELSE [@ EXCEPT !.letGo = TRUE]]
      BY <1>7 DEF OpenFromSeed
    <2>2. [mail[m] EXCEPT !.letGo = TRUE].state = mail[m].state
      BY <1>1 DEF MailRow
    <2> QED BY <1>1, <1>2, <2>1, <2>2
  <1>8. ASSUME NEW s \in Sittings, NEW at, Continue(s, at)
        PROVE  FALSE
    BY <1>1, <1>2, <1>8 DEF Continue
  <1>9. ASSUME NEW s \in Sittings, NEW row, NEW at \in Int, NEW p \in People,
               Settled(s, row, [mail EXCEPT ![Own(p)] = NewMail(at + Window)], at)
        PROVE  FALSE
    <2> DEFINE mails == [mail EXCEPT ![Own(p)] = NewMail(at + Window)]
    <2>1. mail \in [Messages -> TurnRow]
      <3>1. \A l \in MailRow : l \in TurnRow
        BY NextTick DEF MailRow, TurnRow
      <3> QED BY <1>1, <3>1
    <2>2. NewMail(at + Window) \in TurnRow
      <3>1. at + Window \in Int
        BY SittingAssumption
      <3> QED BY <3>1 DEF NewMail, NoMail, TurnRow
    <2>3. mails \in [Messages -> TurnRow] /\ mails[m] \in {mail[m], NewMail(at + Window)}
      BY <2>1, <2>2
    <2>4. Settled(s, row, mails, at)
      BY <1>9
    <2> HIDE DEF mails
    <2>5. mails[m].state = "leaving"
      BY <1>9, <2>3, <2>4, SettledLeavesNone
    <2> QED BY <1>3, <2>3, <2>5
  <1>10. \A s \in Sittings : \A at \in AskedOf(s) : at \in Asked /\ at \in Int
    BY AskedTicks DEF SittingInv, AskedOf
  <1>11. ASSUME NEW s \in Sittings, NEW at \in AskedOf(s), NEW p \in People,
                NextForm(s, p, at) \/ \E next \in Sittings : FormOpensAnother(s, next, p, at)
         PROVE  FALSE
    BY <1>9, <1>10, <1>11 DEF NextForm, FormOpensAnother
  <1>12. ASSUME NEW x \in Messages, Claims(x) \/ Leaves(x) \/ \E stopped \in BOOLEAN : Hitch(x, stopped)
         PROVE  x = m /\ Claims(m)
    <2>1. CASE Claims(x)
      BY <1>1, <2>1 DEF Claims
    <2>2. CASE Leaves(x)
      BY <1>1, <2>2 DEF Leaves, NoMail
    <2>3. ASSUME NEW stopped \in BOOLEAN, Hitch(x, stopped)
          PROVE  FALSE
      <3> DEFINE l == [mail[x] EXCEPT !.state = "waiting", !.tried = ~stopped, !.marked = stopped,
                                      !.due = IF clock = LastTick THEN clock ELSE clock + 1]
      <3>1. l.state = "waiting"
        BY <1>1 DEF MailRow
      <3>2. mail' = [mail EXCEPT ![x] = l]
        BY <1>1, <2>3 DEF Hitch
      <3> HIDE DEF l
      <3> QED BY <1>1, <3>1, <3>2
    <2> QED BY <1>12, <2>1, <2>2, <2>3
  <1>13. ~ClockTicks /\ SittingNext
    BY <1>4 DEF ClockTicks, sittingVars
  <1>14. Claims(m)
    BY <1>5, <1>6, <1>7, <1>8, <1>11, <1>12, <1>13 DEF SittingNext
  <1> QED BY <1>14 DEF Claims

LEMMA SittingInvHolds == SittingSpec => []SittingInv
  BY SittingInitFits, SittingStepKeeps, PTL DEF SittingSpec

\* A family's sitting keeps its type: what is held is a message of theirs, and no window of one is
\* set past the clock's end, whichever seed, form or «Da» opened or moved it.
THEOREM SittingTypeCorrect == SittingSpec => []SittingTypeOK
  <1>1. SittingInv => SittingTypeOK
    BY DEF SittingInv
  <1> QED BY <1>1, SittingInvHolds, PTL

\* Whoever filled the form is named by a message of their own or by a family's whose button still
\* confirms them, and a signer is told by a confirmation that names them: for any number of people
\* and sittings (settleSitting, queueFamilyConfirmed).
THEOREM EverybodyIsNamedHolds == SittingSpec => []EverybodyIsNamed
  <1>1. SittingInv => EverybodyIsNamed
    BY NamedInTwoHalves DEF SittingInv
  <1> QED BY <1>1, SittingInvHolds, PTL

\* Beside the family's message none of theirs is still to be sent, but one a worker had begun to
\* send and that was let go (replaceHeldMessages).
THEOREM OneMessageForTheFamilyHolds == SittingSpec => []OneMessageForTheFamily
  <1>1. ASSUME SittingInv
        PROVE  OneMessageForTheFamily
    <2> SUFFICES ASSUME NEW s \in Sittings, mail[TheFamilys(s)].state # "none",
                        NEW p \in sitting[s].people, NeverTried(mail[Own(p)])
                 PROVE  mail[Own(p)].letGo
      BY DEF OneMessageForTheFamily
    <2>1. sitting[s].held = {TheFamilys(s)}
      BY <1>1 DEF SittingInv, FamilyStands
    <2>2. Own(p) \notin sitting[s].held
      BY <2>1, MessagesApart
    <2>3. ~Unfinished(mail[Own(p)])
      BY <1>1, <2>2 DEF SittingInv, UnfinishedIsHeld
    <2>4. mail[Own(p)].state = "waiting"
      BY DEF NeverTried, Waiting
    <2> QED BY <2>3, <2>4 DEF Unfinished
  <1> QED BY <1>1, SittingInvHolds, PTL

\* Nothing a sitting holds leaves before «Gata» or the end of its window, wherever the forms moved
\* it, but for a message tried before and one that Mailgun's stop gave a turn of its own.
THEOREM HeldUntilDoneHolds == SittingSpec => HeldUntilDone
  <1>1. ASSUME SittingInv, [SittingNext]_sittingVars,
               NEW s \in Sittings, NEW m \in sitting[s].held, NeverTried(mail[m]),
               mail'[m].state = "leaving", ~mail[m].marked, ~sitting[s].released
        PROVE  sitting[s].until <= clock
    <2>1. m \in Messages /\ mail[m].state = "waiting"
      BY <1>1, SittingTypes DEF SittingInv, SittingRow, NeverTried, Waiting
    <2>2. mail[m].due >= sitting[s].until
      BY <1>1 DEF SittingInv, TurnsKept
    <2>3. mail[m].due <= clock
      BY <1>1, <2>1, OnlyAClaimLeaves
    <2>4. mail[m].due \in Nat /\ clock \in Nat /\ sitting[s].until \in Nat
      BY <1>1, <2>1, SittingTypes, NextTick DEF SittingInv, MailRow, SittingRow
    <2> QED BY <2>2, <2>3, <2>4
  <1>2. SittingInv /\ [SittingNext]_sittingVars =>
          [\A s \in Sittings : \A m \in sitting[s].held :
             NeverTried(mail[m]) /\ mail'[m].state = "leaving" /\ ~mail[m].marked /\ ~sitting[s].released
               => sitting[s].until <= clock]_sittingVars
    BY <1>1
  <1> QED BY <1>2, SittingInvHolds, PTL DEF SittingSpec, HeldUntilDone

-----------------------------------------------------------------------------
(***************************************************************************)
(* The relay.                                                              *)
(***************************************************************************)
FailureRows == [Roads -> [count : Nat, ambiguous : BOOLEAN]]

\* Whoever holds the message read it as it is, and nobody else has written to it since.
HandFits ==
  \/ hand = Nobody
  \/ /\ hand.at \in {"claimed", "asked"} /\ message.status = "PROCESSING"
     /\ hand.failures = message.failures /\ hand.available \in [Roads -> BOOLEAN]
     /\ TriesSoFar < TriesInADay \/ dayOver
     /\ hand.at = "asked" => hand.road \in Roads /\ MayUse(hand.road)

\* Doubt is only ever about a road the club allows.
DoubtIsAllowed == \A r \in Roads : message.failures[r].ambiguous => MayUse(r)

\* What a service has taken is the message's end, or is known as a doubt, or is about to be said,
\* or was lost with the worker.
TakenIsKnown ==
  \A r \in taken :
    /\ MayUse(r)
    /\ \/ message.status \in Ended \/ message.failures[r].ambiguous \/ unwritten
       \/ hand.at = "asked" /\ hand.road = r /\ hand.answer \in {"sent", "ambiguous"}

FewFailures ==
  message.status \notin Ended => \A r \in Roads : Count(message.failures, r) <= TriesInADay + FailoverAfter

RelayInv == RelayTypeOK /\ HandFits /\ DoubtIsAllowed /\ TakenIsKnown /\ FewFailures

LEMMA RoadsAreTwo ==
    /\ \A r \in Roads : OtherRoad(r) \in Roads /\ OtherRoad(r) # r /\ OtherRoad(OtherRoad(r)) = r
    /\ \A r, q \in Roads : r # q => q = OtherRoad(r)
    /\ "gmail" \in Roads /\ "mailgun" \in Roads
  BY DEF Roads, OtherRoad

LEMMA FailuresTyped ==
    ASSUME RelayTypeOK
    PROVE  /\ message.failures \in FailureRows /\ message.chosen \in Roads /\ message.fallback \in BOOLEAN
           /\ \A r \in Roads : Count(message.failures, r) \in Counts /\ Count(message.failures, r) \in Nat
           /\ message.status \in {"PENDING", "PROCESSING"} \cup Ended
  <1>1. message.failures \in [Roads -> [count : Counts, ambiguous : BOOLEAN]]
    BY DEF RelayTypeOK
  <1>2. Counts \subseteq Nat
    BY RelayAssumption DEF Counts
  <1>3. \A r \in Roads : message.failures[r] \in [count : Nat, ambiguous : BOOLEAN]
                         /\ message.failures[r].count \in Counts
    BY <1>1, <1>2
  <1>4. message.failures \in FailureRows
    BY <1>1, <1>3 DEF FailureRows
  <1>5. message.chosen \in Roads /\ message.fallback \in BOOLEAN
        /\ message.status \in {"PENDING", "PROCESSING"} \cup Ended
    BY DEF RelayTypeOK
  <1> QED BY <1>2, <1>3, <1>4, <1>5 DEF Count

\* planRoad: a road the club allows; and not beside one in doubt, unless that is released or stopped.
LEMMA PlannedWell ==
    ASSUME RelayTypeOK, DoubtIsAllowed, NEW available \in [Roads -> BOOLEAN],
           NEW road \in PlanRoad(message.failures, available)
    PROVE  /\ road \in Roads /\ MayUse(road)
           /\ message.failures[OtherRoad(road)].ambiguous =>
                \/ message.failures[road].ambiguous
                \/ Count(message.failures, OtherRoad(road)) >= PinReleaseAfter
                \/ ~available[OtherRoad(road)]
  <1> DEFINE failures == message.failures
             pins == Pins(failures)
             stopped == {r \in pins : ~available[r]}
             kept == pins \ stopped
             stuck == {r \in stopped : ~available[OtherRoad(r)] \/ ~MayUse(OtherRoad(r))}
  <1>1. failures \in FailureRows /\ message.chosen \in Roads
        /\ \A r \in Roads : Count(failures, r) \in Nat
    BY FailuresTyped
  <1>2. \A r \in pins : r \in Roads /\ failures[r].ambiguous
    BY <1>1 DEF Pins
  <1>3. kept # {} => road \in kept
    BY DEF PlanRoad
  <1>4. kept = {} => road \in InTurn(failures, available)
    BY DEF PlanRoad
  <1>5. CASE road \in kept
    BY <1>2, <1>5 DEF DoubtIsAllowed
  <1>6. CASE kept = {} /\ road \in InTurn(failures, available)
    <2>1. road \in Roads /\ MayUse(road)
      <3>1. MayUse(message.chosen)
        BY DEF MayUse
      <3>2. road = message.chosen \/ (road = OtherRoad(message.chosen) /\ MayUse(road))
        BY <1>6 DEF InTurn
      <3> QED BY <1>1, <3>1, <3>2, RoadsAreTwo
    <2>2. ASSUME failures[OtherRoad(road)].ambiguous, ~failures[road].ambiguous,
                 ~(Count(failures, OtherRoad(road)) >= PinReleaseAfter)
          PROVE  ~available[OtherRoad(road)]
      <3> DEFINE other == OtherRoad(road)
      <3>1. other \in Roads /\ message.chosen \in {road, other}
        BY <1>1, <2>1, RoadsAreTwo
      <3>2. Count(failures, other) < PinReleaseAfter
        BY <1>1, <2>2, <3>1, RelayAssumption
      <3>3. other \in pins
        BY <2>2, <3>1, <3>2 DEF Pins
      <3> QED BY <1>6, <3>3
    <2> QED BY <2>1, <2>2
  <1> QED BY <1>3, <1>4, <1>5, <1>6

\* One failure of a road counted, the other roads' left alone; on a message with tries left the
\* count stays small.
CountedOn(before, after, road, ambiguous) ==
  /\ after \in [Roads -> [count : Counts, ambiguous : BOOLEAN]]
  /\ \A r \in Roads \ {road} : after[r] = before[r]
  /\ after[road].ambiguous = (before[road].ambiguous \/ ambiguous)
  /\ Count(before, road) < TriesInADay => Count(after, road) <= TriesInADay + FailoverAfter

LEMMA FailureCounted ==
    ASSUME RelayTypeOK, NEW road \in Roads, NEW ambiguous \in BOOLEAN, NEW atOnce \in BOOLEAN,
           Count(message.failures, road) <= TriesInADay + FailoverAfter
    PROVE  CountedOn(message.failures, WithFailure(message.failures, road, ambiguous, atOnce),
                     road, ambiguous)
  <1> DEFINE old == message.failures[road]
             count == IF atOnce /\ old.count + 1 < FailoverAfter THEN FailoverAfter ELSE old.count + 1
             next == [count |-> count, ambiguous |-> old.ambiguous \/ ambiguous]
  <1>1. /\ message.failures \in [Roads -> [count : Counts, ambiguous : BOOLEAN]]
        /\ old \in [count : Counts, ambiguous : BOOLEAN] /\ old.count \in Nat
        /\ old.count <= TriesInADay + FailoverAfter
    BY FailuresTyped DEF RelayTypeOK, Count
  <1>2. count \in Counts /\ (old.count < TriesInADay => count <= TriesInADay + FailoverAfter)
    BY <1>1, RelayAssumption DEF Counts
  <1>3. WithFailure(message.failures, road, ambiguous, atOnce) = [message.failures EXCEPT ![road] = next]
    BY <1>1 DEF WithFailure
  <1> HIDE DEF count
  <1>4. next \in [count : Counts, ambiguous : BOOLEAN] /\ next.count = count
        /\ next.ambiguous = (old.ambiguous \/ ambiguous)
    BY <1>1, <1>2
  <1> HIDE DEF next
  <1> QED BY <1>1, <1>2, <1>3, <1>4 DEF Count, CountedOn

MessageRow == [status : {"PENDING", "PROCESSING"} \cup Ended, due : BOOLEAN, words : BOOLEAN,
               chosen : Roads, fallback : BOOLEAN,
               failures : [Roads -> [count : Counts, ambiguous : BOOLEAN]]]

\* What a step that counts no failure leaves as it is.
LEMMA UncountedKeeps ==
    ASSUME RelayInv, message' \in MessageRow, message'.chosen = message.chosen,
           message'.fallback = message.fallback, message'.failures = message.failures,
           message.status \in Ended => message'.status \in Ended
    PROVE  /\ DoubtIsAllowed' /\ FewFailures' /\ TriesSoFar' = TriesSoFar
           /\ \A r \in Roads : MayUse(r)' <=> MayUse(r)
  <1>1. \A r \in Roads : MayUse(r)' <=> MayUse(r)
    BY DEF MayUse
  <1>2. DoubtIsAllowed'
    BY <1>1 DEF RelayInv, DoubtIsAllowed
  <1>3. FewFailures' /\ TriesSoFar' = TriesSoFar
    BY DEF RelayInv, FewFailures, TriesSoFar, Count
  <1> QED BY <1>1, <1>2, <1>3

LEMMA HandAt ==
    ASSUME HandFits
    PROVE  /\ hand.at = "none" <=> hand = Nobody
           /\ hand # Nobody =>
                /\ hand.at \in {"claimed", "asked"} /\ message.status = "PROCESSING"
                /\ hand.failures = message.failures /\ hand.available \in [Roads -> BOOLEAN]
                /\ TriesSoFar < TriesInADay \/ dayOver
                /\ hand.at = "asked" => hand.road \in Roads /\ MayUse(hand.road)
  BY DEF HandFits, Nobody

LEMMA NobodyFits == hand' = Nobody => HandFits' /\ hand'.at = "none"
  BY DEF HandFits, Nobody

\* The worker lets go of the message, with a failure of its road written or none.
LEMMA AnsweredKeeps ==
    ASSUME RelayInv, hand # Nobody, hand' = Nobody, message' \in MessageRow,
           message'.chosen = message.chosen, message'.fallback = message.fallback,
           message'.failures = message.failures,
           UNCHANGED <<taken, dayOver, stops, unwritten>>,
           hand.at = "asked" /\ hand.answer \in {"sent", "ambiguous"} => message'.status \in Ended
    PROVE  RelayInv'
  <1>1. RelayTypeOK'
    BY NobodyFits DEF RelayInv, RelayTypeOK, MessageRow
  <1>2. message.status = "PROCESSING" /\ "PROCESSING" \notin Ended
    BY HandAt DEF RelayInv, Ended
  <1>3. /\ DoubtIsAllowed' /\ FewFailures' /\ \A r \in Roads : MayUse(r)' <=> MayUse(r)
    BY <1>2, UncountedKeeps
  <1>4. TakenIsKnown'
    BY <1>2, <1>3 DEF RelayInv, TakenIsKnown, RelayTypeOK
  <1> QED BY <1>1, <1>3, <1>4, NobodyFits DEF RelayInv

LEMMA FailedKeeps ==
    ASSUME RelayInv, Failed
    PROVE  RelayInv'
  <1> DEFINE failures == WithFailure(hand.failures, hand.road, hand.answer = "ambiguous",
                                     hand.answer = "stop")
             base == IF dayOver THEN Ends("FAILED") ELSE [message EXCEPT !.status = "PENDING"]
  <1>1. /\ message \in MessageRow /\ hand # Nobody /\ message.status = "PROCESSING"
        /\ hand.failures = message.failures /\ hand.road \in Roads /\ MayUse(hand.road)
    BY HandAt DEF RelayInv, RelayTypeOK, MessageRow, Failed
  <1>13. TriesSoFar < TriesInADay \/ dayOver
    BY <1>1, HandAt DEF RelayInv
  <1>2. "PROCESSING" \notin Ended /\ "PENDING" \notin Ended /\ "FAILED" \in Ended
    BY DEF Ended
  <1>3. /\ \A r \in Roads : Count(message.failures, r) <= TriesInADay + FailoverAfter
        /\ \A r \in Roads : Count(message.failures, r) \in Nat
        /\ ~dayOver => \A r \in Roads : Count(message.failures, r) < TriesInADay
    <2>1. \A r \in Roads : Count(message.failures, r) \in Nat
      BY FailuresTyped DEF RelayInv
    <2>2. ~dayOver => \A r \in Roads : Count(message.failures, r) < TriesInADay
      BY <1>13, <2>1, RelayAssumption DEF TriesSoFar, Roads
    <2> QED BY <1>1, <1>2, <2>1, <2>2 DEF RelayInv, FewFailures
  <1>4. /\ failures \in [Roads -> [count : Counts, ambiguous : BOOLEAN]]
        /\ \A r \in Roads \ {hand.road} : failures[r] = message.failures[r]
        /\ failures[hand.road].ambiguous =
             (message.failures[hand.road].ambiguous \/ hand.answer = "ambiguous")
        /\ Count(message.failures, hand.road) < TriesInADay =>
             Count(failures, hand.road) <= TriesInADay + FailoverAfter
    <2> DEFINE doubt == hand.answer = "ambiguous"
               atOnce == hand.answer = "stop"
    <2>1. failures = WithFailure(message.failures, hand.road, doubt, atOnce)
      BY <1>1
    <2>2. doubt \in BOOLEAN /\ atOnce \in BOOLEAN
      OBVIOUS
    <2> HIDE DEF failures, doubt, atOnce
    <2>3. RelayTypeOK /\ hand.road \in Roads
          /\ Count(message.failures, hand.road) <= TriesInADay + FailoverAfter
      BY <1>1, <1>3 DEF RelayInv
    <2>4. CountedOn(message.failures, failures, hand.road, doubt)
      BY <2>1, <2>2, <2>3, FailureCounted
    <2> QED BY <2>4 DEF doubt, CountedOn
  <1>5. /\ base \in MessageRow /\ base.chosen = message.chosen /\ base.fallback = message.fallback
        /\ IF dayOver THEN base.status = "FAILED" ELSE base.status = "PENDING"
    BY <1>1 DEF Ends, MessageRow, Ended
  <1>6. message' = [base EXCEPT !.failures = failures] /\ hand' = Nobody
        /\ UNCHANGED <<taken, dayOver, stops, unwritten>>
    BY DEF Failed, Answered
  <1> HIDE DEF failures, base
  <1>7. /\ message' \in MessageRow /\ message'.failures = failures /\ message'.status = base.status
        /\ message'.chosen = message.chosen /\ message'.fallback = message.fallback
    BY <1>4, <1>5, <1>6 DEF MessageRow
  <1>8. RelayTypeOK'
    BY <1>6, <1>7, NobodyFits DEF RelayInv, RelayTypeOK, MessageRow
  <1>9. \A r \in Roads : MayUse(r)' <=> MayUse(r)
    BY <1>7 DEF MayUse
  <1>10. DoubtIsAllowed'
    BY <1>1, <1>4, <1>7, <1>9 DEF RelayInv, DoubtIsAllowed
  <1>11. FewFailures'
    <2> SUFFICES ASSUME message'.status \notin Ended, NEW r \in Roads
                 PROVE  Count(message'.failures, r) <= TriesInADay + FailoverAfter
      BY DEF FewFailures
    <2>1. ~dayOver
      BY <1>2, <1>5, <1>7
    <2>2. CASE r = hand.road
      BY <1>3, <1>4, <1>7, <2>1, <2>2
    <2>3. CASE r # hand.road
      BY <1>3, <1>4, <1>7, <2>3 DEF Count
    <2> QED BY <2>2, <2>3
  <1>12. TakenIsKnown'
    <2> SUFFICES ASSUME NEW r \in taken
                 PROVE  MayUse(r)' /\ (message'.failures[r].ambiguous \/ unwritten)
      BY <1>6 DEF TakenIsKnown
    <2>1. /\ r \in Roads /\ MayUse(r)
          /\ \/ message.failures[r].ambiguous \/ unwritten
             \/ hand.road = r /\ hand.answer = "ambiguous"
      BY <1>1, <1>2 DEF RelayInv, RelayTypeOK, TakenIsKnown, Failed
    <2>2. message.failures[r].ambiguous \/ (hand.road = r /\ hand.answer = "ambiguous") =>
            message'.failures[r].ambiguous
      BY <1>4, <1>7, <2>1
    <2> QED BY <1>9, <2>1, <2>2
  <1> QED BY <1>6, <1>8, <1>10, <1>11, <1>12, NobodyFits DEF RelayInv

LEMMA AskKeeps ==
    ASSUME RelayInv, NEW answers \in SUBSET (RoadAnswers \cup {"paced"}), Ask(answers)
    PROVE  RelayInv'
  <1>1. PICK road \in PlannedRoad, answer \in answers :
          /\ hand' = [at |-> "asked", failures |-> hand.failures, available |-> hand.available,
                      road |-> road, answer |-> answer]
          /\ \/ answer = "sent" /\ taken' = taken \cup {road}
             \/ answer = "ambiguous" /\ taken' \in {taken, taken \cup {road}}
             \/ answer \notin {"sent", "ambiguous"} /\ taken' = taken
    BY DEF Ask
  <1>2. /\ hand.at = "claimed" /\ hand # Nobody
        /\ message.status = "PROCESSING" /\ hand.failures = message.failures
        /\ hand.available \in [Roads -> BOOLEAN]
    BY HandAt DEF RelayInv, Ask, Nobody
  <1>11. message' = message /\ dayOver' = dayOver /\ stops' = stops /\ unwritten' = unwritten
    BY DEF Ask
  <1>12. TriesSoFar < TriesInADay \/ dayOver
    BY <1>2, HandAt DEF RelayInv
  <1>3. road \in Roads /\ MayUse(road)
    <2>1. road \in PlanRoad(message.failures, hand.available)
      BY <1>1, <1>2 DEF PlannedRoad
    <2> QED BY <1>2, <2>1, PlannedWell DEF RelayInv
  <1>4. /\ hand'.at = "asked" /\ hand'.failures = hand.failures /\ hand'.available = hand.available
        /\ hand'.road = road /\ hand'.answer = answer
    BY <1>1
  <1>5. taken' = taken \/ (taken' = taken \cup {road} /\ answer \in {"sent", "ambiguous"})
    BY <1>1
  <1>6. \A r : MayUse(r)' <=> MayUse(r)
    BY <1>11 DEF MayUse
  <1>7. RelayTypeOK'
    BY <1>11, <1>3, <1>4, <1>5 DEF RelayInv, RelayTypeOK
  <1>8. HandFits'
    <2>1. TriesSoFar' < TriesInADay \/ dayOver'
      BY <1>11, <1>12 DEF TriesSoFar
    <2>2. /\ hand'.at = "asked" /\ message'.status = "PROCESSING"
          /\ hand'.failures = message'.failures /\ hand'.available \in [Roads -> BOOLEAN]
      BY <1>2, <1>4, <1>11
    <2>3. hand'.road \in Roads /\ MayUse(hand.road)'
      BY <1>3, <1>4, <1>6
    <2> QED BY <2>1, <2>2, <2>3 DEF HandFits
  <1>9. DoubtIsAllowed' /\ FewFailures'
    BY <1>11, <1>6 DEF RelayInv, DoubtIsAllowed, FewFailures
  <1>10. TakenIsKnown'
    <2>1. \A r \in taken : /\ MayUse(r)
                           /\ message.status \in Ended \/ message.failures[r].ambiguous \/ unwritten
      BY <1>2 DEF RelayInv, TakenIsKnown
    <2> QED BY <1>11, <1>3, <1>4, <1>5, <1>6, <2>1 DEF TakenIsKnown
  <1> QED BY <1>7, <1>8, <1>9, <1>10 DEF RelayInv

LEMMA TakeMessageKeeps ==
    ASSUME RelayInv, TakeMessage
    PROVE  RelayInv'
  <1>1. /\ hand = Nobody /\ message.status \in {"PENDING", "PROCESSING"}
        /\ TriesSoFar < TriesInADay \/ dayOver
        /\ message' = [message EXCEPT !.status = "PROCESSING", !.due = FALSE]
        /\ UNCHANGED <<taken, dayOver, stops, unwritten>>
    BY DEF TakeMessage
  <1>2. PICK available \in [Roads -> BOOLEAN] :
          hand' = [at |-> "claimed", failures |-> message.failures, available |-> available]
    BY DEF TakeMessage
  <1>3. hand'.at = "claimed" /\ hand'.failures = message.failures /\ hand'.available = available
    BY <1>2
  <1>4. /\ message \in MessageRow /\ message' \in MessageRow /\ message'.status = "PROCESSING"
        /\ message'.chosen = message.chosen /\ message'.fallback = message.fallback
        /\ message'.failures = message.failures
    BY <1>1 DEF RelayInv, RelayTypeOK, MessageRow
  <1>5. message.status \notin Ended
    BY <1>1 DEF Ended
  <1>6. /\ DoubtIsAllowed' /\ FewFailures' /\ TriesSoFar' = TriesSoFar
        /\ \A r \in Roads : MayUse(r)' <=> MayUse(r)
    BY <1>4, <1>5, UncountedKeeps
  <1>7. RelayTypeOK'
    BY <1>1, <1>3, <1>4 DEF RelayInv, RelayTypeOK, MessageRow
  <1>8. HandFits'
    BY <1>1, <1>3, <1>4, <1>6 DEF HandFits
  <1>9. TakenIsKnown'
    <2>1. hand.at # "asked" /\ taken \subseteq Roads
      BY <1>1 DEF Nobody, RelayInv, RelayTypeOK
    <2> QED BY <1>1, <1>4, <1>5, <1>6, <2>1 DEF RelayInv, TakenIsKnown
  <1> QED BY <1>6, <1>7, <1>8, <1>9 DEF RelayInv

LEMMA LetGoKeeps ==
    ASSUME RelayInv, NoRoad \/ Sent \/ Refused \/ HeldForThePace
    PROVE  RelayInv'
  <1>1. /\ hand # Nobody /\ hand' = Nobody /\ UNCHANGED <<taken, dayOver, stops, unwritten>>
        /\ \/ hand.at = "claimed" /\ message' \in {Ends("FAILED"), [message EXCEPT !.status = "PENDING"]}
           \/ hand.answer = "sent" /\ message' = Ends("SENT")
           \/ hand.answer = "recipient" /\ message' = Ends("BOUNCED")
           \/ hand.answer = "paced" /\ message' = [message EXCEPT !.status = "PENDING"]
    BY DEF NoRoad, WaitsOrEnds, Sent, Refused, HeldForThePace, Answered, Nobody
  <1>2. message \in MessageRow
    BY DEF RelayInv, RelayTypeOK, MessageRow
  <1>3. \A status \in {"SENT", "BOUNCED", "FAILED"} :
          /\ Ends(status) \in MessageRow /\ Ends(status).chosen = message.chosen
          /\ Ends(status).fallback = message.fallback /\ Ends(status).failures = message.failures
          /\ Ends(status).status \in Ended
    BY <1>2 DEF Ends, MessageRow, Ended
  <1>4. LET next == [message EXCEPT !.status = "PENDING"]
        IN /\ next \in MessageRow /\ next.chosen = message.chosen
           /\ next.fallback = message.fallback /\ next.failures = message.failures
    BY <1>2 DEF MessageRow
  <1>5. /\ message' \in MessageRow /\ message'.chosen = message.chosen
        /\ message'.fallback = message.fallback /\ message'.failures = message.failures
    BY <1>1, <1>3, <1>4
  <1>6. hand.at = "asked" /\ hand.answer \in {"sent", "ambiguous"} => message'.status \in Ended
    BY <1>1, <1>3
  <1> QED BY <1>1, <1>5, <1>6, AnsweredKeeps

LEMMA AroundTheWorkerKeeps ==
    ASSUME RelayInv, WorkerStops \/ ComesDue \/ DayPasses
    PROVE  RelayInv'
  <1>1. CASE WorkerStops
    <2>1. /\ hand # Nobody /\ hand' = Nobody /\ stops' = stops + 1 /\ stops < StopsMax
          /\ unwritten' = (unwritten \/ (hand.at = "asked" /\ hand.road \in taken))
          /\ UNCHANGED <<message, taken, dayOver>>
      BY <1>1 DEF WorkerStops
    <2>2. unwritten' \in BOOLEAN /\ stops' \in 0..StopsMax
      BY <2>1, RelayAssumption DEF RelayInv, RelayTypeOK
    <2>3. RelayTypeOK'
      BY <2>1, <2>2, NobodyFits DEF RelayInv, RelayTypeOK
    <2>4. DoubtIsAllowed' /\ FewFailures' /\ \A r \in Roads : MayUse(r)' <=> MayUse(r)
      BY <2>1 DEF RelayInv, DoubtIsAllowed, FewFailures, MayUse
    <2>5. TakenIsKnown'
      BY <2>1, <2>4 DEF RelayInv, TakenIsKnown, RelayTypeOK
    <2> QED BY <2>1, <2>3, <2>4, <2>5, NobodyFits DEF RelayInv
  <1>2. CASE ComesDue
    <2>1. /\ message' = [message EXCEPT !.due = TRUE] /\ message.status = "PENDING"
          /\ UNCHANGED <<hand, taken, dayOver, stops, unwritten>>
      BY <1>2 DEF ComesDue
    <2>2. /\ message' \in MessageRow /\ message'.status = message.status
          /\ message'.chosen = message.chosen /\ message'.fallback = message.fallback
          /\ message'.failures = message.failures
      BY <2>1 DEF RelayInv, RelayTypeOK, MessageRow
    <2>3. /\ DoubtIsAllowed' /\ FewFailures' /\ \A r \in Roads : MayUse(r)' <=> MayUse(r)
      BY <2>2, UncountedKeeps
    <2>4. hand = Nobody
      BY <2>1, HandAt DEF RelayInv
    <2>5. RelayTypeOK'
      BY <2>1, <2>2 DEF RelayInv, RelayTypeOK, MessageRow
    <2>6. TakenIsKnown'
      BY <2>1, <2>2, <2>3 DEF RelayInv, TakenIsKnown, RelayTypeOK
    <2> QED BY <2>1, <2>3, <2>4, <2>5, <2>6, NobodyFits DEF RelayInv
  <1>3. CASE DayPasses
    <2>1. dayOver' = TRUE /\ UNCHANGED <<message, hand, taken, stops, unwritten>>
      BY <1>3 DEF DayPasses
    <2>2. RelayTypeOK' /\ DoubtIsAllowed' /\ FewFailures'
      BY <2>1 DEF RelayInv, RelayTypeOK, DoubtIsAllowed, FewFailures, MayUse
    <2>3. HandFits' /\ TakenIsKnown'
      BY <2>1 DEF RelayInv, HandFits, TakenIsKnown, MayUse
    <2> QED BY <2>2, <2>3 DEF RelayInv
  <1> QED BY <1>1, <1>2, <1>3

LEMMA RelayInitFits == ASSUME RelayInit PROVE RelayInv
  <1>1. PICK road \in Roads, fallback \in BOOLEAN :
          message = [status |-> "PENDING", due |-> TRUE, words |-> TRUE, chosen |-> road,
                     fallback |-> fallback, failures |-> [r \in Roads |-> NoFailure]]
    BY DEF RelayInit
  <1>2. hand = Nobody /\ taken = {} /\ dayOver = FALSE /\ stops = 0 /\ unwritten = FALSE
    BY DEF RelayInit
  <1>3. 0 \in Counts /\ 0 \in 0..StopsMax
    BY RelayAssumption DEF Counts
  <1>4. NoFailure \in [count : Counts, ambiguous : BOOLEAN] /\ NoFailure.count = 0
        /\ NoFailure.ambiguous = FALSE
    BY <1>3 DEF NoFailure
  <1>5. message \in MessageRow /\ \A r \in Roads : message.failures[r] = NoFailure
    BY <1>1, <1>4 DEF MessageRow
  <1>6. RelayTypeOK
    BY <1>2, <1>3, <1>5 DEF RelayTypeOK, MessageRow, Nobody
  <1>7. HandFits /\ DoubtIsAllowed /\ TakenIsKnown
    BY <1>2, <1>4, <1>5 DEF HandFits, DoubtIsAllowed, TakenIsKnown
  <1>8. FewFailures
    BY <1>4, <1>5, RelayAssumption DEF FewFailures, Count
  <1> QED BY <1>6, <1>7, <1>8 DEF RelayInv

LEMMA RelayStepKeeps == ASSUME RelayInv, [RelayNext]_relayVars PROVE RelayInv'
  <1>1. CASE UNCHANGED relayVars
    <2>1. UNCHANGED <<message, hand, taken, dayOver, stops, unwritten>>
      BY <1>1 DEF relayVars
    <2>2. RelayTypeOK' /\ DoubtIsAllowed' /\ FewFailures'
      BY <2>1 DEF RelayInv, RelayTypeOK, DoubtIsAllowed, FewFailures, MayUse
    <2>3. HandFits' /\ TakenIsKnown'
      BY <2>1 DEF RelayInv, HandFits, TakenIsKnown, MayUse, TriesSoFar
    <2> QED BY <2>2, <2>3 DEF RelayInv
  <1>2. CASE Try \/ Ask({"paced"})
    <2>1. RoadAnswers \in SUBSET (RoadAnswers \cup {"paced"}) /\ {"paced"} \in SUBSET (RoadAnswers \cup {"paced"})
      OBVIOUS
    <2> QED BY <1>2, <2>1, AskKeeps DEF Try
  <1> QED BY <1>1, <1>2, TakeMessageKeeps, LetGoKeeps, FailedKeeps, AroundTheWorkerKeeps
          DEF RelayNext, RelayWorks

LEMMA RelayInvHolds == RelaySpec => []RelayInv
  BY RelayInitFits, RelayStepKeeps, PTL DEF RelaySpec

\* A message keeps its row's type, and its failures stay within what a day's tries leave room for.
THEOREM RelayTypeCorrect == RelaySpec => []RelayTypeOK
  <1>1. RelayInv => RelayTypeOK
    BY DEF RelayInv
  <1> QED BY <1>1, RelayInvHolds, PTL

\* A road the club did not allow never has the message; and a second road takes it beside the first
\* only when the first is released, stopped or unknown, for any limits (planRoad, handOver).
THEOREM SecondRoadOnlyWhenReleasedHolds == RelaySpec => SecondRoadOnlyWhenReleased
  <1>1. ASSUME RelayInv, [RelayNext]_relayVars, NEW road \in taken' \ taken
        PROVE  /\ MayUse(road)
               /\ OtherRoad(road) \in taken =>
                    \/ unwritten \/ hand.failures[road].ambiguous
                    \/ Count(hand.failures, OtherRoad(road)) >= PinReleaseAfter
                    \/ ~hand.available[OtherRoad(road)]
    <2>1. PICK answers : Ask(answers)
      BY <1>1 DEF RelayNext, RelayWorks, relayVars, TakeMessage, NoRoad, Try, Sent, Refused, Answered,
                  HeldForThePace, Failed, WorkerStops, ComesDue, DayPasses
    <2>2. hand.at = "claimed" /\ road \in PlannedRoad
      BY <1>1, <2>1 DEF Ask
    <2>3. /\ hand.failures = message.failures /\ hand.available \in [Roads -> BOOLEAN]
          /\ message.status = "PROCESSING" /\ message.status \notin Ended
      BY <1>1, <2>2, HandAt DEF RelayInv, Nobody, Ended
    <2>4. /\ road \in Roads /\ MayUse(road)
          /\ message.failures[OtherRoad(road)].ambiguous =>
               \/ message.failures[road].ambiguous
               \/ Count(message.failures, OtherRoad(road)) >= PinReleaseAfter
               \/ ~hand.available[OtherRoad(road)]
      BY <1>1, <2>2, <2>3, PlannedWell DEF RelayInv, PlannedRoad
    <2>5. OtherRoad(road) \in taken => message.failures[OtherRoad(road)].ambiguous \/ unwritten
      BY <1>1, <2>2, <2>3 DEF RelayInv, TakenIsKnown
    <2> QED BY <2>3, <2>4, <2>5
  <1>2. RelayInv /\ [RelayNext]_relayVars =>
          [\A road \in taken' \ taken :
             /\ MayUse(road)
             /\ OtherRoad(road) \in taken =>
                  \/ unwritten \/ hand.failures[road].ambiguous
                  \/ Count(hand.failures, OtherRoad(road)) >= PinReleaseAfter
                  \/ ~hand.available[OtherRoad(road)]]_relayVars
    BY <1>1
  <1> QED BY <1>2, RelayInvHolds, PTL DEF RelaySpec, SecondRoadOnlyWhenReleased

-----------------------------------------------------------------------------
(***************************************************************************)
(* The delivery facts.                                                     *)
(***************************************************************************)
\* What is read of the rows, of whatever rows are given.
AfterIn(f, senders, at) == {f[m].delivered : m \in {n \in senders : f[n].delivered > at}}
CarriesIn(f, m, r) == f[m].kind = f[r].kind \/ (f[m].kind = "confirmation" /\ f[r].kind = "number")
CarriedIn(f, r) ==
  {m \in Others(r) : CarriesIn(f, m, r) /\ f[m].sent # Never /\ f[m].sent >= f[r].created}

LetterRow == [kind : {"confirmation", "number", "other"}, status : {"none", "PENDING", "SENT"} \cup Refusals,
              cause : {"none", "address", "account", "complained"}, created : Whens, sent : Whens,
              rejected : Whens, delivered : Whens, laterDelivered : Whens, resolved : Whens,
              retried : Whens]

\* A bounce's row says of the rows f what FactsInAnyOrder asks.
RowTold(f, r, row) ==
  row.status = "BOUNCED" /\ row.cause = "address" =>
    /\ row.laterDelivered = Soonest(AfterIn(f, Others(r), row.rejected))
    /\ row.resolved = Soonest(AfterIn(f, CarriedIn(f, r), row.rejected))

LEMMA ReadOfTheRows ==
    /\ \A senders, at : DeliveredAfter(senders, at) = AfterIn(letter, senders, at)
    /\ \A m, r : Carries(m, r) <=> CarriesIn(letter, m, r)
    /\ \A r : CarriedAgain(r) = CarriedIn(letter, r)
    /\ FactsInAnyOrder <=> \A r \in Letters : RowTold(letter, r, letter[r])
  <1>1. \A senders, at : DeliveredAfter(senders, at) = AfterIn(letter, senders, at)
    BY DEF DeliveredAfter, AfterIn
  <1>2. \A m, r : Carries(m, r) <=> CarriesIn(letter, m, r)
    BY DEF Carries, CarriesIn
  <1>3. \A r : CarriedAgain(r) = CarriedIn(letter, r)
    BY <1>2 DEF CarriedAgain, CarriedIn
  <1>4. FactsInAnyOrder <=> \A r \in Letters : RowTold(letter, r, letter[r])
    BY <1>1, <1>3 DEF FactsInAnyOrder, RowTold
  <1> QED BY <1>1, <1>2, <1>3, <1>4

LEMMA ReadOfTheNext ==
    ASSUME \A r \in Letters : RowTold(letter', r, letter'[r])
    PROVE  FactsInAnyOrder'
  BY DEF FactsInAnyOrder, RowTold, AfterIn, DeliveredAfter, CarriedAgain, Carries, CarriedIn, CarriesIn

\* A finite set of numbers has a least: the smallest of the sets of those not above one of them.
LEMMA SomeLeast ==
    ASSUME NEW S \in SUBSET Int, IsFiniteSet(S), S # {}
    PROVE  \E n \in S : \A y \in S : n <= y
  <1> DEFINE upTo(n) == {y \in S : y <= n}
             all == {upTo(n) : n \in S}
             R == StrictSubsetOrdering(S)
  <1>1. \A n \in S : upTo(n) \in SUBSET S /\ IsFiniteSet(upTo(n))
    BY FS_Subset
  <1>2. all \subseteq FiniteSubsetsOf(S) /\ all # {}
    BY <1>1 DEF FiniteSubsetsOf
  <1>3. IsWellFoundedOn(R, FiniteSubsetsOf(S))
    BY FS_StrictSubsetOrderingWellFounded
  <1>4. PICK D \in all : \A E \in all : <<E, D>> \notin R
    <2> HIDE DEF all, R
    <2> QED BY <1>2, <1>3, WFMin
  <1>5. PICK n \in S : D = upTo(n)
    OBVIOUS
  <1>6. ASSUME NEW y \in S, y < n
        PROVE  FALSE
    <2>1. n \in Int /\ y \in Int /\ \A z \in S : z \in Int
      OBVIOUS
    <2>2. n \in upTo(n) /\ n \notin upTo(y) /\ \A z \in S : z <= y => z <= n
      BY <1>6, <2>1
    <2>3. upTo(y) \subseteq upTo(n) /\ upTo(y) # upTo(n)
      BY <2>2
    <2>4. <<upTo(y), upTo(n)>> \in R
      BY <1>1, <2>3 DEF StrictSubsetOrdering
    <2> QED BY <1>4, <1>5, <2>4
  <1>7. \A y \in S : y \in Int /\ n \in Int
    OBVIOUS
  <1> QED BY <1>6, <1>7

LEMMA InstantsAre ==
    /\ LastInstant \in Nat \ {0} /\ Instants \subseteq Nat /\ IsFiniteSet(Instants) /\ Whens \subseteq Nat
    /\ \A t : t \in Instants <=> t \in Nat /\ 1 <= t /\ t <= LastInstant
    /\ \A t : t \in Whens <=> t \in Instants \/ t = 0
    /\ Never = 0 /\ Never \notin Instants /\ Never \notin Letters
  BY FactsAssumption, FS_Interval DEF Instants, Whens, Never

LEMMA SoonestIs ==
    ASSUME NEW A \in SUBSET Instants
    PROVE  /\ A = {} => Soonest(A) = Never
           /\ A # {} => Soonest(A) \in A /\ \A x \in A : Soonest(A) <= x
           /\ Soonest(A) \in Whens
           /\ \A t \in A : (\A x \in A : t <= x) => Soonest(A) = t
  <1>1. \A x \in A : x \in Nat
    BY InstantsAre
  <1>2. A # {} => Soonest(A) \in A /\ \A x \in A : Soonest(A) <= x
    <2> SUFFICES ASSUME A # {}
                 PROVE  Soonest(A) \in A /\ \A x \in A : Soonest(A) <= x
      OBVIOUS
    <2>1. IsFiniteSet(A) /\ A \in SUBSET Int
      <3>1. IsFiniteSet(Instants)
        BY InstantsAre
      <3>2. IsFiniteSet(A)
        BY <3>1, FS_Subset
      <3> QED BY <1>1, <3>2
    <2>2. \E n \in A : \A y \in A : n <= y
      BY <2>1, SomeLeast
    <2> QED BY <2>2 DEF Soonest, Min
  <1>3. A = {} => Soonest(A) = Never
    BY DEF Soonest
  <1>4. Soonest(A) \in Whens
    BY <1>2, <1>3, InstantsAre
  <1>5. ASSUME NEW t \in A, \A x \in A : t <= x
        PROVE  Soonest(A) = t
    <2>1. Soonest(A) \in A /\ Soonest(A) <= t /\ t <= Soonest(A)
      BY <1>2, <1>5
    <2> QED BY <1>1, <2>1
  <1> QED BY <1>2, <1>3, <1>4, <1>5

LEMMA LatestIs ==
    ASSUME NEW A \in SUBSET Instants, A # {}
    PROVE  /\ Latest(A) \in A /\ \A x \in A : Latest(A) >= x
           /\ \A t \in A : (\A x \in A : t >= x) => Latest(A) = t
  <1> DEFINE back == {LastInstant - x : x \in A}
  <1>1. \A x \in A : x \in Nat /\ x <= LastInstant
    BY InstantsAre
  <1>2. back \in SUBSET (0..LastInstant) /\ back # {}
    <2>1. LastInstant \in Nat
      BY InstantsAre
    <2>2. \A x \in A : LastInstant - x \in 0..LastInstant
      BY <1>1, <2>1
    <2> QED BY <2>2
  <1>3. IsFiniteSet(back) /\ back \in SUBSET Int
    <2>1. IsFiniteSet(0..LastInstant)
      BY InstantsAre, FS_Interval
    <2> HIDE DEF back
    <2>2. IsFiniteSet(back)
      BY <1>2, <2>1, FS_Subset
    <2>3. 0..LastInstant \subseteq Int
      OBVIOUS
    <2> QED BY <1>2, <2>2, <2>3
  <1>4. PICK n \in back : \A y \in back : n <= y
    <2> HIDE DEF back
    <2> QED BY <1>2, <1>3, SomeLeast
  <1>5. PICK x \in A : n = LastInstant - x
    OBVIOUS
  <1>6. \A y \in A : x >= y
    <2> SUFFICES ASSUME NEW y \in A
                 PROVE  x >= y
      OBVIOUS
    <2>1. LastInstant - x <= LastInstant - y
      BY <1>4, <1>5
    <2> QED BY <1>1, <2>1, InstantsAre
  <1>7. Latest(A) \in A /\ \A y \in A : Latest(A) >= y
    BY <1>6 DEF Latest, Max
  <1>8. ASSUME NEW t \in A, \A y \in A : t >= y
        PROVE  Latest(A) = t
    <2>1. Latest(A) \in A /\ Latest(A) >= t /\ t >= Latest(A)
      BY <1>7, <1>8
    <2> QED BY <1>1, <2>1
  <1> QED BY <1>7, <1>8

LEMMA EarlierIs ==
    ASSUME NEW a \in Whens, NEW b \in Whens
    PROVE  /\ Earlier(a, b) = IF a = Never THEN b ELSE IF b = Never \/ a <= b THEN a ELSE b
           /\ Earlier(a, b) \in Whens
  <1> DEFINE two == {a, b} \ {Never}
  <1>1. a \in Nat /\ b \in Nat /\ two \in SUBSET Instants
    BY InstantsAre
  <1>2. /\ two = {} => Soonest(two) = Never
        /\ \A t \in two : (\A x \in two : t <= x) => Soonest(two) = t
    <2> HIDE DEF two
    <2> QED BY <1>1, SoonestIs
  <1>3. CASE a = Never /\ b = Never
    BY <1>2, <1>3 DEF Earlier
  <1>4. CASE a = Never /\ b # Never
    <2>1. two = {b}
      BY <1>4
    <2> QED BY <1>1, <1>2, <1>4, <2>1 DEF Earlier
  <1>5. CASE a # Never /\ (b = Never \/ a <= b)
    <2>1. a \in two /\ \A x \in two : a <= x
      BY <1>1, <1>5
    <2> QED BY <1>2, <1>5, <2>1 DEF Earlier
  <1>6. CASE a # Never /\ b # Never /\ ~(a <= b)
    <2>1. b \in two /\ \A x \in two : b <= x
      BY <1>1, <1>6
    <2> QED BY <1>2, <1>6, <2>1 DEF Earlier
  <1> QED BY <1>3, <1>4, <1>5, <1>6

\* One more delivery, and the earlier of the two.
LEMMA SoonestAdds ==
    ASSUME NEW A \in SUBSET Instants, NEW at \in Instants
    PROVE  Earlier(Soonest(A), at) = Soonest(A \cup {at})
  <1>1. at \in Nat /\ at # Never /\ at \in Whens /\ \A x \in A : x \in Nat /\ x # Never
    BY InstantsAre
  <1>2. /\ A = {} => Soonest(A) = Never
        /\ A # {} => Soonest(A) \in A /\ \A x \in A : Soonest(A) <= x
        /\ Soonest(A) \in Whens /\ Soonest(A) \in Nat
    BY SoonestIs, InstantsAre
  <1>3. Earlier(Soonest(A), at) = IF Soonest(A) = Never THEN at
                                  ELSE IF at = Never \/ Soonest(A) <= at THEN Soonest(A) ELSE at
    BY <1>1, <1>2, EarlierIs
  <1> DEFINE t == IF A # {} /\ Soonest(A) <= at THEN Soonest(A) ELSE at
  <1>4. t \in A \cup {at} /\ \A x \in A \cup {at} : t <= x
    <2>1. CASE A # {} /\ Soonest(A) <= at
      BY <1>2, <2>1
    <2>2. CASE A = {}
      BY <1>1, <2>2
    <2>3. CASE A # {} /\ ~(Soonest(A) <= at)
      <3>1. \A x \in A : at <= x
        BY <1>1, <1>2, <2>3
      <3> QED BY <1>1, <2>3, <3>1
    <2> QED BY <2>1, <2>2, <2>3
  <1>5. Soonest(A \cup {at}) = t
    <2>1. A \cup {at} \in SUBSET Instants
      OBVIOUS
    <2> HIDE DEF t
    <2> QED BY <1>4, <2>1, SoonestIs
  <1> QED BY <1>1, <1>2, <1>3, <1>5

\* A row of the refusal being written that is not, or no longer, sent there.
Lasting(w, m) == w.of = m => w.row.sent # Never

\* When what it carried left again is a send there was; and the account's refusal is then over.
Noted(w, f, r, row) ==
  row.status \in Refusals =>
    /\ row.retried = Never \/ \E m \in CarriedIn(f, r) : Lasting(w, m) /\ f[m].sent = row.retried
    /\ row.cause = "account" /\ row.resolved = Never => row.retried = Never

RowFits(row) ==
  /\ row.status \in {"none", "PENDING"} => row.sent = Never
  /\ row.sent = Never => row.delivered = Never
  /\ row.status = "BOUNCED" /\ row.cause # "address" => row.sent = Never
  /\ IF row.status \in Refusals THEN row.rejected # Never
     ELSE row.laterDelivered = Never /\ row.resolved = Never /\ row.retried = Never

RowsFit == \A m \in Letters : RowFits(letter[m])

\* The row a refusal is about to write: what nobody else changes meanwhile, and what a send may.
WrittenFits(w, f, how) ==
  LET r == w.of
      row == w.row
  IN /\ r \in Letters /\ row \in LetterRow /\ row.status \in Refusals /\ RowFits(row)
     /\ row.kind = f[r].kind /\ row.created = f[r].created
     /\ row.delivered = f[r].delivered /\ row.sent \in {f[r].sent, Never}
     /\ RowTold(f, r, row) /\ Noted(w, f, r, row)
     /\ \A m \in CarriedIn(f, r) : row.retried >= f[m].sent \/ how[m] # "done"

RefusalFits == refusing # NoRefusal => WrittenFits(refusing, letter, noting)

RowsNoted == \A r \in Letters : Noted(refusing, letter, r, letter[r])

\* A send of what an open refusal carried is written on it, or has still to look for it.
SendsAnswer ==
  \A r \in Letters \ slipped :
    letter[r].status \in Refusals /\ letter[r].resolved = Never =>
      \A m \in CarriedIn(letter, r) :
        letter[r].retried >= letter[m].sent \/ noting[m] \in {"sent", "pending"}

FactsInv ==
  /\ FactsTypeOK /\ RowsFit /\ RefusalFits /\ FactsInAnyOrder /\ RowsNoted /\ SendsAnswer

LEMMA FactsTypes ==
    FactsTypeOK <=>
      /\ letter \in [Letters -> LetterRow] /\ refusing.of \in Letters \cup {Never}
      /\ noting \in [Letters -> {"done", "sent", "clear", "pending"}]
      /\ instant \in Instants /\ slipped \subseteq Letters
  BY DEF FactsTypeOK, LetterRow

\* While the lock is free no row is about to be written.
LEMMA NobodyRefuses == NoRefusal.of = Never /\ \A m \in Letters : Lasting(NoRefusal, m)
  BY InstantsAre DEF NoRefusal, Lasting

LEMMA AfterIsInstants ==
    ASSUME NEW f \in [Letters -> LetterRow], NEW senders \in SUBSET Letters, NEW at \in Whens
    PROVE  AfterIn(f, senders, at) \in SUBSET Instants
  <1>1. \A m \in Letters : f[m].delivered \in Whens
    BY DEF LetterRow
  <1>2. ASSUME NEW m \in senders, f[m].delivered > at
        PROVE  f[m].delivered \in Instants
    BY <1>1, <1>2, InstantsAre
  <1> QED BY <1>2 DEF AfterIn

\* Rows that say the same of one refusal: no delivery is new, and each is of what it was.
SameDeliveries(f, g, r) ==
  /\ g[r].kind = f[r].kind /\ g[r].created = f[r].created
  /\ \A m \in Others(r) :
       /\ g[m].delivered = f[m].delivered
       /\ f[m].delivered # Never => g[m].kind = f[m].kind /\ g[m].sent = f[m].sent

LEMMA SameTold ==
    ASSUME NEW f \in [Letters -> LetterRow], NEW g \in [Letters -> LetterRow], NEW r \in Letters,
           NEW row \in LetterRow, SameDeliveries(f, g, r), RowTold(f, r, row)
    PROVE  RowTold(g, r, row)
  <1> DEFINE t == row.rejected
  <1>1. t \in Nat /\ \A m \in Letters : f[m].delivered \in Nat /\ (f[m].delivered > t => f[m].delivered # Never)
    BY InstantsAre DEF LetterRow
  <1>2. \A m \in Others(r) : g[m].delivered = f[m].delivered
    BY DEF SameDeliveries
  <1>3. AfterIn(g, Others(r), t) = AfterIn(f, Others(r), t)
    BY <1>2 DEF AfterIn
  <1>4. \A m \in Others(r) : f[m].delivered > t => (m \in CarriedIn(g, r) <=> m \in CarriedIn(f, r))
    BY <1>1 DEF SameDeliveries, CarriedIn, CarriesIn, Others
  <1>5. CarriedIn(f, r) \subseteq Others(r) /\ CarriedIn(g, r) \subseteq Others(r)
    BY DEF CarriedIn
  <1>6. AfterIn(g, CarriedIn(g, r), t) = AfterIn(f, CarriedIn(f, r), t)
    BY <1>2, <1>4, <1>5 DEF AfterIn
  <1> QED BY <1>3, <1>6 DEF RowTold

\* Rows of the same sends.
SameSends(f, g, r) ==
  /\ g[r].kind = f[r].kind /\ g[r].created = f[r].created
  /\ \A m \in Others(r) : /\ g[m].sent = f[m].sent
                          /\ f[m].sent # Never => g[m].kind = f[m].kind

LEMMA SameCarried ==
    ASSUME NEW f, NEW g, NEW r, SameSends(f, g, r)
    PROVE  /\ CarriedIn(g, r) = CarriedIn(f, r)
           /\ \A m \in CarriedIn(f, r) : g[m].sent = f[m].sent
  BY DEF SameSends, CarriedIn, CarriesIn

LEMMA CarriedIsSent ==
    ASSUME NEW f \in [Letters -> LetterRow], NEW r \in Letters, NEW m \in CarriedIn(f, r)
    PROVE  m \in Letters /\ m # r /\ f[m].sent \in Instants /\ f[m].sent # Never
  BY InstantsAre DEF CarriedIn, Others, LetterRow

-----------------------------------------------------------------------------
(* Steps of the letters and of the lock. *)

LEMMA TimePassesKeeps ==
    ASSUME FactsInv, TimePasses
    PROVE  FactsInv'
  <1>1. letter' = letter /\ refusing' = refusing /\ noting' = noting /\ slipped' = slipped
    BY DEF TimePasses
  <1>2. instant' \in Instants
    BY FactsTypes, InstantsAre DEF FactsInv, TimePasses
  <1>3. FactsTypeOK'
    BY <1>1, <1>2, FactsTypes DEF FactsInv, FactsTypeOK
  <1>4. RowsFit' /\ RefusalFits' /\ RowsNoted' /\ SendsAnswer'
    BY <1>1 DEF FactsInv, RowsFit, RefusalFits, RowsNoted, SendsAnswer, Noted, Lasting
  <1>5. FactsInAnyOrder'
    BY <1>1 DEF FactsInv, FactsInAnyOrder, DeliveredAfter, CarriedAgain, Carries
  <1> QED BY <1>3, <1>4, <1>5 DEF FactsInv

LEMMA QueueLetterKeeps ==
    ASSUME FactsInv, NEW m \in Letters, QueueLetter(m)
    PROVE  FactsInv'
  <1>1. PICK kind \in KindsOf(m) :
          letter' = [letter EXCEPT ![m].kind = kind, ![m].status = "PENDING", ![m].created = instant]
    BY DEF QueueLetter
  <1> DEFINE l == [letter[m] EXCEPT !.kind = kind, !.status = "PENDING", !.created = instant]
  <1>2. /\ refusing = NoRefusal /\ refusing' = refusing /\ noting' = noting /\ instant' = instant
        /\ slipped' = slipped /\ letter[m].status = "none"
    BY DEF QueueLetter, LockFree
  <1>3. letter \in [Letters -> LetterRow] /\ letter[m] \in LetterRow /\ instant \in Whens
    BY FactsTypes, InstantsAre DEF FactsInv
  <1>4. kind \in {"confirmation", "number", "other"}
    BY FactsAssumption
  <1>5. /\ l \in LetterRow /\ l.status = "PENDING" /\ l.sent = letter[m].sent
        /\ l.delivered = letter[m].delivered /\ l.laterDelivered = letter[m].laterDelivered
        /\ l.resolved = letter[m].resolved /\ l.retried = letter[m].retried
    BY <1>3, <1>4 DEF LetterRow
  <1>6. letter' = [letter EXCEPT ![m] = l]
    BY <1>1, <1>3
  <1> HIDE DEF l
  <1>7. /\ letter' \in [Letters -> LetterRow] /\ letter'[m] = l
        /\ \A r \in Letters \ {m} : letter'[r] = letter[r]
    BY <1>3, <1>5, <1>6
  <1>8. "PENDING" \notin Refusals /\ "none" \notin Refusals /\ "PENDING" # "BOUNCED"
    BY DEF Refusals
  <1>9. letter[m].sent = Never /\ letter[m].delivered = Never
    BY <1>2 DEF FactsInv, RowsFit, RowFits
  <1>10. FactsTypeOK'
    BY <1>2, <1>7, FactsTypes DEF FactsInv, FactsTypeOK, LetterRow
  <1>11. RowsFit'
    BY <1>2, <1>5, <1>7, <1>8, <1>9 DEF FactsInv, RowsFit, RowFits
  <1>12. RefusalFits'
    BY <1>2 DEF RefusalFits
  <1>13. \A r \in Letters \ {m} : SameDeliveries(letter, letter', r) /\ SameSends(letter, letter', r)
    BY <1>5, <1>7, <1>9 DEF SameDeliveries, SameSends, Others
  <1>14. FactsInAnyOrder'
    <2> SUFFICES ASSUME NEW r \in Letters
                 PROVE  RowTold(letter', r, letter'[r])
      BY ReadOfTheNext
    <2>1. CASE r = m
      BY <1>5, <1>7, <2>1 DEF RowTold
    <2>2. CASE r # m
      BY <1>3, <1>7, <1>13, <2>2, SameTold, ReadOfTheRows DEF FactsInv
    <2> QED BY <2>1, <2>2
  <1>15. RowsNoted' /\ SendsAnswer'
    <2>1. \A r \in Letters \ {m} : /\ CarriedIn(letter', r) = CarriedIn(letter, r)
                                   /\ \A n \in CarriedIn(letter, r) : letter'[n].sent = letter[n].sent
      BY <1>13, SameCarried
    <2>2. \A n : Lasting(refusing', n) <=> Lasting(refusing, n)
      BY <1>2 DEF Lasting
    <2>3. RowsNoted'
      BY <1>5, <1>7, <1>8, <2>1, <2>2 DEF FactsInv, RowsNoted, Noted
    <2>4. SendsAnswer'
      BY <1>2, <1>5, <1>7, <1>8, <2>1 DEF FactsInv, SendsAnswer
    <2> QED BY <2>3, <2>4
  <1> QED BY <1>10, <1>11, <1>12, <1>14, <1>15 DEF FactsInv

LEMMA SendLetterKeeps ==
    ASSUME FactsInv, NEW m \in Letters, SendLetter(m)
    PROVE  FactsInv'
  <1> DEFINE l == [letter[m] EXCEPT !.status = "SENT", !.sent = instant]
  <1>1. /\ refusing' = refusing /\ noting' = [noting EXCEPT ![m] = "sent"] /\ instant' = instant
        /\ slipped' = slipped /\ letter[m].status = "PENDING"
    BY DEF SendLetter
  <1>2. letter \in [Letters -> LetterRow] /\ letter[m] \in LetterRow /\ instant \in Instants
        /\ instant \in Whens /\ noting \in [Letters -> {"done", "sent", "clear", "pending"}]
    BY FactsTypes, InstantsAre DEF FactsInv
  <1>3. /\ l \in LetterRow /\ l.status = "SENT" /\ l.sent = instant /\ l.kind = letter[m].kind
        /\ l.created = letter[m].created
        /\ l.delivered = letter[m].delivered /\ l.laterDelivered = letter[m].laterDelivered
        /\ l.resolved = letter[m].resolved /\ l.retried = letter[m].retried
    BY <1>2 DEF LetterRow
  <1>4. letter' = [letter EXCEPT ![m] = l]
    BY <1>2 DEF SendLetter
  <1> HIDE DEF l
  <1>5. /\ letter' \in [Letters -> LetterRow] /\ letter'[m] = l
        /\ \A r \in Letters \ {m} : letter'[r] = letter[r]
    BY <1>2, <1>3, <1>4
  <1>6. /\ noting' \in [Letters -> {"done", "sent", "clear", "pending"}] /\ noting'[m] = "sent"
        /\ \A r \in Letters \ {m} : noting'[r] = noting[r]
    BY <1>1, <1>2
  <1>7. "PENDING" \notin Refusals /\ "SENT" \notin Refusals /\ "SENT" \notin {"none", "PENDING", "BOUNCED"}
    BY DEF Refusals
  <1>8. letter[m].sent = Never /\ letter[m].delivered = Never /\ instant # Never
    BY <1>1, <1>2, InstantsAre DEF FactsInv, RowsFit, RowFits
  <1>9. FactsTypeOK'
    BY <1>1, <1>5, <1>6, FactsTypes DEF FactsInv, FactsTypeOK, LetterRow
  <1>10. RowsFit'
    BY <1>1, <1>3, <1>5, <1>7, <1>8 DEF FactsInv, RowsFit, RowFits
  <1>11. \A r \in Letters : SameDeliveries(letter, letter', r)
    BY <1>3, <1>5, <1>8 DEF SameDeliveries, Others
  <1>12. \A n : Lasting(refusing', n) <=> Lasting(refusing, n)
    BY <1>1 DEF Lasting
  <1>13. ASSUME NEW r \in Letters, NEW n \in CarriedIn(letter, r)
         PROVE  n \in CarriedIn(letter', r) /\ letter'[n].sent = letter[n].sent /\ n # m
    <2>1. n \in Letters /\ n # r /\ n # m
      BY <1>2, <1>8, <1>13, CarriedIsSent
    <2> QED BY <1>3, <1>5, <1>13, <2>1 DEF CarriedIn, CarriesIn, Others
  <1>14. ASSUME NEW r \in Letters, NEW n \in CarriedIn(letter', r), n # m
         PROVE  n \in CarriedIn(letter, r) /\ letter'[n].sent = letter[n].sent
    <2>1. n \in Letters /\ n # r
      BY <1>5, <1>14, CarriedIsSent
    <2> QED BY <1>3, <1>5, <1>14, <2>1 DEF CarriedIn, CarriesIn, Others
  <1>15. \A r \in Letters : \A row : Noted(refusing, letter, r, row) => Noted(refusing', letter', r, row)
    BY <1>12, <1>13 DEF Noted
  <1>16. FactsInAnyOrder'
    <2> SUFFICES ASSUME NEW r \in Letters
                 PROVE  RowTold(letter', r, letter'[r])
      BY ReadOfTheNext
    <2>1. CASE r = m
      BY <1>3, <1>5, <1>7, <2>1 DEF RowTold
    <2>2. CASE r # m
      BY <1>2, <1>5, <1>11, <2>2, SameTold, ReadOfTheRows DEF FactsInv
    <2> QED BY <2>1, <2>2
  <1>17. RowsNoted'
    <2> SUFFICES ASSUME NEW r \in Letters
                 PROVE  Noted(refusing', letter', r, letter'[r])
      BY DEF RowsNoted
    <2>1. CASE r = m
      BY <1>3, <1>5, <1>7, <2>1 DEF Noted
    <2>2. CASE r # m
      BY <1>5, <1>15, <2>2 DEF FactsInv, RowsNoted
    <2> QED BY <2>1, <2>2
  <1>18. SendsAnswer'
    <2> SUFFICES ASSUME NEW r \in Letters \ slipped, letter'[r].status \in Refusals,
                        letter'[r].resolved = Never, NEW n \in CarriedIn(letter', r), n # m
                 PROVE  letter'[r].retried >= letter'[n].sent \/ noting'[n] \in {"sent", "pending"}
      BY <1>1, <1>6 DEF SendsAnswer
    <2>1. r # m /\ n \in Letters
      BY <1>3, <1>5, <1>7, CarriedIsSent
    <2> QED BY <1>5, <1>6, <1>14, <2>1 DEF FactsInv, SendsAnswer
  <1>19. RefusalFits'
    <2> SUFFICES ASSUME refusing # NoRefusal
                 PROVE  WrittenFits(refusing, letter', noting')
      BY <1>1 DEF RefusalFits
    <2> DEFINE r == refusing.of
               row == refusing.row
    <2>1. /\ r \in Letters /\ row \in LetterRow /\ row.status \in Refusals /\ RowFits(row)
          /\ row.kind = letter[r].kind /\ row.created = letter[r].created
          /\ row.delivered = letter[r].delivered /\ row.sent \in {letter[r].sent, Never}
          /\ RowTold(letter, r, row) /\ Noted(refusing, letter, r, row)
          /\ \A n \in CarriedIn(letter, r) : row.retried >= letter[n].sent \/ noting[n] # "done"
      BY DEF FactsInv, RefusalFits, WrittenFits
    <2> HIDE DEF r, row
    <2>2. /\ row.kind = letter'[r].kind /\ row.created = letter'[r].created
          /\ row.delivered = letter'[r].delivered /\ row.sent \in {letter'[r].sent, Never}
      BY <1>3, <1>5, <1>8, <2>1
    <2>3. RowTold(letter', r, row)
      BY <1>2, <1>5, <1>11, <2>1, SameTold
    <2>4. Noted(refusing, letter', r, row)
      BY <1>1, <1>15, <2>1
    <2>5. ASSUME NEW n \in CarriedIn(letter', r)
          PROVE  row.retried >= letter'[n].sent \/ noting'[n] # "done"
      <3>1. CASE n = m
        BY <1>6, <3>1
      <3>2. CASE n # m
        <4>1. n \in Letters
          BY <1>5, <2>1, <2>5, CarriedIsSent
        <4> QED BY <1>6, <1>14, <2>1, <2>5, <3>2, <4>1
      <3> QED BY <3>1, <3>2
    <2> QED BY <2>1, <2>2, <2>3, <2>4, <2>5 DEF WrittenFits, r, row
  <1> QED BY <1>9, <1>10, <1>16, <1>17, <1>18, <1>19 DEF FactsInv

\* Only how far the sends are changes, and the lock has or is looked at.
LEMMA NotingKeeps ==
    ASSUME FactsInv, NEW m \in Letters, NEW how \in {"done", "clear", "pending"},
           noting' = [noting EXCEPT ![m] = how], noting[m] \in {"sent", "clear"},
           UNCHANGED <<letter, refusing, instant, slipped>>,
           how = "done" => LockFree,
           how # "pending" => \A r \in Letters \ slipped :
             letter[r].status \in Refusals /\ letter[r].resolved = Never /\ m \in CarriedIn(letter, r) =>
               letter[r].retried >= letter[m].sent
    PROVE  FactsInv'
  <1>1. noting \in [Letters -> {"done", "sent", "clear", "pending"}]
    BY FactsTypes DEF FactsInv
  <1>2. /\ noting' \in [Letters -> {"done", "sent", "clear", "pending"}] /\ noting'[m] = how
        /\ \A r \in Letters \ {m} : noting'[r] = noting[r]
    BY <1>1
  <1>3. letter' = letter /\ refusing' = refusing /\ instant' = instant /\ slipped' = slipped
    OBVIOUS
  <1>4. FactsTypeOK'
    BY <1>2, <1>3, FactsTypes DEF FactsInv, FactsTypeOK, LetterRow
  <1>5. RowsFit' /\ RowsNoted'
    BY <1>3 DEF FactsInv, RowsFit, RowsNoted, Noted, Lasting
  <1>6. FactsInAnyOrder'
    BY <1>3, ReadOfTheRows, ReadOfTheNext DEF FactsInv
  <1>7. \A r \in Letters : CarriedIn(letter, r) \subseteq Letters
    BY DEF CarriedIn, Others
  <1>8. SendsAnswer'
    BY <1>2, <1>3, <1>7 DEF FactsInv, SendsAnswer
  <1>9. RefusalFits'
    <2>1. refusing # NoRefusal => how # "done"
      BY DEF LockFree
    <2>2. \A r, row : Noted(refusing', letter', r, row) <=> Noted(refusing, letter, r, row)
      BY <1>3 DEF Noted, Lasting
    <2>3. refusing # NoRefusal => \A n \in CarriedIn(letter, refusing.of) :
            refusing.row.retried >= letter[n].sent \/ noting'[n] # "done"
      BY <1>2, <1>7, <2>1 DEF FactsInv, RefusalFits, WrittenFits
    <2> QED BY <1>3, <2>2, <2>3 DEF FactsInv, RefusalFits, WrittenFits
  <1> QED BY <1>4, <1>5, <1>6, <1>8, <1>9 DEF FactsInv

LEMMA ProbeKeeps ==
    ASSUME FactsInv, NEW m \in Letters, Probe(m)
    PROVE  FactsInv'
  <1> DEFINE how == IF \E r \in Letters : ProbeAnswers(m, r) THEN "pending" ELSE "clear"
  <1>1. /\ noting[m] = "sent" /\ noting' = [noting EXCEPT ![m] = how]
        /\ UNCHANGED <<letter, refusing, instant, slipped>>
    BY DEF Probe
  <1>2. ASSUME how # "pending", NEW r \in Letters, letter[r].status \in Refusals,
               letter[r].resolved = Never, m \in CarriedIn(letter, r)
        PROVE  letter[r].retried >= letter[m].sent
    <2>1. ~ProbeAnswers(m, r)
      BY <1>2
    <2>2. /\ letter[r].retried \in Nat /\ letter[m].sent \in Nat /\ letter[r].created \in Nat
      BY FactsTypes, InstantsAre DEF FactsInv, LetterRow
    <2>3. r # m /\ Carries(m, r) /\ letter[r].created <= letter[m].sent
      BY <1>2, <2>2, ReadOfTheRows DEF CarriedIn, Others
    <2> QED BY <1>2, <2>1, <2>2, <2>3 DEF ProbeAnswers
  <1>3. how \in {"done", "clear", "pending"} /\ how # "done"
    OBVIOUS
  <1> HIDE DEF how
  <1> QED BY <1>1, <1>2, <1>3, NotingKeeps

LEMMA TryLockKeeps ==
    ASSUME FactsInv, NEW m \in Letters, TryLock(m)
    PROVE  FactsInv'
  <1>1. /\ noting[m] = "clear" /\ noting' = [noting EXCEPT ![m] = AfterTheProbe]
        /\ UNCHANGED <<letter, refusing, instant, slipped>>
    BY DEF TryLock
  <1>2. \A r \in Letters \ slipped :
          letter[r].status \in Refusals /\ letter[r].resolved = Never /\ m \in CarriedIn(letter, r) =>
            letter[r].retried >= letter[m].sent
    BY <1>1 DEF FactsInv, SendsAnswer
  <1>3. AfterTheProbe \in {"done", "clear", "pending"} /\ (AfterTheProbe = "done" => LockFree)
    BY DEF AfterTheProbe
  <1> QED BY <1>1, <1>2, <1>3, NotingKeeps

LEMMA NoteSentAgainKeeps ==
    ASSUME FactsInv, NEW m \in Letters, NoteSentAgain(m)
    PROVE  FactsInv'
  <1> DEFINE l(r) == [letter[r] EXCEPT !.retried = letter[m].sent,
                                       !.resolved = IF letter[r].cause = "account"
                                                    THEN Earlier(@, letter[m].sent) ELSE @]
  <1>1. /\ refusing = NoRefusal /\ noting[m] = "pending"
        /\ letter' = [r \in Letters |-> IF ~ProbeAnswers(m, r) THEN letter[r] ELSE l(r)]
        /\ noting' = [noting EXCEPT ![m] = "done"]
        /\ refusing' = refusing /\ instant' = instant /\ slipped' = slipped
    BY DEF NoteSentAgain, LockFree
  <1>2. /\ letter \in [Letters -> LetterRow] /\ noting \in [Letters -> {"done", "sent", "clear", "pending"}]
        /\ \A r \in Letters : /\ letter[r] \in LetterRow /\ letter[r].sent \in Nat /\ letter[r].retried \in Nat
                              /\ letter[r].created \in Nat /\ letter[r].sent \in Whens
                              /\ letter[r].resolved \in Whens
    BY FactsTypes, InstantsAre DEF FactsInv, LetterRow
  <1>3. ASSUME NEW r \in Letters
        PROVE  /\ l(r) \in LetterRow /\ l(r).retried = letter[m].sent
               /\ l(r).resolved = IF letter[r].cause = "account"
                                  THEN Earlier(letter[r].resolved, letter[m].sent) ELSE letter[r].resolved
               /\ l(r).kind = letter[r].kind /\ l(r).status = letter[r].status
               /\ l(r).cause = letter[r].cause /\ l(r).created = letter[r].created
               /\ l(r).sent = letter[r].sent /\ l(r).rejected = letter[r].rejected
               /\ l(r).delivered = letter[r].delivered /\ l(r).laterDelivered = letter[r].laterDelivered
    <2>1. Earlier(letter[r].resolved, letter[m].sent) \in Whens
      BY <1>2, EarlierIs
    <2> QED BY <1>2, <2>1 DEF LetterRow
  <1>4. \A r \in Letters : letter'[r] = IF ProbeAnswers(m, r) THEN l(r) ELSE letter[r]
    BY <1>1
  <1> HIDE DEF l
  <1>5. /\ letter' \in [Letters -> LetterRow]
        /\ \A r \in Letters :
             /\ letter'[r].kind = letter[r].kind /\ letter'[r].status = letter[r].status
             /\ letter'[r].cause = letter[r].cause /\ letter'[r].created = letter[r].created
             /\ letter'[r].sent = letter[r].sent /\ letter'[r].rejected = letter[r].rejected
             /\ letter'[r].delivered = letter[r].delivered
             /\ letter'[r].laterDelivered = letter[r].laterDelivered
             /\ letter[r].cause # "account" => letter'[r].resolved = letter[r].resolved
             /\ ~ProbeAnswers(m, r) => letter'[r] = letter[r]
             /\ ProbeAnswers(m, r) => letter'[r].retried = letter[m].sent
    <2>1. \A r \in Letters : letter'[r] \in LetterRow
      BY <1>2, <1>3, <1>4
    <2>2. letter' \in [Letters -> LetterRow]
      BY <1>1, <2>1
    <2> QED BY <1>3, <1>4, <2>2
  <1>6. /\ noting' \in [Letters -> {"done", "sent", "clear", "pending"}] /\ noting'[m] = "done"
        /\ \A r \in Letters \ {m} : noting'[r] = noting[r]
    BY <1>1, <1>2
  <1>7. ASSUME NEW r \in Letters, ProbeAnswers(m, r)
        PROVE  /\ letter[r].status \in Refusals /\ letter[r].resolved = Never
               /\ m \in CarriedIn(letter, r) /\ letter[r].retried < letter[m].sent
               /\ letter[m].sent # Never
               /\ letter[r].cause = "account" => letter'[r].resolved # Never
    <2>1. /\ letter[r].status \in Refusals /\ letter[r].resolved = Never /\ r # m /\ Carries(m, r)
          /\ letter[r].created <= letter[m].sent /\ letter[r].retried < letter[m].sent
      BY <1>7 DEF ProbeAnswers
    <2>2. letter[m].sent # Never
      BY <1>2, <2>1, InstantsAre
    <2>3. m \in CarriedIn(letter, r)
      BY <1>2, <2>1, <2>2, ReadOfTheRows DEF CarriedIn, Others
    <2>4. Earlier(letter[r].resolved, letter[m].sent) = letter[m].sent
      BY <1>2, <2>1, EarlierIs
    <2>5. letter[r].cause = "account" => letter'[r].resolved = letter[m].sent
      BY <1>3, <1>4, <1>7, <2>4
    <2> QED BY <2>1, <2>2, <2>3, <2>5
  <1>8. ASSUME NEW r \in Letters
        PROVE  SameDeliveries(letter, letter', r) /\ SameSends(letter, letter', r)
    BY <1>5 DEF SameDeliveries, SameSends, Others
  <1>9. \A r \in Letters : /\ CarriedIn(letter', r) = CarriedIn(letter, r)
                           /\ \A n \in CarriedIn(letter, r) : letter'[n].sent = letter[n].sent
    BY <1>8, SameCarried
  <1>10. FactsTypeOK'
    BY <1>1, <1>5, <1>6, FactsTypes DEF FactsInv, FactsTypeOK, LetterRow
  <1>11. RowsFit'
    <2> SUFFICES ASSUME NEW r \in Letters
                 PROVE  RowFits(letter'[r])
      BY DEF RowsFit
    <2>1. RowFits(letter[r])
      BY DEF FactsInv, RowsFit
    <2>2. CASE ~ProbeAnswers(m, r)
      BY <1>5, <2>1, <2>2
    <2>3. CASE ProbeAnswers(m, r)
      BY <1>5, <1>7, <2>1, <2>3 DEF RowFits
    <2> QED BY <2>2, <2>3
  <1>12. RefusalFits'
    BY <1>1 DEF RefusalFits
  <1>13. FactsInAnyOrder'
    <2> SUFFICES ASSUME NEW r \in Letters
                 PROVE  RowTold(letter', r, letter'[r])
      BY ReadOfTheNext
    <2>1. RowTold(letter', r, letter[r])
      BY <1>2, <1>5, <1>8, SameTold, ReadOfTheRows DEF FactsInv
    <2> QED BY <1>5, <2>1 DEF RowTold
  <1>14. RowsNoted'
    <2> SUFFICES ASSUME NEW r \in Letters
                 PROVE  Noted(refusing', letter', r, letter'[r])
      BY DEF RowsNoted
    <2>1. Noted(refusing, letter, r, letter[r])
      BY DEF FactsInv, RowsNoted
    <2>2. \A n \in CarriedIn(letter, r) : Lasting(refusing', n)
      <3>1. CarriedIn(letter, r) \subseteq Letters
        BY DEF CarriedIn, Others
      <3> QED BY <1>1, <3>1, NobodyRefuses
    <2>3. CASE ~ProbeAnswers(m, r)
      BY <1>5, <1>9, <2>1, <2>2, <2>3 DEF Noted
    <2>4. CASE ProbeAnswers(m, r)
      BY <1>5, <1>7, <1>9, <2>2, <2>4 DEF Noted
    <2> QED BY <2>3, <2>4
  <1>15. SendsAnswer'
    <2> SUFFICES ASSUME NEW r \in Letters \ slipped, letter'[r].status \in Refusals,
                        letter'[r].resolved = Never, NEW n \in CarriedIn(letter, r)
                 PROVE  letter'[r].retried >= letter[n].sent \/ noting'[n] \in {"sent", "pending"}
      BY <1>1, <1>9 DEF SendsAnswer
    <2>1. n \in Letters /\ letter[n].sent \in Nat /\ letter[r].retried \in Nat /\ letter[m].sent \in Nat
      BY <1>2, CarriedIsSent
    <2>2. CASE ProbeAnswers(m, r)
      <3>1. letter[r].retried >= letter[n].sent \/ noting[n] \in {"sent", "pending"}
        BY <1>7, <2>2 DEF FactsInv, SendsAnswer
      <3> QED BY <1>5, <1>6, <1>7, <2>1, <2>2, <3>1
    <2>3. CASE ~ProbeAnswers(m, r)
      <3>1. /\ letter'[r] = letter[r]
            /\ letter[r].retried >= letter[n].sent \/ noting[n] \in {"sent", "pending"}
        BY <1>5, <2>3 DEF FactsInv, SendsAnswer
      <3>2. CASE n # m
        BY <1>6, <2>1, <3>1, <3>2
      <3>3. CASE n = m
        <4>1. r # m /\ Carries(m, r) /\ letter[r].created <= letter[m].sent
          BY <1>2, <3>3, ReadOfTheRows DEF CarriedIn, Others
        <4>2. ~(letter[r].retried < letter[m].sent)
          BY <2>3, <3>1, <4>1 DEF ProbeAnswers
        <4> QED BY <2>1, <3>1, <3>3, <4>2
      <3> QED BY <3>2, <3>3
    <2> QED BY <2>2, <2>3
  <1> QED BY <1>10, <1>11, <1>12, <1>13, <1>14, <1>15 DEF FactsInv

LEMMA CommitRefusalKeeps ==
    ASSUME FactsInv, CommitRefusal
    PROVE  FactsInv'
  <1> DEFINE o == refusing.of
             row == refusing.row
  <1>1. /\ refusing # NoRefusal /\ refusing' = NoRefusal /\ noting' = noting /\ instant' = instant
        /\ letter' = [letter EXCEPT ![o] = row]
        /\ slipped' = IF \E m \in Letters : noting[m] = "clear" THEN slipped \cup {o} ELSE slipped
    BY DEF CommitRefusal, LockFree
  <1>2. /\ letter \in [Letters -> LetterRow] /\ slipped \subseteq Letters
        /\ noting \in [Letters -> {"done", "sent", "clear", "pending"}]
    BY FactsTypes DEF FactsInv
  <1>3. /\ o \in Letters /\ row \in LetterRow /\ row.status \in Refusals /\ RowFits(row)
        /\ row.kind = letter[o].kind /\ row.created = letter[o].created
        /\ row.delivered = letter[o].delivered /\ row.sent \in {letter[o].sent, Never}
        /\ RowTold(letter, o, row) /\ Noted(refusing, letter, o, row)
        /\ \A m \in CarriedIn(letter, o) : row.retried >= letter[m].sent \/ noting[m] # "done"
    BY <1>1 DEF FactsInv, RefusalFits, WrittenFits
  <1>4. \A m : Lasting(refusing, m) <=> (o = m => row.sent # Never)
    BY DEF Lasting
  <1> HIDE DEF o, row
  <1>5. /\ letter' \in [Letters -> LetterRow] /\ letter'[o] = row
        /\ \A r \in Letters \ {o} : letter'[r] = letter[r]
    BY <1>1, <1>2, <1>3
  <1>6. FactsTypeOK'
    <2>1. slipped' \subseteq Letters
      BY <1>1, <1>2, <1>3
    <2>2. refusing'.of = Never
      BY <1>1 DEF NoRefusal
    <2> QED BY <1>1, <1>5, <2>1, <2>2, FactsTypes DEF FactsInv, FactsTypeOK, LetterRow
  <1>7. RowsFit' /\ RefusalFits'
    BY <1>1, <1>3, <1>5 DEF FactsInv, RowsFit, RefusalFits
  <1>8. row.delivered # Never => row.sent = letter[o].sent
    BY <1>3 DEF RowFits
  <1>9. \A r \in Letters : SameDeliveries(letter, letter', r)
    BY <1>3, <1>5, <1>8 DEF SameDeliveries, Others
  <1>10. \A r \in Letters : letter'[r].kind = letter[r].kind /\ letter'[r].created = letter[r].created
    BY <1>3, <1>5
  <1>11. ASSUME NEW r \in Letters, NEW n \in CarriedIn(letter', r)
         PROVE  n \in CarriedIn(letter, r) /\ letter'[n].sent = letter[n].sent
    <2>1. n \in Letters /\ letter'[n].sent # Never
      BY <1>5, CarriedIsSent
    <2>2. letter'[n].sent = letter[n].sent
      BY <1>3, <1>5, <2>1
    <2> QED BY <1>10, <2>1, <2>2 DEF CarriedIn, CarriesIn, Others
  <1>12. ASSUME NEW r \in Letters, NEW n \in CarriedIn(letter, r), Lasting(refusing, n)
         PROVE  n \in CarriedIn(letter', r) /\ letter'[n].sent = letter[n].sent
    <2>1. n \in Letters /\ letter[n].sent # Never
      BY <1>2, CarriedIsSent
    <2>2. letter'[n].sent = letter[n].sent
      BY <1>3, <1>4, <1>5, <1>12, <2>1
    <2> QED BY <1>10, <2>1, <2>2 DEF CarriedIn, CarriesIn, Others
  <1>13. \A n \in Letters : Lasting(refusing', n)
    BY <1>1, NobodyRefuses
  <1>14. \A r \in Letters : \A x : Noted(refusing, letter, r, x) => Noted(refusing', letter', r, x)
    <2>1. \A r \in Letters : CarriedIn(letter', r) \subseteq Letters
      BY DEF CarriedIn, Others
    <2> QED BY <1>12, <1>13, <2>1 DEF Noted
  <1>15. FactsInAnyOrder'
    <2> SUFFICES ASSUME NEW r \in Letters
                 PROVE  RowTold(letter', r, letter'[r])
      BY ReadOfTheNext
    <2>1. CASE r = o
      BY <1>2, <1>3, <1>5, <1>9, <2>1, SameTold
    <2>2. CASE r # o
      BY <1>2, <1>5, <1>9, <2>2, SameTold, ReadOfTheRows DEF FactsInv
    <2> QED BY <2>1, <2>2
  <1>16. RowsNoted'
    BY <1>3, <1>5, <1>14 DEF FactsInv, RowsNoted
  <1>17. SendsAnswer'
    <2> SUFFICES ASSUME NEW r \in Letters \ slipped', letter'[r].status \in Refusals,
                        letter'[r].resolved = Never, NEW n \in CarriedIn(letter', r)
                 PROVE  letter'[r].retried >= letter'[n].sent \/ noting[n] \in {"sent", "pending"}
      BY <1>1 DEF SendsAnswer
    <2>1. n \in CarriedIn(letter, r) /\ letter'[n].sent = letter[n].sent /\ n \in Letters
      BY <1>2, <1>11, CarriedIsSent
    <2>2. CASE r = o
      <3>1. noting[n] # "clear"
        BY <1>1, <2>1, <2>2
      <3> QED BY <1>2, <1>3, <1>5, <2>1, <2>2, <3>1
    <2>3. CASE r # o
      <3>1. r \notin slipped
        BY <1>1
      <3> QED BY <1>5, <2>1, <2>3, <3>1 DEF FactsInv, SendsAnswer
    <2> QED BY <2>2, <2>3
  <1> QED BY <1>6, <1>7, <1>15, <1>16, <1>17 DEF FactsInv

-----------------------------------------------------------------------------
(* A delivery, and a refusal written. *)

\* One delivery more among the senders of a row: of one of them, and after the row was refused.
LEMMA OneMoreDelivered ==
    ASSUME NEW f \in [Letters -> LetterRow], NEW g \in [Letters -> LetterRow], NEW m \in Letters,
           NEW at \in Instants, f[m].delivered \in {Never, at}, g[m].delivered = at,
           \A n \in Letters \ {m} : g[n].delivered = f[n].delivered,
           NEW senders \in SUBSET Letters, NEW t \in Whens
    PROVE  /\ m \in senders /\ t < at =>
                AfterIn(g, senders, t) = AfterIn(f, senders, t) \cup {at}
           /\ ~(m \in senders /\ t < at) => AfterIn(g, senders, t) = AfterIn(f, senders, t)
  <1>1. at \in Nat /\ t \in Nat /\ Never = 0 /\ (t < at <=> at > t)
    BY InstantsAre
  <1>2. ASSUME m \notin senders
        PROVE  AfterIn(g, senders, t) = AfterIn(f, senders, t)
    <2>1. \A n \in senders : g[n].delivered = f[n].delivered
      BY <1>2
    <2> QED BY <2>1 DEF AfterIn
  <1>3. ASSUME m \in senders, ~(t < at)
        PROVE  AfterIn(g, senders, t) = AfterIn(f, senders, t)
    <2>1. ~(f[m].delivered > t) /\ ~(g[m].delivered > t)
      BY <1>1, <1>3
    <2>2. \A n \in senders : g[n].delivered > t \/ f[n].delivered > t =>
                               g[n].delivered = f[n].delivered
      BY <2>1
    <2>3. {n \in senders : g[n].delivered > t} = {n \in senders : f[n].delivered > t}
      BY <2>2
    <2> QED BY <2>2, <2>3 DEF AfterIn
  <1>4. ASSUME m \in senders, t < at
        PROVE  AfterIn(g, senders, t) = AfterIn(f, senders, t) \cup {at}
    <2> DEFINE F == {n \in senders : f[n].delivered > t}
               G == {n \in senders : g[n].delivered > t}
    <2>1. G = F \cup {m}
      BY <1>1, <1>4
    <2>2. m \in F => f[m].delivered = at
      BY <1>1
    <2>3. \A n \in F \cup {m} : n # m => g[n].delivered = f[n].delivered
      OBVIOUS
    <2>4. {g[n].delivered : n \in F \cup {m}} = {f[n].delivered : n \in F} \cup {at}
      BY <2>2, <2>3
    <2> QED BY <2>1, <2>4 DEF AfterIn
  <1> QED BY <1>2, <1>3, <1>4

\* A row with two of its instants written.
RowWith(row, one, two) == [row EXCEPT !.laterDelivered = one, !.resolved = two]

LEMMA RowSettled ==
    ASSUME NEW row \in LetterRow, NEW one \in Whens, NEW two \in Whens
    PROVE  LET x == RowWith(row, one, two)
           IN  /\ x \in LetterRow /\ x.laterDelivered = one /\ x.resolved = two
               /\ x.kind = row.kind /\ x.status = row.status /\ x.cause = row.cause
               /\ x.created = row.created /\ x.sent = row.sent /\ x.rejected = row.rejected
               /\ x.retried = row.retried /\ x.delivered = row.delivered
  <1> DEFINE x == RowWith(row, one, two)
  <1>1. x \in LetterRow
    BY DEF LetterRow, RowWith
  <1> QED BY <1>1 DEF LetterRow, RowWith

LEMMA RowDelivered ==
    ASSUME NEW row \in LetterRow, NEW at \in Whens, NEW x, x = [row EXCEPT !.delivered = at]
    PROVE  /\ x \in LetterRow /\ x.delivered = at
           /\ x.kind = row.kind /\ x.status = row.status /\ x.cause = row.cause
           /\ x.created = row.created /\ x.sent = row.sent /\ x.rejected = row.rejected
           /\ x.retried = row.retried /\ x.laterDelivered = row.laterDelivered
           /\ x.resolved = row.resolved
  <1>1. x \in LetterRow
    BY DEF LetterRow
  <1> QED BY <1>1 DEF LetterRow

LEMMA DeliveredKeeps ==
    ASSUME FactsInv, NEW m \in Letters, NEW at \in Since(m), Delivered(m, at)
    PROVE  FactsInv'
  <1> DEFINE earlier(r) == r # m /\ letter[r].status = "BOUNCED" /\ letter[r].rejected < at
             later(r) == IF earlier(r) /\ letter[r].cause # "account"
                         THEN Earlier(letter[r].laterDelivered, at) ELSE letter[r].laterDelivered
             over(r) == IF earlier(r) /\ Carries(m, r) /\ letter[r].created <= letter[m].sent
                        THEN Earlier(letter[r].resolved, at) ELSE letter[r].resolved
  <1>1. /\ refusing = NoRefusal /\ refusing' = refusing /\ noting' = noting /\ instant' = instant
        /\ slipped' = slipped /\ letter[m].delivered \in {Never, at}
        /\ letter' = [[r \in Letters |-> SettledDelivery(r, m, at)] EXCEPT
                        ![m].delivered = IF @ = Never THEN at ELSE @]
    BY DEF Delivered, LockFree
  <1>2. /\ letter \in [Letters -> LetterRow]
        /\ \A r \in Letters : /\ letter[r] \in LetterRow /\ letter[r].laterDelivered \in Whens
                              /\ letter[r].resolved \in Whens /\ letter[r].rejected \in Whens
                              /\ letter[r].sent \in Nat /\ letter[r].created \in Nat
    BY FactsTypes, InstantsAre DEF FactsInv, LetterRow
  <1>3. at \in Instants /\ at \in Whens /\ at # Never /\ letter[m].sent # Never /\ letter[m].sent \in Instants
    <2>1. letter[m].sent # Never /\ at \in letter[m].sent..instant
      BY DEF Since
    <2>2. instant \in Instants /\ letter[m].sent \in Whens
      BY FactsTypes DEF FactsInv, LetterRow
    <2> QED BY <2>1, <2>2, InstantsAre
  <1>4. \A r \in Letters :
          /\ later(r) \in Whens /\ over(r) \in Whens
          /\ over(r) = Never => letter[r].resolved = Never
    <2>1. \A r \in Letters : Earlier(letter[r].resolved, at) # Never
      BY <1>2, <1>3, EarlierIs
    <2>2. \A r \in Letters : /\ Earlier(letter[r].laterDelivered, at) \in Whens
                             /\ Earlier(letter[r].resolved, at) \in Whens
      BY <1>2, <1>3, EarlierIs
    <2> QED BY <1>2, <2>1, <2>2
  <1>5. /\ letter' \in [Letters -> LetterRow]
        /\ \A r \in Letters :
             /\ letter'[r].kind = letter[r].kind /\ letter'[r].status = letter[r].status
             /\ letter'[r].cause = letter[r].cause /\ letter'[r].created = letter[r].created
             /\ letter'[r].sent = letter[r].sent /\ letter'[r].rejected = letter[r].rejected
             /\ letter'[r].retried = letter[r].retried
             /\ letter'[r].laterDelivered = later(r) /\ letter'[r].resolved = over(r)
             /\ r # m => letter'[r].delivered = letter[r].delivered
        /\ letter'[m].delivered = at
    <2> DEFINE s(r) == RowWith(letter[r], later(r), over(r))
               d == [s(m) EXCEPT !.delivered = at]
    <2>1. \A r \in Letters : SettledDelivery(r, m, at) = s(r)
      BY DEF SettledDelivery, RowWith
    <2> HIDE DEF later, over
    <2>2. \A r \in Letters :
            /\ s(r) \in LetterRow /\ s(r).kind = letter[r].kind /\ s(r).status = letter[r].status
            /\ s(r).cause = letter[r].cause /\ s(r).created = letter[r].created
            /\ s(r).sent = letter[r].sent /\ s(r).rejected = letter[r].rejected
            /\ s(r).retried = letter[r].retried /\ s(r).delivered = letter[r].delivered
            /\ s(r).laterDelivered = later(r) /\ s(r).resolved = over(r)
      BY <1>2, <1>4, RowSettled
    <2> HIDE DEF s
    <2>3. /\ d \in LetterRow /\ d.kind = s(m).kind /\ d.status = s(m).status
          /\ d.cause = s(m).cause /\ d.created = s(m).created
          /\ d.sent = s(m).sent /\ d.rejected = s(m).rejected
          /\ d.retried = s(m).retried /\ d.delivered = at
          /\ d.laterDelivered = s(m).laterDelivered /\ d.resolved = s(m).resolved
      BY <1>3, <2>2, RowDelivered
    <2>4. letter' = [[r \in Letters |-> s(r)] EXCEPT ![m] = d]
      <3>1. [r \in Letters |-> SettledDelivery(r, m, at)] = [r \in Letters |-> s(r)]
        BY <2>1
      <3>2. d = [s(m) EXCEPT !.delivered = IF letter[m].delivered = Never THEN at ELSE letter[m].delivered]
        BY <1>1
      <3>3. s(m).delivered = letter[m].delivered
        BY <2>2
      <3> HIDE DEF d
      <3> QED BY <1>1, <3>1, <3>2, <3>3
    <2> HIDE DEF d
    <2>5. letter'[m] = d /\ \A r \in Letters \ {m} : letter'[r] = s(r)
      BY <2>4
    <2>6. letter' \in [Letters -> LetterRow]
      BY <2>2, <2>3, <2>4
    <2> QED BY <2>2, <2>3, <2>5, <2>6
  <1>6. \A r \in Letters : SameSends(letter, letter', r)
    BY <1>5 DEF SameSends, Others
  <1>7. \A r \in Letters : /\ CarriedIn(letter', r) = CarriedIn(letter, r)
                           /\ \A n \in CarriedIn(letter, r) : letter'[n].sent = letter[n].sent
    BY <1>6, SameCarried
  <1>8. FactsTypeOK'
    BY <1>1, <1>5, FactsTypes DEF FactsInv, FactsTypeOK, LetterRow
  <1>9. RefusalFits'
    BY <1>1 DEF RefusalFits
  <1>10. RowsFit'
    <2> SUFFICES ASSUME NEW r \in Letters
                 PROVE  RowFits(letter'[r])
      BY DEF RowsFit
    <2>1. RowFits(letter[r])
      BY DEF FactsInv, RowsFit
    <2>2. letter[r].status \notin Refusals => later(r) = letter[r].laterDelivered /\ over(r) = letter[r].resolved
      BY DEF Refusals
    <2> QED BY <1>3, <1>5, <2>1, <2>2 DEF RowFits
  <1>11. FactsInAnyOrder'
    <2> SUFFICES ASSUME NEW r \in Letters, letter[r].status = "BOUNCED", letter[r].cause = "address"
                 PROVE  /\ later(r) = Soonest(AfterIn(letter', Others(r), letter[r].rejected))
                        /\ over(r) = Soonest(AfterIn(letter', CarriedIn(letter, r), letter[r].rejected))
      BY <1>5, <1>7, ReadOfTheNext DEF RowTold
    <2> DEFINE t == letter[r].rejected
               A == AfterIn(letter, Others(r), t)
               C == AfterIn(letter, CarriedIn(letter, r), t)
    <2>1. letter[r].laterDelivered = Soonest(A) /\ letter[r].resolved = Soonest(C)
      BY ReadOfTheRows DEF FactsInv, RowTold
    <2>2. Others(r) \in SUBSET Letters /\ CarriedIn(letter, r) \in SUBSET Letters /\ t \in Whens
      BY <1>2 DEF Others, CarriedIn
    <2>3. A \in SUBSET Instants /\ C \in SUBSET Instants
      BY <1>2, <2>2, AfterIsInstants
    <2>4. \A n \in Letters \ {m} : letter'[n].delivered = letter[n].delivered
      BY <1>5
    <2>5. /\ letter'[m].delivered = at /\ letter' \in [Letters -> LetterRow]
          /\ letter[m].delivered \in {Never, at} /\ letter \in [Letters -> LetterRow] /\ at \in Instants
      BY <1>1, <1>2, <1>3, <1>5
    <2>6. /\ m \in Others(r) /\ t < at => AfterIn(letter', Others(r), t) = A \cup {at}
          /\ ~(m \in Others(r) /\ t < at) => AfterIn(letter', Others(r), t) = A
      BY <2>2, <2>4, <2>5, OneMoreDelivered
    <2>7. /\ m \in CarriedIn(letter, r) /\ t < at =>
               AfterIn(letter', CarriedIn(letter, r), t) = C \cup {at}
          /\ ~(m \in CarriedIn(letter, r) /\ t < at) =>
               AfterIn(letter', CarriedIn(letter, r), t) = C
      BY <2>2, <2>4, <2>5, OneMoreDelivered
    <2>8. m \in Others(r) <=> r # m
      BY DEF Others
    <2>9. m \in CarriedIn(letter, r) <=> r # m /\ Carries(m, r) /\ letter[r].created <= letter[m].sent
      BY <1>2, <1>3, <2>8, ReadOfTheRows DEF CarriedIn
    <2>10. earlier(r) <=> r # m /\ t < at
      OBVIOUS
    <2> HIDE DEF A, C, t, earlier
    <2>11. Earlier(Soonest(A), at) = Soonest(A \cup {at}) /\ Earlier(Soonest(C), at) = Soonest(C \cup {at})
      BY <1>3, <2>3, SoonestAdds
    <2>12. later(r) = Soonest(AfterIn(letter', Others(r), t))
      BY <2>1, <2>6, <2>8, <2>10, <2>11
    <2>13. over(r) = Soonest(AfterIn(letter', CarriedIn(letter, r), t))
      BY <2>1, <2>7, <2>9, <2>10, <2>11
    <2> QED BY <2>12, <2>13 DEF t
  <1>12. RowsNoted'
    <2> SUFFICES ASSUME NEW r \in Letters
                 PROVE  Noted(refusing', letter', r, letter'[r])
      BY DEF RowsNoted
    <2>1. Noted(refusing, letter, r, letter[r])
      BY DEF FactsInv, RowsNoted
    <2>2. /\ letter'[r].status = letter[r].status /\ letter'[r].cause = letter[r].cause
          /\ letter'[r].retried = letter[r].retried
          /\ letter'[r].resolved = Never => letter[r].resolved = Never
      <3> HIDE DEF later, over
      <3> QED BY <1>4, <1>5
    <2> QED BY <1>1, <1>7, <2>1, <2>2 DEF Noted
  <1>13. SendsAnswer'
    <2> HIDE DEF later, over
    <2> QED BY <1>1, <1>4, <1>5, <1>7 DEF FactsInv, SendsAnswer
  <1> QED BY <1>8, <1>9, <1>10, <1>11, <1>12, <1>13 DEF FactsInv

\* settleRejection: the row says what the others already say of it.
LEMMA RefuseKeeps ==
    ASSUME FactsInv, NEW r \in Letters, NEW status \in Refusals,
           NEW cause \in {"address", "account", "complained"}, NEW at \in Instants,
           Refuse(r, status, cause, at),
           status = "BOUNCED" =>
             letter[r].status \notin Refusals \/ (letter[r].status = "BOUNCED" /\ letter[r].cause = cause),
           status = "BOUNCED" /\ cause # "address" => letter[r].sent = Never
    PROVE  FactsInv'
  <1> DEFINE base == RefusedRow(r, status, cause, at)
             row == SettledRejection(r, base)
             old == letter[r]
             rejected == IF old.rejected = Never THEN at ELSE old.rejected
             complaint == status = "COMPLAINED"
             account == cause = "account"
             carried == {letter[m].sent : m \in CarriedAgain(r)}
             answered == (IF complaint THEN {} ELSE DeliveredAfter(CarriedAgain(r), rejected))
                           \cup (IF account THEN carried ELSE {})
             works == IF account \/ complaint THEN {} ELSE DeliveredAfter(Others(r), rejected)
             later == Earlier(old.laterDelivered, Soonest(works))
             over == Earlier(old.resolved, Soonest(answered))
             again == IF carried = {} THEN old.retried ELSE Latest(carried)
  <1>1. /\ refusing = NoRefusal /\ refusing' = [of |-> r, row |-> row]
        /\ letter' = letter /\ noting' = noting /\ instant' = instant /\ slipped' = slipped
    BY DEF Refuse, LockFree
  <1>2. /\ letter \in [Letters -> LetterRow] /\ old \in LetterRow /\ at \in Whens /\ at # Never
        /\ old.rejected \in Whens /\ old.laterDelivered \in Whens /\ old.resolved \in Whens
        /\ old.retried \in Whens /\ RowFits(old)
    BY FactsTypes, InstantsAre DEF FactsInv, LetterRow, RowsFit
  <1>3. rejected \in Whens /\ rejected # Never
    BY <1>2
  <1>4. /\ base \in LetterRow /\ base.status = status /\ base.cause = cause /\ base.rejected = rejected
        /\ base.kind = old.kind /\ base.created = old.created /\ base.sent = old.sent
        /\ base.delivered = old.delivered /\ base.laterDelivered = old.laterDelivered
        /\ base.resolved = old.resolved /\ base.retried = old.retried
    <2>1. base = [old EXCEPT !.status = status, !.cause = cause, !.rejected = rejected]
      BY DEF RefusedRow
    <2> HIDE DEF rejected, base
    <2> QED BY <1>2, <1>3, <2>1 DEF LetterRow
  <1> HIDE DEF base, rejected
  <1>5. row = [base EXCEPT !.laterDelivered = later, !.resolved = over, !.retried = again]
    BY <1>4 DEF SettledRejection
  <1>6. CarriedAgain(r) = CarriedIn(letter, r) /\ CarriedIn(letter, r) \in SUBSET Letters
        /\ Others(r) \in SUBSET Letters
    BY ReadOfTheRows DEF CarriedIn, Others
  <1>7. carried \in SUBSET Instants
    BY <1>2, <1>6, CarriedIsSent
  <1>8. answered \in SUBSET Instants /\ works \in SUBSET Instants
    BY <1>2, <1>3, <1>6, <1>7, AfterIsInstants, ReadOfTheRows
  <1>9. Soonest(works) \in Whens /\ Soonest(answered) \in Whens
    <2> HIDE DEF works, answered
    <2> QED BY <1>8, SoonestIs
  <1>10. later \in Whens /\ over \in Whens
    <2> HIDE DEF works, answered
    <2> QED BY <1>2, <1>9, EarlierIs
  <1>11. again \in Whens /\ (carried # {} => again \in carried /\ \A x \in carried : again >= x)
    <2> HIDE DEF carried
    <2> QED BY <1>2, <1>7, LatestIs, InstantsAre
  <1>12. /\ row \in LetterRow /\ row.status = status /\ row.cause = cause /\ row.rejected = rejected
         /\ row.kind = old.kind /\ row.created = old.created /\ row.sent = old.sent
         /\ row.delivered = old.delivered /\ row.laterDelivered = later
         /\ row.resolved = over /\ row.retried = again
    <2> HIDE DEF later, over, again, row
    <2> QED BY <1>4, <1>5, <1>10, <1>11 DEF LetterRow
  <1> HIDE DEF row
  <1>13. RowFits(row)
    BY <1>2, <1>3, <1>12 DEF RowFits, Refusals
  <1>14. RowTold(letter, r, row)
    <2> SUFFICES ASSUME status = "BOUNCED", cause = "address"
                 PROVE  /\ later = Soonest(AfterIn(letter, Others(r), rejected))
                        /\ over = Soonest(AfterIn(letter, CarriedIn(letter, r), rejected))
      BY <1>12 DEF RowTold
    <2>1. /\ works = AfterIn(letter, Others(r), rejected)
          /\ answered = AfterIn(letter, CarriedIn(letter, r), rejected)
      BY <1>6, ReadOfTheRows
    <2> HIDE DEF works, answered
    <2>2. CASE old.status \notin Refusals
      <3>1. old.laterDelivered = Never /\ old.resolved = Never
        BY <1>2, <2>2 DEF RowFits
      <3> QED BY <1>2, <1>9, <2>1, <3>1, EarlierIs
    <2>3. CASE old.status = "BOUNCED" /\ old.cause = "address"
      <3>1. rejected = old.rejected
        BY <1>2, <2>3 DEF RowFits, Refusals, rejected
      <3>2. old.laterDelivered = Soonest(works) /\ old.resolved = Soonest(answered)
        BY <2>1, <2>3, <3>1, ReadOfTheRows DEF FactsInv, RowTold
      <3>3. \A x \in Whens : Earlier(x, x) = x
        BY EarlierIs
      <3> QED BY <1>9, <2>1, <3>2, <3>3
    <2> QED BY <2>2, <2>3
  <1>15. refusing'.of = r /\ refusing'.row = row
    BY <1>1
  <1>16. \A m \in CarriedIn(letter, r) : letter[m].sent \in carried /\ Lasting(refusing', m)
    <2>1. \A m \in CarriedIn(letter, r) : m # r
      BY <1>2, CarriedIsSent
    <2> QED BY <1>6, <1>15, <2>1 DEF Lasting
  <1>17. Noted(refusing', letter, r, row)
    <2>1. CASE carried = {}
      <3>1. CarriedIn(letter, r) = {}
        BY <1>16, <2>1
      <3>2. old.retried = Never
        <4>1. Noted(refusing, letter, r, old)
          BY DEF FactsInv, RowsNoted
        <4> QED BY <1>2, <3>1, <4>1 DEF Noted, RowFits
      <3> QED BY <1>12, <2>1, <3>2 DEF Noted
    <2>2. CASE carried # {}
      <3>1. PICK m \in CarriedIn(letter, r) : letter[m].sent = again
        BY <1>6, <1>11, <2>2
      <3>2. account => over # Never
        <4> SUFFICES ASSUME account
                     PROVE  over # Never
          OBVIOUS
        <4>1. answered # {}
          BY <2>2
        <4> HIDE DEF answered
        <4>2. Soonest(answered) \in Instants
          BY <1>8, <4>1, SoonestIs
        <4>3. Soonest(answered) # Never
          BY <4>2, InstantsAre
        <4> QED BY <1>2, <1>9, <4>3, EarlierIs
      <3> QED BY <1>12, <1>16, <3>1, <3>2 DEF Noted
    <2> QED BY <2>1, <2>2
  <1>18. RefusalFits'
    <2>1. \A m \in CarriedIn(letter, r) : row.retried >= letter[m].sent
      BY <1>11, <1>12, <1>16
    <2> QED BY <1>1, <1>12, <1>13, <1>14, <1>15, <1>17, <2>1 DEF RefusalFits, WrittenFits
  <1>19. FactsTypeOK'
    BY <1>1, <1>15, FactsTypes DEF FactsInv, FactsTypeOK, LetterRow
  <1>20. RowsFit' /\ SendsAnswer'
    BY <1>1 DEF FactsInv, RowsFit, SendsAnswer
  <1>21. FactsInAnyOrder'
    BY <1>1, ReadOfTheRows, ReadOfTheNext DEF FactsInv
  <1>22. RowsNoted'
    <2>1. \A n \in Letters : \A m : Lasting(refusing, m) /\ m \in CarriedIn(letter, n) => Lasting(refusing', m)
      <3>1. \A n \in Letters : \A m \in CarriedIn(letter, n) : letter[m].sent # Never
        BY <1>2, CarriedIsSent
      <3> QED BY <1>12, <1>15, <3>1 DEF Lasting
    <2> QED BY <1>1, <2>1 DEF FactsInv, RowsNoted, Noted
  <1> QED BY <1>18, <1>19, <1>20, <1>21, <1>22 DEF FactsInv

-----------------------------------------------------------------------------
(* The facts' invariant. *)

LEMMA FactsInitFits == ASSUME FactsInit PROVE FactsInv
  <1>1. /\ letter = [m \in Letters |-> Blank] /\ refusing = NoRefusal
        /\ noting = [m \in Letters |-> "done"] /\ instant = 1 /\ slipped = {}
    BY DEF FactsInit
  <1>2. 0 \in Whens /\ 1 \in Instants /\ Never = 0
    BY InstantsAre
  <1>3. /\ Blank \in LetterRow /\ Blank.status = "none" /\ Blank.sent = Never /\ Blank.delivered = Never
        /\ Blank.laterDelivered = Never /\ Blank.resolved = Never /\ Blank.retried = Never
    BY <1>2 DEF Blank, LetterRow
  <1>4. letter \in [Letters -> LetterRow] /\ \A m \in Letters : letter[m] = Blank
    BY <1>1, <1>3
  <1>5. FactsTypeOK
    BY <1>1, <1>2, <1>4, FactsTypes, NobodyRefuses
  <1>6. "none" \notin Refusals /\ "none" # "BOUNCED"
    BY DEF Refusals
  <1>7. RowsFit /\ RefusalFits /\ RowsNoted /\ SendsAnswer
    BY <1>1, <1>3, <1>4, <1>6 DEF RowsFit, RowFits, RefusalFits, RowsNoted, Noted, SendsAnswer
  <1>8. FactsInAnyOrder
    BY <1>3, <1>4, <1>6 DEF FactsInAnyOrder
  <1> QED BY <1>5, <1>7, <1>8 DEF FactsInv

LEMMA FactsStepKeeps == ASSUME FactsInv, [FactsNext]_factsVars PROVE FactsInv'
  <1>1. CASE UNCHANGED factsVars
    <2>1. letter' = letter /\ refusing' = refusing /\ noting' = noting /\ instant' = instant /\ slipped' = slipped
      BY <1>1 DEF factsVars
    <2>2. FactsTypeOK' /\ RowsFit' /\ RefusalFits' /\ RowsNoted' /\ SendsAnswer'
      BY <2>1 DEF FactsInv, FactsTypeOK, RowsFit, RefusalFits, RowsNoted, SendsAnswer
    <2>3. FactsInAnyOrder'
      BY <2>1, ReadOfTheRows, ReadOfTheNext DEF FactsInv
    <2> QED BY <2>2, <2>3 DEF FactsInv
  <1>2. ASSUME NEW m \in Letters, NEW at \in Since(m)
        PROVE  at \in Instants
    <2>1. letter[m].sent # Never /\ at \in letter[m].sent..instant
      BY <1>2 DEF Since
    <2>2. instant \in Instants /\ letter[m].sent \in Whens
      BY FactsTypes DEF FactsInv, LetterRow
    <2> QED BY <2>1, <2>2, InstantsAre
  <1>3. "BOUNCED" \in Refusals /\ "COMPLAINED" \in Refusals /\ "COMPLAINED" # "BOUNCED"
        /\ "SENT" \notin Refusals /\ "PENDING" \notin Refusals
    BY DEF Refusals
  <1>4. ASSUME NEW m \in Letters, NEW cause \in {"address", "account"}, RefuseAtSend(m, cause)
        PROVE  FactsInv'
    <2>1. letter[m].status = "PENDING" /\ Refuse(m, "BOUNCED", cause, instant) /\ instant \in Instants
      BY <1>4, FactsTypes DEF RefuseAtSend, FactsInv
    <2>2. letter[m].sent = Never
      BY <2>1 DEF FactsInv, RowsFit, RowFits
    <2> QED BY <1>3, <2>1, <2>2, RefuseKeeps
  <1>5. ASSUME NEW m \in Letters, NEW at \in Since(m), Complained(m, at)
        PROVE  FactsInv'
    BY <1>2, <1>3, <1>5, RefuseKeeps DEF Complained
  <1>6. ASSUME NEW m \in Letters, NEW at \in Since(m), Bounced(m, at)
        PROVE  FactsInv'
    <2>1. Refuse(m, "BOUNCED", "address", at) /\ at \in Instants /\ letter[m].sent # Never
      BY <1>2, <1>6 DEF Bounced, Since
    <2>2. letter[m].status \notin Refusals \/ (letter[m].status = "BOUNCED" /\ letter[m].cause = "address")
      BY <1>3, <1>6, <2>1 DEF Bounced, FactsInv, RowsFit, RowFits
    <2> QED BY <1>3, <2>1, <2>2, RefuseKeeps
  <1>7. ASSUME NEW m \in Letters,
               \/ QueueLetter(m) \/ SendLetter(m) \/ Probe(m) \/ TryLock(m) \/ NoteSentAgain(m)
               \/ \E at \in Since(m) : Delivered(m, at)
        PROVE  FactsInv'
    BY <1>7, QueueLetterKeeps, SendLetterKeeps, ProbeKeeps, TryLockKeeps, NoteSentAgainKeeps, DeliveredKeeps
  <1> QED BY <1>1, <1>4, <1>5, <1>6, <1>7, CommitRefusalKeeps, TimePassesKeeps DEF FactsNext

LEMMA FactsInvHolds == FactsSpec => []FactsInv
  BY FactsInitFits, FactsStepKeeps, PTL DEF FactsSpec

\* A message's facts keep their types.
THEOREM FactsTypeCorrect == FactsSpec => []FactsTypeOK
  <1>1. FactsInv => FactsTypeOK
    BY DEF FactsInv
  <1> QED BY <1>1, FactsInvHolds, PTL

\* Whatever the order in which deliveries and refusals are reported, a bounce says since when the
\* address works and since when what it carried has arrived (settleRejection, settleDelivery).
THEOREM FactsInAnyOrderHolds == FactsSpec => []FactsInAnyOrder
  <1>1. FactsInv => FactsInAnyOrder
    BY DEF FactsInv
  <1> QED BY <1>1, FactsInvHolds, PTL

\* When every send has looked for what it answers, an open refusal says when what it carried last
\* left, and no refusal of the account's is open beside one; but for those that slipped through the
\* window between a probe's snapshot and its try for the lock (noteSentAgain).
THEOREM SentAgainIsKnownHolds == FactsSpec => []SentAgainIsKnown
  <1>1. ASSUME FactsInv
        PROVE  SentAgainIsKnown
    <2> SUFFICES ASSUME \A m \in Letters : noting[m] = "done", NEW r \in Letters \ slipped,
                        letter[r].status \in Refusals, letter[r].resolved = Never, CarriedAgain(r) # {}
                 PROVE  /\ letter[r].cause # "account"
                        /\ letter[r].retried = Latest({letter[m].sent : m \in CarriedAgain(r)})
      BY DEF SentAgainIsKnown
    <2> DEFINE carried == {letter[m].sent : m \in CarriedAgain(r)}
    <2>1. letter \in [Letters -> LetterRow]
      BY <1>1, FactsTypes DEF FactsInv
    <2>2. CarriedAgain(r) = CarriedIn(letter, r)
      BY ReadOfTheRows
    <2>3. \A m \in CarriedAgain(r) : m \in Letters /\ letter[m].sent \in Instants /\ letter[m].sent \in Nat
      BY <2>1, <2>2, CarriedIsSent, InstantsAre
    <2>4. \A m \in CarriedAgain(r) : letter[r].retried >= letter[m].sent
      BY <1>1, <2>2, <2>3 DEF FactsInv, SendsAnswer
    <2>5. letter[r].retried # Never
      <3>1. PICK m \in CarriedAgain(r) : TRUE
        OBVIOUS
      <3>2. letter[m].sent >= 1 /\ letter[r].retried >= letter[m].sent
        BY <2>3, <2>4, InstantsAre
      <3> QED BY <2>3, <3>2, InstantsAre
    <2>6. Noted(refusing, letter, r, letter[r])
      BY <1>1 DEF FactsInv, RowsNoted
    <2>7. letter[r].cause # "account" /\ letter[r].retried \in carried
      BY <2>2, <2>5, <2>6 DEF Noted
    <2>8. carried \in SUBSET Instants /\ carried # {} /\ \A x \in carried : letter[r].retried >= x
      BY <2>3, <2>4
    <2> HIDE DEF carried
    <2>9. letter[r].retried = Latest(carried)
      BY <2>7, <2>8, LatestIs
    <2> QED BY <2>7, <2>9 DEF carried
  <1> QED BY <1>1, FactsInvHolds, PTL

=============================================================================
