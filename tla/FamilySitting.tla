---------------------------- MODULE FamilySitting ----------------------------
(***************************************************************************)
(* A family's sitting at the form: the people one address enters one after *)
(* another, the messages held back for «Gata» or for the end of the        *)
(* window, the one message that replaces them, the one button that         *)
(* confirms everybody and the one confirmation that tells them.  Each      *)
(* press and each form is a transaction that locks the sitting's row; the  *)
(* button reads the row without locking it, and writes it at its end.      *)
(***************************************************************************)
EXTENDS Integers, FiniteSets

CONSTANTS People,       \* those entered from one address
          Kept,         \* the ones whose form is kept, not registered (the address has somebody)
          Sittings,     \* numbered as they are opened
          Window,       \* familySittingMinutes
          HoldFor,      \* the club's hold, counted from the window's end
          SignWindow,   \* FAMILY_PASS_MINUTES
          LastTick,  \* bound: where the clock ends
          HitchesMax    \* bound: sends that fail or meet a stop of Mailgun's

(* At no minutes there are no sittings (familySittingHolds). *)
ASSUME SittingAssumption ==
  /\ IsFiniteSet(People) /\ Window \in Nat \ {0} /\ HoldFor \in Nat /\ SignWindow \in Nat
  /\ LastTick \in Nat /\ HitchesMax \in Nat

VARIABLES clock,
          mail,    \* email_outbox, the rows about this family
          half,      \* the browser's seed: until when the first form's own half lives
          sitting,   \* family_sittings
          pressing,  \* the button pressed: the people its transaction has read
          joined,    \* those confirmed, by their own link or by the button
          signed,    \* those who signed
          alone,     \* the signers a confirmation of their own was queued for
          says,      \* whom the family's confirmation names, once rendered
          hitches,
          missed     \* those who joined a sitting between its button's read and its write

sittingVars == <<clock, mail, half, sitting, pressing, joined, signed, alone, says, hitches, missed>>

Own(p) == <<"own", p>>
TheFamilys(s) == <<"family", s>>
Confirmation(s) == <<"confirmed", s>>
Messages == {Own(p) : p \in People} \cup {TheFamilys(s) : s \in Sittings} \cup {Confirmation(s) : s \in Sittings}

Ticks == 0..LastTick
NoMail == [state |-> "none", due |-> 0, tried |-> FALSE, marked |-> FALSE, letGo |-> FALSE]
NoSitting == [open |-> FALSE, since |-> 0, people |-> {}, held |-> {}, until |-> 0, reserved |-> 0,
              released |-> FALSE, confirmed |-> FALSE]

SittingTypeOK ==
  /\ clock \in Ticks /\ hitches \in 0..HitchesMax
  /\ mail \in [Messages -> [state : {"none", "waiting", "leaving", "left", "deleted"}, due : Ticks,
                             tried : BOOLEAN, marked : BOOLEAN, letGo : BOOLEAN]]
  /\ half \in [People -> Ticks]
  /\ sitting \in [Sittings -> [open : BOOLEAN, since : Ticks, people : SUBSET People,
                               held : SUBSET Messages, until : Ticks, reserved : Ticks,
                               released : BOOLEAN, confirmed : BOOLEAN]]
  /\ pressing \in [Sittings -> SUBSET People] /\ says \in [Sittings -> SUBSET People]
  /\ signed \subseteq joined /\ joined \subseteq People /\ alone \subseteq signed /\ missed \subseteq People

SittingInit ==
  /\ clock = 0 /\ hitches = 0
  /\ mail = [m \in Messages |-> NoMail] /\ half = [p \in People |-> 0]
  /\ sitting = [s \in Sittings |-> NoSitting]
  /\ pressing = [s \in Sittings |-> {}] /\ says = [s \in Sittings |-> {}]
  /\ joined = {} /\ signed = {} /\ alone = {} /\ missed = {}

(* The tick a request was made at: it may have waited a tick for its locks. *)
Asked == {clock, clock - 1} \cap Ticks
AskedOf(s) == {at \in Asked : sitting[s].since <= at}

-----------------------------------------------------------------------------
(* The rows of the queue. *)

Waiting(l) == l.state = "waiting"
NeverTried(l) == Waiting(l) /\ ~l.tried
NewMail(due) == [NoMail EXCEPT !.state = "waiting", !.due = due]

(* Mutant: the window starts again, the messages keep their turn. *)
TurnKept(l, due) == l

(* A held row is moved while nobody has tried it and no stop of Mailgun's is on it. *)
Moved(l, due) == IF NeverTried(l) /\ ~l.marked THEN [l EXCEPT !.due = due] ELSE l

(* Mutant: a row Mailgun stopped stays beside the family's message. *)
ReplacedUnlessMarked(l) ==
  IF NeverTried(l) /\ ~l.marked THEN [NoMail EXCEPT !.state = "deleted"]
  ELSE IF NeverTried(l) THEN l ELSE [l EXCEPT !.letGo = TRUE]

(* A row the family's message replaces is deleted, a stop of Mailgun's or not, while nobody has
   tried it; one that is leaving, or may have left, is let go. *)
ReplacedBy(l) == IF NeverTried(l) THEN [NoMail EXCEPT !.state = "deleted"] ELSE [l EXCEPT !.letGo = TRUE]

-----------------------------------------------------------------------------
(* The sitting. *)

(* lockLiveSitting. *)
Live(s, at) ==
  /\ sitting[s].open /\ ~sitting[s].released /\ ~sitting[s].confirmed
  /\ sitting[s].until > at /\ sitting[s].reserved > at

(* openSitting: its window, and the deadline of its places that nothing moves afterwards.  The
   bound leaves the clock room for every window begun before that deadline. *)
MayOpen(s, reserved) ==
  /\ ~sitting[s].open /\ \A q \in Sittings : q < s => sitting[q].open
  /\ reserved + Window <= LastTick + 1
Opened(at, reserved) ==
  [NoSitting EXCEPT !.open = TRUE, !.since = at, !.until = at + Window, !.reserved = reserved]

(* settleSitting, with the row the form has just added p and its message to: from the second person
   who still waits, the held messages become the family's one. *)
Settled(s, row, mails, at) ==
  LET due == at + Window
      family == Cardinality(row.people \ joined) >= 2
      queued == IF mails[TheFamilys(s)].state = "none"
                THEN [mails EXCEPT ![TheFamilys(s)] = NewMail(due)] ELSE mails
      replaced == [m \in Messages |-> IF m \in row.held \ {TheFamilys(s)} THEN ReplacedBy(queued[m])
                                     ELSE queued[m]]
      held == IF family THEN {TheFamilys(s)} ELSE row.held
      kept == IF family THEN replaced ELSE mails
  IN /\ mail' = [m \in Messages |-> IF m \in held THEN Moved(kept[m], due) ELSE kept[m]]
     /\ sitting' = [sitting EXCEPT ![s] = [row EXCEPT !.held = held, !.until = due]]

-----------------------------------------------------------------------------
(* The forms and the presses. *)

(* A first form is an ordinary one: its message is due at once. *)
FirstForm(p) ==
  /\ mail[Own(p)].state = "none"
  /\ clock + Window <= LastTick
  /\ mail' = [mail EXCEPT ![Own(p)] = NewMail(clock)]
  /\ half' = [half EXCEPT ![p] = clock + Window]
  /\ UNCHANGED <<clock, sitting, pressing, joined, signed, alone, says, hitches, missed>>

(* «Da» after a first form: the sitting takes the person in, and holds their message if it still can. *)
OpenFromSeed(s, p, at) ==
  /\ at \in (half[p] - Window)..(half[p] - 1) /\ p \notin joined
  /\ MayOpen(s, half[p] + HoldFor)
  /\ \A q \in Sittings : p \in sitting[q].people => p \notin Kept /\ ~Live(q, at)
  /\ LET holds == NeverTried(mail[Own(p)])
     IN /\ sitting' = [sitting EXCEPT ![s] = [Opened(at, half[p] + HoldFor) EXCEPT
                          !.people = {p}, !.held = IF holds THEN {Own(p)} ELSE {}]]
        /\ mail' = [mail EXCEPT ![Own(p)] =
                        IF holds THEN Moved(@, at + Window) ELSE [@ EXCEPT !.letGo = TRUE]]
  /\ UNCHANGED <<clock, half, pressing, joined, signed, alone, says, hitches, missed>>

(* «Da» in a sitting: its window starts again, and every message it still holds with it. *)
Continue(s, at) ==
  /\ Live(s, at)
  /\ sitting' = [sitting EXCEPT ![s].until = at + Window]
  /\ mail' = [m \in Messages |-> IF m \in sitting[s].held THEN Moved(mail[m], at + Window) ELSE mail[m]]
  /\ UNCHANGED <<clock, half, pressing, joined, signed, alone, says, hitches, missed>>

(* The next form: its message is queued held, and the sitting settled, in one transaction. *)
NextForm(s, p, at) ==
  /\ Live(s, at) /\ mail[Own(p)].state = "none"
  /\ Settled(s, [sitting[s] EXCEPT !.people = @ \cup {p}, !.held = @ \cup {Own(p)}],
             [mail EXCEPT ![Own(p)] = NewMail(at + Window)], at)
  /\ missed' = IF pressing[s] = {} THEN missed ELSE missed \cup {p}
  /\ UNCHANGED <<clock, half, pressing, joined, signed, alone, says, hitches>>

(* A form whose sitting has ended opens another; the deadline the browser carries is kept while
   it is ahead. *)
FormOpensAnother(gone, s, p, at) ==
  /\ sitting[gone].open /\ ~Live(gone, at) /\ mail[Own(p)].state = "none"
  /\ LET carried == sitting[gone].reserved
         reserved == IF carried > at THEN carried ELSE at + Window + HoldFor
     IN /\ MayOpen(s, reserved)
        /\ Settled(s, [Opened(at, reserved) EXCEPT !.people = {p}, !.held = {Own(p)}],
                   [mail EXCEPT ![Own(p)] = NewMail(at + Window)], at)
  /\ UNCHANGED <<clock, half, pressing, joined, signed, alone, says, hitches, missed>>

(* «Gata»: what the sitting holds leaves now, and it takes no more forms. *)
Release(s) ==
  /\ sitting[s].open /\ ~sitting[s].released /\ ~sitting[s].confirmed
  /\ mail' = [m \in Messages |-> IF m \in sitting[s].held THEN Moved(mail[m], clock) ELSE mail[m]]
  /\ sitting' = [sitting EXCEPT ![s].released = TRUE, ![s].until = IF @ < clock THEN @ ELSE clock]
  /\ UNCHANGED <<clock, half, pressing, joined, signed, alone, says, hitches, missed>>

-----------------------------------------------------------------------------
(* The queue's worker. *)

Claims(m) ==
  /\ Waiting(mail[m]) /\ mail[m].due <= clock
  /\ mail' = [mail EXCEPT ![m].state = "leaving", ![m].tried = TRUE, ![m].due = 0]
  /\ UNCHANGED <<clock, half, sitting, pressing, joined, signed, alone, says, hitches, missed>>

(* The family's confirmation names whoever has signed when it is rendered. *)
RenderConfirmation(s) ==
  /\ mail[Confirmation(s)].state = "leaving" /\ says[s] = {}
  /\ says' = [says EXCEPT ![s] = sitting[s].people \cap signed]
  /\ UNCHANGED <<clock, mail, half, sitting, pressing, joined, signed, alone, hitches, missed>>

Rendered(m) == \A s \in Sittings : m = Confirmation(s) => says[s] # {}
Unsaid(m) == [s \in Sittings |-> IF m = Confirmation(s) THEN {} ELSE says[s]]

Leaves(m) ==
  /\ mail[m].state = "leaving" /\ Rendered(m)
  /\ mail' = [mail EXCEPT ![m] = [NoMail EXCEPT !.state = "left"]]
  /\ UNCHANGED <<clock, half, sitting, pressing, joined, signed, alone, says, hitches, missed>>

(* It failed and is tried again, or Mailgun stopped it: then its attempt is given back. *)
Hitch(m, stopped) ==
  /\ mail[m].state = "leaving" /\ hitches < HitchesMax
  /\ hitches' = hitches + 1
  /\ mail' = [mail EXCEPT ![m].state = "waiting", ![m].tried = ~stopped, ![m].marked = stopped,
                              ![m].due = IF clock = LastTick THEN clock ELSE clock + 1]
  /\ says' = Unsaid(m)
  /\ UNCHANGED <<clock, half, sitting, pressing, joined, signed, alone, missed>>

-----------------------------------------------------------------------------
(* The links, and the signatures. *)

PressOwn(p) ==
  /\ mail[Own(p)].state = "left" /\ p \notin joined
  /\ joined' = joined \cup {p}
  /\ UNCHANGED <<clock, mail, half, sitting, pressing, signed, alone, says, hitches, missed>>

(* confirmFamilySitting reads the sitting's people, and writes at its end. *)
PressReads(s) ==
  /\ mail[TheFamilys(s)].state = "left" /\ ~sitting[s].confirmed /\ pressing[s] = {}
  /\ pressing' = [pressing EXCEPT ![s] = sitting[s].people]
  /\ UNCHANGED <<clock, mail, half, sitting, joined, signed, alone, says, hitches, missed>>

PressWrites(s) ==
  /\ pressing[s] # {}
  /\ joined' = joined \cup pressing[s]
  /\ sitting' = [sitting EXCEPT ![s].confirmed = TRUE, ![s].people = pressing[s]]
  /\ pressing' = [pressing EXCEPT ![s] = {}]
  /\ UNCHANGED <<clock, mail, half, signed, alone, says, hitches, missed>>

(* An error that is nobody's refusal takes everything back, the link's use included. *)
PressFails(s) ==
  /\ pressing[s] # {}
  /\ pressing' = [pressing EXCEPT ![s] = {}]
  /\ missed' = missed \ sitting[s].people
  /\ UNCHANGED <<clock, mail, half, sitting, joined, signed, alone, says, hitches>>

(* Mutant: a message that is leaving is counted on to name one more. *)
StillToLeave(l) == l.state \in {"waiting", "leaving"}

CanStillName(l) == Waiting(l)

(* queueFamilyConfirmed: one confirmation for the family, while it has not begun to leave.  Whoever
   is in no confirmed family signs elsewhere, and is told on their own. *)
Sign(p) ==
  /\ p \in joined \ signed
  /\ signed' = signed \cup {p}
  /\ LET mine == {s \in Sittings : sitting[s].confirmed /\ p \in sitting[s].people}
     IN \E s \in mine :
          LET l == mail[Confirmation(s)]
              due == IF sitting[s].people \cap joined \subseteq signed' \/ clock + SignWindow > LastTick
                     THEN clock ELSE clock + SignWindow
          IN \/ /\ l.state = "none" \/ CanStillName(l)
                /\ mail' = [mail EXCEPT ![Confirmation(s)] =
                                IF l.state = "none" THEN NewMail(due) ELSE Moved(l, due)]
                /\ UNCHANGED alone
             \/ /\ l.state # "none" /\ ~CanStillName(l)
                /\ alone' = alone \cup {p} /\ UNCHANGED mail
  /\ UNCHANGED <<clock, half, sitting, pressing, joined, says, hitches, missed>>

ClockTicks ==
  /\ clock < LastTick /\ clock' = clock + 1
  /\ UNCHANGED <<mail, half, sitting, pressing, joined, signed, alone, says, hitches, missed>>

SittingNext ==
  \/ ClockTicks
  \/ \E p \in People : FirstForm(p) \/ PressOwn(p) \/ Sign(p)
  \/ \E s \in Sittings : \/ Release(s) \/ RenderConfirmation(s)
                         \/ PressReads(s) \/ PressWrites(s) \/ PressFails(s)
  \/ \E s \in Sittings, p \in People : \E at \in Asked : OpenFromSeed(s, p, at)
  \/ \E s \in Sittings : \E at \in AskedOf(s) :
       \/ Continue(s, at)
       \/ \E p \in People : NextForm(s, p, at) \/ \E next \in Sittings : FormOpensAnother(s, next, p, at)
  \/ \E m \in Messages : Claims(m) \/ Leaves(m) \/ \E stopped \in BOOLEAN : Hitch(m, stopped)

(* The clock goes on, and the worker takes what is due; nobody has to press anything. *)
SittingFairness ==
  /\ WF_sittingVars(ClockTicks)
  /\ \A m \in Messages : WF_sittingVars(Claims(m)) /\ WF_sittingVars(Leaves(m))

SittingSpec == SittingInit /\ [][SittingNext]_sittingVars /\ SittingFairness

-----------------------------------------------------------------------------
(* Properties. *)

(* Nothing a sitting holds leaves before «Gata» or the end of its window, wherever a «Da» or a form
   moved it; but for a message tried before, or one Mailgun's stop gave a turn of its own. *)
HeldUntilDone ==
  [][\A s \in Sittings : \A m \in sitting[s].held :
       NeverTried(mail[m]) /\ mail'[m].state = "leaving" /\ ~mail[m].marked /\ ~sitting[s].released
         => sitting[s].until <= clock]_sittingVars

(* Once the family's message is queued no message of one of them is still to be sent beside it, but
   for those a worker had begun to send. *)
OneMessageForTheFamily ==
  \A s \in Sittings : mail[TheFamilys(s)].state # "none" =>
    \A p \in sitting[s].people : NeverTried(mail[Own(p)]) => mail[Own(p)].letGo

(* Whoever has filled the form is named by a message of their own, or by a family's whose button
   still confirms them; and a signer is told by a confirmation that names them. *)
EverybodyIsNamed ==
  /\ \A p \in People \ (joined \cup missed) :
       mail[Own(p)].state = "deleted" =>
         \E s \in Sittings : /\ p \in sitting[s].people /\ ~sitting[s].confirmed
                             /\ mail[TheFamilys(s)].state \in {"waiting", "leaving", "left"}
  /\ \A p \in signed \ alone : \E s \in Sittings :
       LET l == mail[Confirmation(s)]
       IN p \in sitting[s].people /\ (Waiting(l) \/ (l.state = "leaving" /\ says[s] = {}) \/ p \in says[s])
=============================================================================
