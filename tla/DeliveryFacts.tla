---------------------------- MODULE DeliveryFacts ----------------------------
(***************************************************************************)
(* What later messages say about an earlier refusal, for one participant   *)
(* and one registration.  Mailgun's events arrive in any order and more    *)
(* than once; each is applied under the participant's advisory lock, which *)
(* a send takes only when its unlocked probe finds something to mark.      *)
(***************************************************************************)
EXTENDS Integers, FiniteSets, FiniteSetsExt

CONSTANTS Letters,     \* the messages, numbered as they are queued
          KindsOf(_),  \* what each may be: "confirmation", "number" or "other"
          Refusable,   \* bound: the messages that may be refused
          LastInstant  \* bound: the instants anything happens at

ASSUME FactsAssumption ==
  /\ Letters \subseteq Nat \ {0} /\ LastInstant \in Nat \ {0}
  /\ \A m \in Letters : KindsOf(m) \subseteq {"confirmation", "number", "other"}

VARIABLES letter,    \* the rows, with the facts kept on a refused one
          refusing,  \* the refusal being written: a transaction that holds the lock
          noting,    \* how far each send is with marking what it answers
          instant,   \* the clock
          slipped    \* the refusals committed between a probe's snapshot and its try-lock

factsVars == <<letter, refusing, noting, instant, slipped>>

Refusals == {"BOUNCED", "COMPLAINED"}
Never == 0
Instants == 1..LastInstant
Whens == Instants \cup {Never}
NoRefusal == [of |-> Never]

Blank == [kind |-> "other", status |-> "none", cause |-> "none", created |-> Never, sent |-> Never,
          rejected |-> Never, delivered |-> Never,
          laterDelivered |-> Never, resolved |-> Never, retried |-> Never]

FactsTypeOK ==
  /\ letter \in [Letters ->
       [kind : {"confirmation", "number", "other"}, status : {"none", "PENDING", "SENT"} \cup Refusals,
        cause : {"none", "address", "account", "complained"}, created : Whens, sent : Whens,
        rejected : Whens, delivered : Whens, laterDelivered : Whens, resolved : Whens,
        retried : Whens]]
  /\ refusing.of \in Letters \cup {Never}
  /\ noting \in [Letters -> {"done", "sent", "clear", "pending"}]
  /\ instant \in Instants /\ slipped \subseteq Letters

FactsInit ==
  /\ letter = [m \in Letters |-> Blank] /\ refusing = NoRefusal
  /\ noting = [m \in Letters |-> "done"] /\ instant = 1 /\ slipped = {}

LockFree == refusing = NoRefusal
Soonest(whens) == IF whens = {} THEN Never ELSE Min(whens)
Latest(whens) == IF whens = {} THEN Never ELSE Max(whens)
Earlier(a, b) == Soonest({a, b} \ {Never})

(* The confirmation carries the race number too; every other message only itself. *)
Carries(m, r) ==
  letter[m].kind = letter[r].kind \/ (letter[m].kind = "confirmation" /\ letter[r].kind = "number")

-----------------------------------------------------------------------------
(* Queued, sent, and what becomes of it. *)

QueueLetter(m) ==
  /\ LockFree /\ letter[m].status = "none"
  /\ \E kind \in KindsOf(m) :
       letter' = [letter EXCEPT ![m].kind = kind, ![m].status = "PENDING", ![m].created = instant]
  /\ UNCHANGED <<refusing, noting, instant, slipped>>

(* One worker has the row in hand: what it is refusing it does not send. *)
SendLetter(m) ==
  /\ letter[m].status = "PENDING" /\ refusing.of # m
  /\ letter' = [letter EXCEPT ![m].status = "SENT", ![m].sent = instant]
  /\ noting' = [noting EXCEPT ![m] = "sent"]
  /\ UNCHANGED <<refusing, instant, slipped>>

(* A transaction and a statement are shorter than an instant. *)
TimePasses ==
  /\ LockFree /\ \A m \in Letters : noting[m] # "clear"
  /\ instant < LastInstant /\ instant' = instant + 1
  /\ UNCHANGED <<letter, refusing, noting, slipped>>

-----------------------------------------------------------------------------
(* A delivery: every earlier refusal of the address, and of what the message carried. *)

SettledDelivery(r, m, at) ==
  LET row == letter[r]
      earlier == r # m /\ row.status = "BOUNCED" /\ row.rejected < at
  IN [row EXCEPT
        !.laterDelivered = IF earlier /\ row.cause # "account" THEN Earlier(@, at) ELSE @,
        !.resolved = IF earlier /\ Carries(m, r) /\ row.created <= letter[m].sent
                     THEN Earlier(@, at) ELSE @]

(* The instants an event about m may name: Mailgun's own, and possibly long past. *)
Since(m) == IF letter[m].sent = Never THEN {} ELSE letter[m].sent..instant

(* A delivery happens once, and may be reported again. *)
Delivered(m, at) ==
  /\ LockFree /\ letter[m].delivered \in {Never, at}
  /\ letter' = [[r \in Letters |-> SettledDelivery(r, m, at)] EXCEPT
                  ![m].delivered = IF @ = Never THEN at ELSE @]
  /\ UNCHANGED <<refusing, noting, instant, slipped>>

-----------------------------------------------------------------------------
(* A refusal: written with what the other rows already say about it. *)

Others(r) == Letters \ {r}
CarriedAgain(r) ==
  {m \in Others(r) : Carries(m, r) /\ letter[m].sent # Never /\ letter[m].sent >= letter[r].created}

DeliveredAfter(senders, at) == {letter[m].delivered : m \in {n \in senders : letter[n].delivered > at}}

(* Mutant: a refusal that does not look for the delivery it was overtaken by. *)
OnlyMarked(r, row) == row

(* settleRejection, of a row that already says it was refused. *)
SettledRejection(r, row) ==
  LET complaint == row.status = "COMPLAINED"
      account == row.cause = "account"
      carried == {letter[m].sent : m \in CarriedAgain(r)}
      answered == (IF complaint THEN {} ELSE DeliveredAfter(CarriedAgain(r), row.rejected))
                    \cup (IF account THEN carried ELSE {})
      works == IF account \/ complaint THEN {} ELSE DeliveredAfter(Others(r), row.rejected)
  IN [row EXCEPT !.laterDelivered = Earlier(@, Soonest(works)),
                 !.resolved = Earlier(@, Soonest(answered)),
                 !.retried = IF carried = {} THEN @ ELSE Latest(carried)]

RefusedRow(r, status, cause, at) ==
  [letter[r] EXCEPT !.status = status, !.cause = cause,
                    !.rejected = IF @ = Never THEN at ELSE @]

Refuse(r, status, cause, at) ==
  /\ LockFree /\ r \in Refusable
  /\ refusing' = [of |-> r, row |-> SettledRejection(r, RefusedRow(r, status, cause, at))]
  /\ UNCHANGED <<letter, noting, instant, slipped>>

(* recordBounceAtSend: only a refusal of the send itself may be the account's.  Then the webhook's
   two, about a message that left; a bounce never covers a complaint. *)
RefuseAtSend(r, cause) == letter[r].status = "PENDING" /\ Refuse(r, "BOUNCED", cause, instant)

Complained(m, at) == Refuse(m, "COMPLAINED", "complained", at)

Bounced(m, at) == letter[m].status \in {"SENT", "BOUNCED"} /\ Refuse(m, "BOUNCED", "address", at)

CommitRefusal ==
  /\ ~LockFree
  /\ letter' = [letter EXCEPT ![refusing.of] = refusing.row]
  /\ slipped' = IF \E m \in Letters : noting[m] = "clear" THEN slipped \cup {refusing.of} ELSE slipped
  /\ refusing' = NoRefusal
  /\ UNCHANGED <<noting, instant>>

-----------------------------------------------------------------------------
(* A send tells the refusals it answers. *)

ProbeAnswers(m, r) ==
  /\ r # m /\ letter[r].status \in Refusals /\ Carries(m, r)
  /\ letter[r].created <= letter[m].sent /\ letter[r].resolved = Never
  /\ letter[r].retried < letter[m].sent

(* The probe reads before it tries the lock. *)
Probe(m) ==
  /\ noting[m] = "sent"
  /\ noting' = [noting EXCEPT ![m] = IF \E r \in Letters : ProbeAnswers(m, r) THEN "pending" ELSE "clear"]
  /\ UNCHANGED <<letter, refusing, instant, slipped>>

(* Mutant: the probe does not look at the lock. *)
AsTheSnapshotSaid == "done"

AfterTheProbe == IF LockFree THEN "done" ELSE "pending"

TryLock(m) ==
  /\ noting[m] = "clear"
  /\ noting' = [noting EXCEPT ![m] = AfterTheProbe]
  /\ UNCHANGED <<letter, refusing, instant, slipped>>

NoteSentAgain(m) ==
  /\ noting[m] = "pending" /\ LockFree
  /\ letter' = [r \in Letters |->
       IF ~ProbeAnswers(m, r) THEN letter[r]
       ELSE [letter[r] EXCEPT !.retried = letter[m].sent,
                              !.resolved = IF letter[r].cause = "account"
                                           THEN Earlier(@, letter[m].sent) ELSE @]]
  /\ noting' = [noting EXCEPT ![m] = "done"]
  /\ UNCHANGED <<refusing, instant, slipped>>

-----------------------------------------------------------------------------
FactsNext ==
  \/ \E m \in Letters :
       \/ QueueLetter(m) \/ SendLetter(m) \/ Probe(m) \/ TryLock(m) \/ NoteSentAgain(m)
       \/ \E cause \in {"address", "account"} : RefuseAtSend(m, cause)
       \/ \E at \in Since(m) : Delivered(m, at) \/ Complained(m, at) \/ Bounced(m, at)
  \/ CommitRefusal \/ TimePasses

FactsSpec == FactsInit /\ [][FactsNext]_factsVars

-----------------------------------------------------------------------------
(* Properties. *)

(* The two facts a bounce is read from are what the processed deliveries say, in whatever order
   Mailgun's events came: the address works since the first later delivery, and the refusal is
   over since the first later delivery of a message that carried what it did. *)
FactsInAnyOrder ==
  \A r \in Letters :
    letter[r].status = "BOUNCED" /\ letter[r].cause = "address" =>
      /\ letter[r].laterDelivered = Soonest(DeliveredAfter(Others(r), letter[r].rejected))
      /\ letter[r].resolved = Soonest(DeliveredAfter(CarriedAgain(r), letter[r].rejected))

(* Once every send has finished, a refusal still open says when what it carried last left again,
   and the account's refusal is over; but for the window the code accepts. *)
SentAgainIsKnown ==
  LockFree /\ (\A m \in Letters : noting[m] = "done") =>
    \A r \in Letters \ slipped :
      letter[r].status \in Refusals /\ letter[r].resolved = Never /\ CarriedAgain(r) # {} =>
        /\ letter[r].cause # "account"
        /\ letter[r].retried = Latest({letter[m].sent : m \in CarriedAgain(r)})
=============================================================================
