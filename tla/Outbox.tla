------------------------------- MODULE Outbox -------------------------------
(***************************************************************************)
(* The queue of emails: workers claim batches of due rows under a lease,   *)
(* ask a provider to take each message outside every transaction, and      *)
(* write the outcome by the row's id.  Mailgun's road has an hourly pace   *)
(* and closes when Mailgun says stop; Gmail carries the rows the club      *)
(* gives it and, with the switch on, everybody's during a stop.            *)
(*                                                                         *)
(* The code's instants are kept as the time left until them, so that a     *)
(* tick of the clock is the same step at any hour.                         *)
(***************************************************************************)
EXTENDS Integers, FiniteSets, FiniteSetsExt

CONSTANTS
  Emails,          \* the rows, numbered in the order they were created
  Workers,
  Settings,        \* what the club and the platform may have set, with the bounds of each
  Lease,           \* PROCESSING_LOCK_TIMEOUT_MS, in ticks
  PaceWindow,      \* PACE_WINDOW_MS
  PauseFor,        \* how long a pause Mailgun asks for lasts
  AllowanceFor,    \* how long until a spent allowance comes back
  GmailBatch,      \* gmailBatchSize: what Gmail's pace lets one batch send
  MaxDelay         \* MAX_RETRY_DELAY_MS

ASSUME OutboxAssumption ==
  /\ Emails \subseteq Nat /\ IsFiniteSet(Emails) /\ IsFiniteSet(Workers)
  /\ Settings \subseteq
       [gmail : SUBSET Emails,      \* the rows the club sends by its Gmail
        bulk : SUBSET Emails,       \* the newsletter's and the new-event alert's
        hour : Nat,                 \* hourlyAllowance
        fallback : BOOLEAN,         \* «Gmail preia când Mailgun se oprește»
        overflow : BOOLEAN,         \* overflowToGmail: what Mailgun refused may leave by Gmail
        refusals : SUBSET {"paused", "allowance"},  \* how Mailgun may refuse the account
        outlives : BOOLEAN,         \* may a run go on after its lease?
        trouble : Nat,              \* bound: answers other than "taken"
        crashes : Nat,              \* bound: workers that die in a batch
        presses : Nat,              \* bound: the staff's buttons
        events : Nat]               \* bound: Mailgun's reports
  /\ GmailBatch \in Nat
  /\ {Lease, PaceWindow, PauseFor, AllowanceFor, MaxDelay} \subseteq Nat \ {0}
  /\ PauseFor =< AllowanceFor

VARIABLES
  setting,      \* the one of Settings this deployment has
  rows,         \* email_outbox
  stopRecord,   \* platform_settings.mailgunStop
  batch,        \* what each worker holds in memory between its statements
  trouble, crashes, presses, events,  \* counters of the bounds
  accepted,     \* what the providers really took, and how long ago
  unaccounted,  \* the times an answer was lost, a lease ran out or a worker died
  told          \* how long the pause the outbox has recorded still has to run

vars == <<setting, rows, stopRecord, batch, trouble, crashes, presses, events,
          accepted, unaccounted, told>>
ghosts == <<accepted, unaccounted, told>>

-----------------------------------------------------------------------------
(* Types. *)

Kinds == {"none", "paused", "allowance"}
Marks == {"none", "paused", "allowance", "waitsForGmail"}
Statuses == {"absent", "PENDING", "PROCESSING", "SENT", "FAILED", "BOUNCED",
             "COMPLAINED", "withdrawn"}
MaxWait == IF AllowanceFor > MaxDelay THEN AllowanceFor ELSE MaxDelay

Row == [status : Statuses, wait : 0..MaxWait, lease : 0..Lease, fresh : 0..PaceWindow,
        sent : BOOLEAN, viaGmail : BOOLEAN, attempts : Nat, mark : Marks]

Nothing == 0 - 1      \* no row in hand, no pause heard of

Outcomes == {"none", "sent", "paced", "full", "ratePaused", "allowance",
             "transient", "refused", "account"}
Result == [outcome : Outcomes, by : {"gmail", "mailgun"}, stop : Kinds, knocked : BOOLEAN]
NoResult == [outcome |-> "none", by |-> "mailgun", stop |-> "none", knocked |-> FALSE]

Batch == [left : SUBSET Emails, tries : [Emails -> Nat], row : Emails \cup {Nothing}, result : Result,
          pause : (0..AllowanceFor) \cup {Nothing}, carrying : Kinds,
          until : 0..AllowanceFor, kept : BOOLEAN, gmailDown : BOOLEAN, behind : BOOLEAN]
Idle == [left |-> {}, tries |-> [e \in Emails |-> 0], row |-> Nothing, result |-> NoResult, pause |-> Nothing,
         carrying |-> "none", until |-> 0, kept |-> FALSE, gmailDown |-> FALSE,
         behind |-> FALSE]

TypeOK ==
  /\ setting \in Settings
  /\ rows \in [Emails -> Row]
  /\ stopRecord \in [kind : Kinds, left : 0..AllowanceFor]
  /\ batch \in [Workers -> Batch]
  /\ trouble \in 0..setting.trouble /\ crashes \in 0..setting.crashes
  /\ presses \in 0..setting.presses /\ events \in 0..setting.events
  /\ accepted \subseteq [email : Emails, copy : Nat, age : 0..PaceWindow,
                         road : {"mailgun", "gmail", "spilled", "lost"}]
  /\ unaccounted \in [Emails -> Nat]
  /\ told \in 0..AllowanceFor

Init ==
  /\ setting \in Settings
  /\ rows = [e \in Emails |-> [status |-> "absent", wait |-> 0, lease |-> 0, fresh |-> 0,
                               sent |-> FALSE, viaGmail |-> FALSE, attempts |-> 0, mark |-> "none"]]
  /\ stopRecord = [kind |-> "none", left |-> 0]
  /\ batch = [w \in Workers |-> Idle]
  /\ trouble = 0 /\ crashes = 0 /\ presses = 0 /\ events = 0
  /\ accepted = {} /\ unaccounted = [e \in Emails |-> 0] /\ told = 0

-----------------------------------------------------------------------------
(* What a claim reads. *)

OnGmailRoad(e) == e \in setting.gmail
OnMailgunRoad(e) == e \notin setting.gmail

(* Mutant: a row in another worker's hands is taken as well. *)
DueWithoutLease(e) ==
  \/ rows[e].status = "PENDING" /\ rows[e].wait = 0
  \/ rows[e].status = "PROCESSING"

Due(e) ==
  \/ rows[e].status = "PENDING" /\ rows[e].wait = 0
  \/ rows[e].status = "PROCESSING" /\ rows[e].lease = 0

Held(e) == rows[e].status = "PENDING" /\ rows[e].mark \in {"paused", "allowance"}

(* The end of a stop of one kind, 0 when there is none: the later of the marked rows'
   next turns and of the record. *)
StopLeft(kind) ==
  LET marked == {rows[e].wait : e \in {x \in Emails : /\ rows[x].status = "PENDING"
                                                     /\ rows[x].mark = kind
                                                     /\ OnMailgunRoad(x)}}
  IN Max({0} \cup marked \cup (IF stopRecord.kind = kind THEN {stopRecord.left} ELSE {}))

(* readMailgunStop: a pause comes before a spent allowance. *)
StopInForce ==
  IF StopLeft("paused") > 0 THEN [kind |-> "paused", left |-> StopLeft("paused")]
  ELSE IF StopLeft("allowance") > 0 THEN [kind |-> "allowance", left |-> StopLeft("allowance")]
  ELSE [kind |-> "none", left |-> 0]

SentInWindow == {e \in Emails : rows[e].fresh > 0 /\ ~rows[e].viaGmail}
(* Mutant: what other workers hold is not counted. *)
NothingInFlight == {}

InFlight == {e \in Emails : /\ rows[e].status = "PROCESSING" /\ rows[e].lease > 0
                            /\ OnMailgunRoad(e)}
HourRoom == Max({0, setting.hour - Cardinality(SentInWindow) - Cardinality(InFlight)})

(* The oldest rows of a set, as many as there is room for. *)
Oldest(S, room) == {e \in S : Cardinality({x \in S : x < e}) < room}

(* One road's claim: the bulk fills the room the others leave. *)
RoadClaim(S, room, bulkRoom) ==
  LET first == Oldest(S \ setting.bulk, room)
      rest == Min({room - Cardinality(first), bulkRoom})
  IN first \cup Oldest(S \cap setting.bulk, rest)

AllBulk == Cardinality(setting.bulk)    \* no reserve binds

Carried(stop) == stop.kind # "none" /\ setting.fallback

MailgunClaim(stop, wanted, bulkRoom) ==
  LET open == ~Carried(stop) /\ stop.kind # "paused"
  IN RoadClaim({e \in wanted : Due(e) /\ OnMailgunRoad(e)},
               IF open THEN HourRoom ELSE 0, bulkRoom)

GmailClaim(stop, wanted) ==
  RoadClaim(IF Carried(stop)
            THEN {e \in wanted : (Due(e) \/ Held(e)) /\ (OnGmailRoad(e) \/ e \notin setting.bulk)}
            ELSE {e \in wanted : Due(e) /\ OnGmailRoad(e)},
            GmailBatch, AllBulk)

-----------------------------------------------------------------------------
(* Queueing, and what is done to a row that waits. *)

SetRow(e, changes) == rows' = [rows EXCEPT ![e] = changes]

(* enqueueEmail: one row per idempotency key, in the order of creation. *)
Enqueue(e) ==
  /\ rows[e].status = "absent"
  /\ \A x \in Emails : x < e => rows[x].status # "absent"
  /\ SetRow(e, [rows[e] EXCEPT !.status = "PENDING"])
  /\ UNCHANGED <<setting, stopRecord, batch, trouble, crashes, presses, events, ghosts>>

(* A sitting's row replaced by a newer one before anybody tried to send it. *)
ReplaceRow(e) ==
  /\ rows[e].status = "PENDING" /\ rows[e].attempts = 0
  /\ SetRow(e, [rows[e] EXCEPT !.status = "withdrawn", !.wait = 0])
  /\ UNCHANGED <<setting, stopRecord, batch, trouble, crashes, presses, events, ghosts>>

(* Mutant: every row of the window is put back, the sent ones with the failed. *)
RetryEverything ==
  /\ presses < setting.presses
  /\ rows' = [e \in Emails |-> IF rows[e].status \in {"FAILED", "SENT"}
                THEN [rows[e] EXCEPT !.status = "PENDING", !.attempts = 0, !.wait = 0, !.lease = 0]
                ELSE rows[e]]
  /\ presses' = presses + 1
  /\ UNCHANGED <<setting, stopRecord, batch, trouble, crashes, events, ghosts>>

(* «Reîncearcă emailurile eșuate». *)
RetryFailed ==
  /\ presses < setting.presses
  /\ \E e \in Emails : rows[e].status = "FAILED"
  /\ rows' = [e \in Emails |-> IF rows[e].status = "FAILED"
                THEN [rows[e] EXCEPT !.status = "PENDING", !.attempts = 0, !.wait = 0, !.lease = 0]
                ELSE rows[e]]
  /\ presses' = presses + 1
  /\ UNCHANGED <<setting, stopRecord, batch, trouble, crashes, events, ghosts>>

-----------------------------------------------------------------------------
(* The claim. *)

ClaimRow(r) == [r EXCEPT !.status = "PROCESSING", !.lease = Lease, !.attempts = @ + 1]

(* claimOutboxBatchWithStop: the counts, the stop and the claim under one advisory lock.
   A batch whose bulk met its limit puts the rest of the bulk off to the reset. *)
Claim(w, wanted, bulkRoom) ==
  LET stop == StopInForce
      mine == MailgunClaim(stop, wanted, bulkRoom) \cup GmailClaim(stop, wanted)
      bulkClaimed == {e \in mine : e \in setting.bulk /\ OnMailgunRoad(e)}
      putOff == IF wanted = Emails /\ bulkRoom < AllBulk /\ Cardinality(bulkClaimed) >= bulkRoom
                THEN {e \in setting.bulk \ mine : /\ rows[e].status = "PENDING" /\ rows[e].wait = 0
                                          /\ OnMailgunRoad(e)}
                ELSE {}
  IN /\ batch[w] = Idle /\ mine \cup putOff # {}
     /\ rows' = [e \in Emails |-> IF e \in mine THEN ClaimRow(rows[e])
                                  ELSE IF e \in putOff THEN [rows[e] EXCEPT !.wait = AllowanceFor]
                                  ELSE rows[e]]
     /\ batch' = [batch EXCEPT ![w] =
                    IF mine = {} THEN Idle
                    ELSE [Idle EXCEPT !.left = mine,
                                      !.tries = [e \in Emails |-> IF e \in mine THEN rows[e].attempts + 1 ELSE 0],
                                      !.carrying = IF Carried(stop) THEN stop.kind ELSE "none",
                                      !.until = IF Carried(stop) THEN stop.left ELSE 0]]
     /\ unaccounted' = [e \in Emails |-> IF e \in mine /\ rows[e].status = "PROCESSING"
                                         THEN unaccounted[e] + 1 ELSE unaccounted[e]]
     /\ UNCHANGED <<setting, stopRecord, trouble, crashes, events, accepted, told>>

(* The scheduled pass, the drain after a response, and a press that sends its own row now. *)
ScheduledClaim(w, bulkRoom) == Claim(w, Emails, bulkRoom) /\ UNCHANGED presses

PressClaim(w, e) ==
  /\ presses < setting.presses
  /\ presses' = presses + 1
  /\ Claim(w, {e}, AllBulk)

-----------------------------------------------------------------------------
(* One row of a batch: before the provider is asked. *)

NextOf(S) == Min(IF S \ setting.bulk # {} THEN S \ setting.bulk ELSE S)

Working(w) == batch[w].left # {} /\ batch[w].row = Nothing

Without(b, e) == IF b.left = {e} THEN Idle
                 ELSE [b EXCEPT !.left = @ \ {e}, !.tries = [@ EXCEPT ![e] = 0]]

Waits(b, e) ==
  \/ b.carrying = "none" /\ b.pause # Nothing /\ OnMailgunRoad(e)
  \/ b.carrying # "none" /\ e \in setting.bulk /\ OnMailgunRoad(e)

WaitOf(b) == IF b.carrying # "none" THEN b.until ELSE b.pause

(* Mutant: given back once more than it was taken. *)
GivenBackTwice(r, tries, left) ==
  [r EXCEPT !.status = "PENDING", !.lease = 0, !.wait = left, !.attempts = tries - 2]

(* Nothing was tried: the attempt the claim counted is given back. *)
GivenBack(r, tries, left) ==
  [r EXCEPT !.status = "PENDING", !.lease = 0, !.wait = left,
            !.attempts = IF tries > 0 THEN tries - 1 ELSE 0]

(* releaseForPause: the row waits for the stop, its attempt given back. *)
HandBack(w) ==
  /\ Working(w)
  /\ LET b == batch[w]
         e == NextOf(b.left)
     IN /\ Waits(b, e)
        /\ SetRow(e, GivenBack(rows[e], b.tries[e], WaitOf(b)))
        /\ batch' = [batch EXCEPT ![w] = Without(b, e)]
  /\ UNCHANGED <<setting, stopRecord, trouble, crashes, presses, events, ghosts>>

(* The message has nothing left to say: its row is deleted.  Or its template throws: the
   row has failed, and nobody tries it again by itself. *)
RenderEnds(w, status) ==
  /\ Working(w) /\ trouble < setting.trouble
  /\ LET b == batch[w]
         e == NextOf(b.left)
     IN /\ ~Waits(b, e)
        /\ SetRow(e, [rows[e] EXCEPT !.status = status, !.lease = 0, !.wait = 0])
        /\ batch' = [batch EXCEPT ![w] = Without(b, e)]
  /\ trouble' = trouble + 1
  /\ UNCHANGED <<setting, stopRecord, crashes, presses, events, ghosts>>

Withdraw(w) == RenderEnds(w, "withdrawn")
RenderFails(w) == RenderEnds(w, "FAILED")

-----------------------------------------------------------------------------
(* The provider's call, outside every transaction. *)

(* "later" is the address's own temporary refusal: the connection is fine and the message is
   the queue's to try again, never Mailgun's. *)
GmailAnswers == {"taken", "lost", "later", "paced", "full", "down", "refused"}
MailgunAnswers == {"taken", "lost", "fails", "refused", "account"} \cup setting.refusals

OfGmail(answer, stop) ==
  [outcome |-> CASE answer = "taken" -> "sent"
                 [] answer \in {"lost", "later"} -> "transient"
                 [] OTHER -> answer,
   by |-> "gmail", stop |-> stop, knocked |-> stop # "none"]

OfMailgun(answer) ==
  [outcome |-> CASE answer = "taken" -> "sent"
                 [] answer \in {"lost", "fails"} -> "transient"
                 [] answer = "paused" -> "ratePaused"
                 [] OTHER -> answer,
   by |-> "mailgun", stop |-> "none", knocked |-> TRUE]

(* One send: what each road was asked and answered ("unasked" when it was not), the outcome
   the outbox is given, and what the message cost.  A failure of Gmail before it could have
   taken the message sends it to Mailgun at once, a refusal of the account by Mailgun sends
   it to Gmail when the club lets it; a message only Gmail may carry goes to nobody else. *)
Road(b, e) == IF b.carrying # "none" THEN "gmailOnly"
              ELSE IF OnGmailRoad(e) THEN "gmail" ELSE "mailgun"

Spills(e) == (setting.overflow \/ setting.fallback) /\ e \notin setting.bulk

Calls(b, e) ==
  LET road == Road(b, e)
      asksGmail == IF b.gmailDown THEN {"down"} ELSE GmailAnswers
  IN  { [gmail |-> g, mailgun |-> "unasked",
         result |-> IF g \in {"full", "down"}
                    THEN [OfGmail("full", "none") EXCEPT !.knocked = FALSE]
                    ELSE OfGmail(g, "none")]
          : g \in IF road = "gmailOnly" THEN asksGmail
                  ELSE IF road = "gmail" THEN asksGmail \ {"down"} ELSE {} }
      \cup
      { [gmail |-> g, mailgun |-> m, result |-> OfMailgun(m)]
          : g \in IF road = "gmail" THEN asksGmail \cap {"full", "down"} ELSE {},
            m \in MailgunAnswers }
      \cup
      { [gmail |-> "unasked", mailgun |-> m, result |-> OfMailgun(m)]
          : m \in IF road = "mailgun"
                  THEN IF Spills(e) /\ ~b.gmailDown
                       THEN MailgunAnswers \ {"paused", "allowance"} ELSE MailgunAnswers
                  ELSE {} }
      \cup
      { [gmail |-> g, mailgun |-> m,
         result |-> IF g \in {"full", "down"} THEN OfMailgun(m) ELSE OfGmail(g, m)]
          : g \in IF road = "mailgun" /\ Spills(e) /\ ~b.gmailDown THEN GmailAnswers ELSE {},
            m \in setting.refusals }

Took(call) == \/ call.gmail \in {"taken", "lost"}
              \/ call.mailgun \in {"taken", "lost"}

Cost(b, call) == Cardinality({x \in {"gmail", "mailgun"} : call[x] \notin {"taken", "unasked"}})
                 - (IF b.gmailDown /\ call.gmail = "down" THEN 1 ELSE 0)

Copies(e) == Cardinality({a \in accepted : a.email = e})

AcceptedBy(b, e, call) ==
  IF Took(call)
  THEN {[email |-> e, copy |-> Copies(e) + 1, age |-> PaceWindow,
         road |-> IF call.gmail \in {"taken", "lost"} THEN "gmail"
                  ELSE IF call.mailgun = "lost" THEN "lost"
                  ELSE IF OnGmailRoad(e) THEN "spilled" ELSE "mailgun"]}
  ELSE {}

Send(w) ==
  /\ Working(w)
  /\ LET b == batch[w]
         e == NextOf(b.left)
     IN /\ ~Waits(b, e)
        /\ \E call \in Calls(b, e) :
             /\ trouble + Cost(b, call) =< setting.trouble
             /\ trouble' = trouble + Cost(b, call)
             /\ batch' = [batch EXCEPT ![w] = [b EXCEPT !.row = e, !.result = call.result,
                            !.gmailDown = @ \/ call.gmail \in {"down", "lost"}]]
             /\ accepted' = accepted \cup AcceptedBy(b, e, call)
             /\ unaccounted' = [unaccounted EXCEPT ![e] = @ +
                                  (IF "lost" \in {call.gmail, call.mailgun} THEN 1 ELSE 0)]
  /\ UNCHANGED <<setting, rows, stopRecord, crashes, presses, events, told>>

-----------------------------------------------------------------------------
(* The outcome, written by the row's id whoever holds its lease by now. *)

(* nextAttemptAt: soon at first, and at the latest the ceiling. *)
Backoff(attempts) == IF attempts > 1 THEN MaxDelay ELSE 1

(* Both the attempt given back and the backoff count from the attempts the row was claimed with. *)
Outcome(r, b, e) ==
  LET out == b.result.outcome
      pending == [r EXCEPT !.status = "PENDING", !.lease = 0]
  IN CASE out = "sent" ->
            [r EXCEPT !.status = "SENT", !.lease = 0, !.wait = 0, !.mark = "none",
                      !.fresh = PaceWindow, !.sent = TRUE,
                      !.viaGmail = (b.result.by = "gmail")]
       [] out = "full" /\ b.carrying # "none" ->
            [GivenBack(r, b.tries[e], Min({1, b.until})) EXCEPT !.mark = "waitsForGmail"]
       [] out = "full" /\ b.carrying = "none" -> [pending EXCEPT !.wait = AllowanceFor, !.mark = "none"]
       [] out = "paced" -> GivenBack(r, b.tries[e], 1)
       [] out = "ratePaused" -> [GivenBack(r, b.tries[e], PauseFor) EXCEPT !.mark = "paused"]
       [] out = "allowance" -> [pending EXCEPT !.wait = AllowanceFor, !.mark = "allowance"]
       [] out = "transient" -> [pending EXCEPT !.wait = Backoff(b.tries[e]), !.mark = "none"]
       [] out = "refused" -> [r EXCEPT !.status = "BOUNCED", !.lease = 0, !.wait = 0, !.mark = "none"]
       [] OTHER -> [r EXCEPT !.status = "FAILED", !.lease = 0, !.wait = 0, !.mark = "none"]

(* A row deleted meanwhile takes no write. *)
Written(r, b, e) == IF r.status = "withdrawn" THEN r ELSE Outcome(r, b, e)

(* Mutant: the stop is forgotten when Gmail took the message. *)
AnnouncedByTheOutcome(b) ==
  IF b.result.outcome = "ratePaused" THEN "paused"
  ELSE IF b.result.outcome = "allowance" THEN "allowance"
  ELSE "none"

(* The stop an answer announces, and the one a batch writes again before it relabels a row. *)
Announced(b) ==
  IF b.result.stop # "none" THEN b.result.stop
  ELSE IF b.result.outcome = "ratePaused" THEN "paused"
  ELSE IF b.result.outcome = "allowance" THEN "allowance"
  ELSE "none"

StopFor(kind) == IF kind = "paused" THEN PauseFor ELSE AllowanceFor

Relabels(b) == b.carrying # "none" /\ b.result.outcome = "full" /\ ~b.kept

(* recordMailgunStop: one record, whichever stop ends later. *)
Recorded(kind, left) ==
  IF stopRecord.kind # "none" /\ stopRecord.left > left THEN stopRecord
  ELSE [kind |-> kind, left |-> left]

(* The worker's own memory of the stop, for the rest of its batch. *)
Heard(b, kind) ==
  IF kind = "none" THEN b
  ELSE IF setting.fallback THEN [b EXCEPT !.carrying = kind, !.until = StopFor(kind)]
  ELSE IF kind = "paused" THEN [b EXCEPT !.pause = PauseFor]
  ELSE b

(* What Mailgun said, whatever the code makes of it. *)
AskedForAPause(b) == "paused" = b.result.stop \/ b.result.outcome = "ratePaused"

Record(w) ==
  LET b == batch[w]
      e == b.row
      kind == Announced(b)
      done == [Heard(b, kind) EXCEPT !.row = Nothing, !.result = NoResult,
                                     !.kept = @ \/ Relabels(b),
                                     !.behind = @ /\ ~AskedForAPause(b)]
  IN /\ e # Nothing
     /\ SetRow(e, Written(rows[e], b, e))
     /\ stopRecord' = IF kind # "none" THEN Recorded(kind, StopFor(kind))
                      ELSE IF Relabels(b) THEN Recorded(b.carrying, b.until)
                      ELSE stopRecord
     /\ batch' = [v \in Workers |->
                    IF v = w THEN Without(done, e)
                    ELSE IF AskedForAPause(b) /\ batch[v] # Idle
                    THEN [batch[v] EXCEPT !.behind = TRUE] ELSE batch[v]]
     /\ told' = IF AskedForAPause(b) THEN Max({told, PauseFor}) ELSE told
     /\ UNCHANGED <<setting, trouble, crashes, presses, events, accepted, unaccounted>>

-----------------------------------------------------------------------------
(* The world: a worker dies with what it knew, an hour passes, Mailgun tells. *)

Crash(w) ==
  /\ batch[w] # Idle /\ crashes < setting.crashes
  /\ crashes' = crashes + 1
  /\ batch' = [batch EXCEPT ![w] = Idle]
  /\ accepted' = {IF batch[w].row = a.email /\ batch[w].result.outcome = "sent" /\ a.road = "mailgun"
                  THEN [a EXCEPT !.road = "lost"] ELSE a : a \in accepted}
  /\ UNCHANGED <<setting, rows, stopRecord, trouble, presses, events, unaccounted, told>>

(* Where the platform cuts a run off before its lease ends, no worker outlives it. *)
WithinLease(w) ==
  \A e \in batch[w].left : rows[e].status = "PROCESSING" => rows[e].lease > 1

Less(n) == IF n > 0 THEN n - 1 ELSE n

Tick ==
  /\ setting.outlives \/ \A w \in Workers : WithinLease(w)
  /\ rows' = [e \in Emails |-> [rows[e] EXCEPT !.wait = Less(@), !.lease = Less(@), !.fresh = Less(@)]]
  /\ stopRecord' = IF stopRecord.left > 1 THEN [stopRecord EXCEPT !.left = @ - 1]
                   ELSE [kind |-> "none", left |-> 0]
  /\ batch' = [w \in Workers |-> [batch[w] EXCEPT !.pause = Less(@), !.until = Less(@)]]
  /\ accepted' = {[a EXCEPT !.age = Less(@)] : a \in accepted}
  /\ told' = Less(told)
  /\ UNCHANGED <<setting, trouble, crashes, presses, events, unaccounted>>

(* Mutant: a late bounce is written over a complaint. *)
MailgunSaysAnything(e, verdict) ==
  /\ rows[e].sent /\ rows[e].status \notin {"withdrawn", verdict}
  /\ events < setting.events /\ events' = events + 1
  /\ SetRow(e, [rows[e] EXCEPT !.status = verdict, !.lease = 0, !.wait = 0, !.mark = "none"])
  /\ UNCHANGED <<setting, stopRecord, batch, trouble, crashes, presses, ghosts>>

(* applyMailgunEvent: a permanent failure or a complaint about a message that left, as
   often and as late as Mailgun likes.  A complaint is never turned into a bounce. *)
MailgunSays(e, verdict) ==
  /\ rows[e].sent /\ rows[e].status # "withdrawn"
  /\ verdict = "BOUNCED" => rows[e].status # "COMPLAINED"
  /\ rows[e].status # verdict
  /\ events < setting.events /\ events' = events + 1
  /\ SetRow(e, [rows[e] EXCEPT !.status = verdict, !.lease = 0, !.wait = 0, !.mark = "none"])
  /\ UNCHANGED <<setting, stopRecord, batch, trouble, crashes, presses, ghosts>>

Work(w) == HandBack(w) \/ Withdraw(w) \/ RenderFails(w) \/ Send(w) \/ Record(w)

Next ==
  \/ \E e \in Emails : Enqueue(e) \/ ReplaceRow(e)
  \/ RetryFailed
  \/ \E w \in Workers : Work(w) \/ Crash(w)
  \/ \E w \in Workers : \E bulkRoom \in 0..AllBulk : ScheduledClaim(w, bulkRoom)
  \/ \E w \in Workers, e \in Emails : PressClaim(w, e)
  \/ \E e \in Emails, v \in {"BOUNCED", "COMPLAINED"} : MailgunSays(e, v)
  \/ Tick

(* The pinger calls the job, a called worker goes through its batch, and time passes. *)
Fairness ==
  /\ WF_vars(Tick)
  /\ \A w \in Workers : WF_vars(Work(w)) /\ WF_vars(ScheduledClaim(w, 0))

Spec == Init /\ [][Next]_vars /\ Fairness

-----------------------------------------------------------------------------
(* Properties. *)

(* A provider takes a message a second time only for an answer that was lost, a worker that
   died or a lease that ran out: twice is the price of never losing one, never a habit. *)
SentAgainOnlyForALostAnswer ==
  \A e \in Emails : Copies(e) =< 1 + unaccounted[e]

(* A claimed row is one worker's until its lease runs out. *)
OneWorkerPerRow ==
  ~setting.outlives =>
    \A v, w \in Workers : v # w => batch[v].left \cap batch[w].left = {}

(* Two workers claiming at once, and whatever they hold, never take Mailgun past its hour:
   what it took in the window, less the answers nobody lived to write down and the rows
   Gmail could not carry, stays within the allowance. *)
HourNotOverrun ==
  ~setting.outlives =>
    Cardinality({a \in accepted : a.age > 0 /\ a.road = "mailgun"}) =< setting.hour

Knocks(w) == ~batch[w].result.knocked /\ batch'[w].result.knocked

(* The record keeps the stop that ends later, and one that is carried by Gmail closes the road anyhow. *)
AllowanceTookItsPlace == ~setting.fallback /\ stopRecord.kind = "allowance"

(* Once a pause is written down, Mailgun is asked for nothing on its road until the pause ends,
   except by the batches already under way elsewhere and where the record has become a spent
   allowance's: the pause is then remembered by its own row alone. *)
NoKnockDuringAPause ==
  [][\A w \in Workers :
       Knocks(w) /\ OnMailgunRoad(batch'[w].row)
         => told = 0 \/ batch[w].behind \/ AllowanceTookItsPlace]_vars

(* What a person said of a message stands: no worker and no later event writes over it. *)
ComplaintStands ==
  [][\A e \in Emails : ~setting.outlives /\ rows[e].status = "COMPLAINED"
                         => rows'[e].status = "COMPLAINED"]_vars

Queued(e) == rows[e].status \in {"PENDING", "PROCESSING"}
=============================================================================
