------------------------------- MODULE MCMail -------------------------------
(* The mail of the club: the outbox's queue, a visitor's message on its two roads, a family's
   sitting with what it holds back, and the calls that set a job to work.  The four share no row; a
   behaviour is one of theirs, the others still.  The outbox has two emails and two workers in seven deployments:
   what the club and the platform have set, and which kind of trouble is met there. *)
EXTENDS Outbox, Relay, FamilySitting, JobSchedule

CONSTANTS w1, w2

VARIABLE part

Quiet == [gmail |-> {}, bulk |-> {}, hour |-> 2, fallback |-> FALSE, overflow |-> FALSE,
          refusals |-> {}, outlives |-> FALSE, trouble |-> 1, crashes |-> 0, presses |-> 0, events |-> 0]

MCSettings ==
  { [Quiet EXCEPT !.refusals = {"paused"}, !.presses = 1],
    [Quiet EXCEPT !.hour = 1, !.crashes = 2, !.trouble = 2],
    [Quiet EXCEPT !.gmail = {2}, !.bulk = {1}, !.hour = 1, !.fallback = TRUE, !.trouble = 2,
                  !.refusals = {"paused", "allowance"}],
    [Quiet EXCEPT !.fallback = TRUE, !.trouble = 2, !.refusals = {"paused", "allowance"}],
    [Quiet EXCEPT !.bulk = {1}, !.overflow = TRUE, !.trouble = 2, !.refusals = {"paused", "allowance"}],
    [Quiet EXCEPT !.outlives = TRUE, !.hour = 1],
    [Quiet EXCEPT !.events = 2] }

Init3 == Init /\ RelayInit /\ SittingInit

(* The three that do not move start alike. *)
Unplanned == JobInit /\ job = "outbox" /\ interval = 0
MailInit ==
  \/ part = "queue" /\ Init3 /\ Unplanned /\ message.chosen = "gmail" /\ message.fallback
  \/ part = "roads" /\ Init3 /\ Unplanned /\ setting.events = 2
  \/ part = "family" /\ Init3 /\ Unplanned /\ setting.events = 2 /\ message.chosen = "gmail" /\ message.fallback
  \/ part = "jobs" /\ Init3 /\ JobInit /\ setting.events = 2 /\ message.chosen = "gmail" /\ message.fallback

(* Two pings that overlap, a second piece of work, a setback and a change of the interval do not
   meet; and a behaviour ends with the work. *)
OneTrouble ==
  /\ \E c \in Chores : chore[c].state # "done"
  /\ chore'[2].state # "none" => job = "outbox" /\ setbacks' = 0 /\ interval' = 0
  /\ changes' > 0 => setbacks' = 0 /\ run'[2].at = "idle"
  /\ run'[2].at # "idle" => interval' = 0 /\ setbacks' = 0
  /\ job = "outbox" => run'[2].at = "idle" /\ changes' = 0
  /\ setbacks' > 0 => interval' = 0

MailNext ==
  \/ part = "queue" /\ Next /\ UNCHANGED <<part, relayVars, sittingVars, jobVars>>
  \/ part = "roads" /\ RelayNext /\ UNCHANGED <<part, vars, sittingVars, jobVars>>
  \/ part = "family" /\ SittingNext /\ UNCHANGED <<part, vars, relayVars, jobVars>>
  \/ part = "jobs" /\ JobNext /\ OneTrouble /\ UNCHANGED <<part, vars, relayVars, sittingVars>>

MailVars == <<part, vars, relayVars, sittingVars, jobVars>>

(* The fairness of each, in the behaviours that are its own. *)
MailFairness ==
  /\ WF_vars(part = "queue" /\ Tick)
  /\ \A w \in Workers : /\ WF_vars(part = "queue" /\ Work(w))
                        /\ WF_vars(part = "queue" /\ ScheduledClaim(w, 0))
  /\ WF_relayVars(part = "roads" /\ RelayWorks) /\ SF_relayVars(part = "roads" /\ Try)
  /\ WF_relayVars(part = "roads" /\ ComesDue) /\ WF_relayVars(part = "roads" /\ DayPasses)
  /\ WF_sittingVars(part = "family" /\ ClockTicks)
  /\ \A m \in Messages : /\ WF_sittingVars(part = "family" /\ Claims(m))
                        /\ WF_sittingVars(part = "family" /\ Leaves(m))

MailSpec == MailInit /\ [][MailNext]_MailVars /\ MailFairness

(* The types of the four. *)
MailTypeOK == TypeOK /\ RelayTypeOK /\ SittingTypeOK /\ JobTypeOK

(* What still waits: an email of the queue that is not the newsletter's, the visitor's message,
   a message of the family's. *)
StillWaits(e) ==
  \/ part = "queue" /\ Queued(e) /\ e \notin setting.bulk
  \/ part = "roads" /\ StillOurs
  \/ part = "family" /\ \E m \in Messages : Waiting(mail[m])

(* No message waits for ever: the queue sends each or gives it up whatever its workers, its
   providers and its stops do; a visitor's leaves, is refused or is given up with its words
   deleted; and a family's leaves though nobody presses «Gata» and somebody «Da» again and again. *)
NothingWaitsForEver == \A e \in Emails : StillWaits(e) ~> ~StillWaits(e)
=============================================================================
