----------------------------- MODULE JobSchedule -----------------------------
(***************************************************************************)
(* When a job looks at the database again.  A ping that finds "nothing due *)
(* until" in the framework's cache is answered from there; one that does   *)
(* not runs the job, reads when it will next have something to do, and     *)
(* leaves that promise in the cache, one entry for each slot of its quiet. *)
(* An entry is written once and never over; a write path that makes work   *)
(* sooner forgets all of a job's entries, when its request ends.           *)
(*                                                                         *)
(* Instants are kept as ticks from now, so that a tick is the same step on *)
(* any day; only the hour of the day is told apart.                        *)
(***************************************************************************)
EXTENDS Integers, FiniteSets, FiniteSetsExt

CONSTANTS
  Chores,      \* the pieces of work the job may be given
  Runs,        \* the pings that may be at work at once: two schedulers call
  Day,         \* a day, in ticks; the daily window is at its beginning
  MinGap,      \* DAILY_WINDOW_MIN_GAP_MINUTES
  SlotWidth,   \* SLOT_MINUTES
  HourWidth,   \* HOUR_SLOT_MINUTES
  FineSpan,    \* FINE_SLOT_SPAN_MINUTES
  Intervals,   \* JOB_CADENCE_CHOICES
  Stretch,     \* ALIGN_STRETCH_MINUTES
  Dues,        \* how far ahead work may be due when it is made
  LongestRun,  \* bound: how long the platform lets a run go on
  SetbacksMax, \* bound: runs that fail or die, requests that die before their end, entries lost
  ChangesMax   \* bound: how often the interval is changed

(* The longest interval, stretched to its boundary, ends before the daily window at its furthest. *)
ASSUME JobAssumption ==
  /\ IsFiniteSet(Chores) /\ Dues \subseteq Nat /\ Intervals \subseteq Nat
  /\ {Day, SlotWidth, HourWidth} \subseteq Nat \ {0} /\ {MinGap, FineSpan, Stretch} \subseteq Nat
  /\ \A length \in Intervals : length + Stretch <= Day + MinGap

VARIABLES
  job,        \* "maintenance" plans only what is ahead of it, "outbox" what it left behind too
  hour,       \* the time of day
  chore,      \* the rows that will need the job
  cache,      \* the entries of the job's promises and of its minimum interval
  run,        \* the pings at work
  interval,   \* platform_settings.jobCadence, or the budget's floor above it
  forgetting, \* a change of the interval whose request has not ended
  called,     \* a ping came in this tick
  setbacks, changes

jobVars == <<job, hour, chore, cache, run, interval, forgetting, called, setbacks, changes>>

(* The longest quiet any run may promise. *)
MaxQuiet == Max({Day + MinGap} \cup Intervals)

Families == {"due", "dueHour", "floor"}
WidthOf(family) == IF family = "dueHour" THEN HourWidth ELSE SlotWidth

NoChore == [state |-> "none", left |-> 0, old |-> FALSE, known |-> TRUE, wake |-> "none"]
NoRun == [at |-> "idle", age |-> 0, failed |-> FALSE, until |-> 0, floor |-> 0, unseen |-> {}]

(* How far ahead an instant may be, and how late a job before the count stops. *)
Furthest == MaxQuiet + Max(Intervals) + Stretch
Overdue == MaxQuiet + (SetbacksMax + 1) * (LongestRun + 1 + Max(Intervals) + Stretch)

JobTypeOK ==
  /\ job \in {"maintenance", "outbox"} /\ hour \in 0..(Day - 1) /\ interval \in Intervals
  /\ chore \in [Chores -> [state : {"none", "pending", "done"}, left : (0 - Overdue)..MaxQuiet + Day, old : BOOLEAN,
                           known : BOOLEAN, wake : {"none", "queued", "landed", "lost", "skipped"}]]
  /\ cache \subseteq [family : Families, start : (0 - HourWidth)..Furthest, until : 0..Furthest, unseen : SUBSET Chores]
  /\ run \in [Runs -> [at : {"idle", "working", "worked", "planned"}, age : 0..LongestRun, failed : BOOLEAN,
                       until : (0 - LongestRun)..Furthest, floor : (0 - LongestRun)..Furthest, unseen : SUBSET Chores]]
  /\ forgetting \in BOOLEAN /\ called \in BOOLEAN
  /\ setbacks \in 0..SetbacksMax /\ changes \in 0..ChangesMax

JobInit ==
  /\ job \in {"maintenance", "outbox"} /\ hour = 0 /\ interval \in Intervals
  /\ chore = [c \in Chores |-> NoChore] /\ cache = {} /\ run = [r \in Runs |-> NoRun]
  /\ forgetting = FALSE /\ called = FALSE /\ setbacks = 0 /\ changes = 0

-----------------------------------------------------------------------------
(* The arithmetic of the promise.  An instant is a number of ticks from now, behind it or ahead. *)

HourAt(at) == (hour + at + Day) % Day
StartOf(at, width) == at - (HourAt(at) % width)

(* From the slot of one instant to the last that begins before the other. *)
SlotsBetween(from, until, width) ==
  {s \in StartOf(from, width)..(until - 1) : StartOf(s, width) = s /\ until > from}

(* The first window at least the gap after the run. *)
DailyWindowEnd(ranAt) == CHOOSE at \in (ranAt + MinGap)..(ranAt + MinGap + Day - 1) : HourAt(at) = 0

(* The interval's own next boundary, or the last slot the stretch reaches. *)
MinimumIntervalEnd(ranAt, length) ==
  LET earliest == ranAt + length
      reach == earliest..(earliest + Stretch)
      boundaries == {at \in reach : HourAt(at) % length = 0}
      slots == {at \in reach : HourAt(at) % SlotWidth = 0}
  IN IF boundaries # {} THEN Min(boundaries) ELSE Max(slots \cup {earliest})

-----------------------------------------------------------------------------
(* A ping. *)

EntriesNow(family) == {e \in cache : e.family = family /\ e.start = StartOf(0, WidthOf(family))}

(* The slot's own entry, and the hour's only where that is missing. *)
DueRead == IF EntriesNow("due") # {} THEN EntriesNow("due") ELSE EntriesNow("dueHour")

NothingDue == \E e \in DueRead : e.until > 0
HeldBack == \E e \in EntriesNow("floor") : e.until > 0

PingAnswered ==
  /\ NothingDue \/ HeldBack
  /\ called' = TRUE
  /\ UNCHANGED <<job, hour, chore, cache, run, interval, forgetting, setbacks, changes>>

PingRuns(r) ==
  /\ ~NothingDue /\ ~HeldBack
  /\ run[r].at = "idle" /\ \A q \in Runs : q < r => run[q].at # "idle"
  /\ run' = [run EXCEPT ![r] = [NoRun EXCEPT !.at = "working"]]
  /\ called' = TRUE
  /\ UNCHANGED <<job, hour, chore, cache, interval, forgetting, setbacks, changes>>

-----------------------------------------------------------------------------
(* The run: its work, its plan, and the promise it leaves. *)

ToDo == {c \in Chores : chore[c].state = "pending"}

(* Due at the run's own instant, which it read when it began. *)
DueFor(r) == {c \in ToDo : chore[c].old \/ chore[c].left <= 0 - run[r].age}

DoneWith(S) ==
  [c \in Chores |-> IF c \in S THEN [chore[c] EXCEPT !.state = "done", !.left = 0, !.old = FALSE] ELSE chore[c]]

(* The outbox takes a batch; the maintenance does all, unless a step of it throws. *)
RunWorks(r) ==
  /\ run[r].at = "working"
  /\ \E S \in SUBSET DueFor(r), failed \in BOOLEAN :
       /\ ~failed => S = DueFor(r) \/ (job = "outbox" /\ S # {})
       /\ failed => job = "maintenance" /\ setbacks < SetbacksMax
       /\ setbacks' = IF failed THEN setbacks + 1 ELSE setbacks
       /\ chore' = DoneWith(S)
       /\ run' = [run EXCEPT ![r].at = "worked", ![r].failed = failed]
  /\ UNCHANGED <<job, hour, cache, interval, forgetting, called, changes>>

(* Of the maintenance's duties those the plan has a query for, and only what is still ahead of the
   run's own instant; of the outbox's rows every one, those it left behind included. *)
AheadOf(r) == {c \in ToDo : chore[c].known} \ DueFor(r)
Foreseen(r) == IF job = "outbox" THEN ToDo ELSE AheadOf(r)

FloorEnd(ranAt) == IF interval = 0 THEN ranAt ELSE MinimumIntervalEnd(ranAt, interval)

(* Mutant: the minimum interval begins at the window. *)
IntervalAfterWindow(ranAt) == FloorEnd(DailyWindowEnd(ranAt))

(* Until its next work, and never beyond the window, or the interval's end where that is later; a
   run that could not finish promises nothing. *)
Cap(ranAt) == Max({FloorEnd(ranAt), DailyWindowEnd(ranAt)})

QuietUntil(r) ==
  LET ranAt == 0 - run[r].age
  IN IF run[r].failed THEN ranAt ELSE Max({ranAt, Min({Cap(ranAt)} \cup {chore[c].left : c \in Foreseen(r)})})

ReadPlan(r) ==
  /\ run[r].at = "worked"
  /\ run' = [run EXCEPT ![r].at = "planned", ![r].until = QuietUntil(r),
                        ![r].floor = FloorEnd(0 - run[r].age),
                        ![r].unseen = {c \in ToDo : chore[c].known} \ Foreseen(r)]
  /\ UNCHANGED <<job, hour, chore, cache, interval, forgetting, called, setbacks, changes>>

Entry(r, family, start, until) ==
  [family |-> family, start |-> start, until |-> Max({0, until}), unseen |-> run[r].unseen]

(* Five-minute slots for the first hour, hours beyond it, and the interval's own. *)
PromiseOf(r) ==
  LET ranAt == 0 - run[r].age
      until == run[r].until
      fineUntil == Min({until, ranAt + FineSpan})
  IN {Entry(r, "due", s, until) : s \in SlotsBetween(ranAt, fineUntil, SlotWidth)}
     \cup {Entry(r, "dueHour", s, until) : s \in SlotsBetween(fineUntil, until, HourWidth)}
     \cup {Entry(r, "floor", s, run[r].floor) : s \in SlotsBetween(ranAt, run[r].floor, SlotWidth)}

PastSlot(e) == e.start + WidthOf(e.family) <= 0

(* An entry holds what it was given first. *)
WrittenOnce(S) ==
  cache \cup {p \in S : ~PastSlot(p) /\ \A e \in cache : p.family # e.family \/ p.start # e.start}

PlanLands(r) ==
  /\ run[r].at = "planned"
  /\ cache' = WrittenOnce(PromiseOf(r))
  /\ run' = [run EXCEPT ![r] = NoRun]
  /\ UNCHANGED <<job, hour, chore, interval, forgetting, called, setbacks, changes>>

(* The database is away, the plan cannot be read, the platform stops the run: nothing is promised. *)
RunEndsEarly(r) ==
  /\ run[r].at # "idle" /\ setbacks < SetbacksMax
  /\ setbacks' = setbacks + 1
  /\ run' = [run EXCEPT ![r] = NoRun]
  /\ UNCHANGED <<job, hour, chore, cache, interval, forgetting, called, changes>>

-----------------------------------------------------------------------------
(* The write paths. *)

(* A row that will need the job; a run that has read its plan has not seen it. *)
Make(c, due, old, known, wake) ==
  /\ chore[c].state = "none" /\ \A d \in Chores : d < c => chore[d].state # "none"
  /\ old => due = 0
  /\ chore' = [chore EXCEPT ![c] = [state |-> "pending", left |-> due, old |-> old, known |-> known, wake |-> wake]]
  /\ run' = [r \in Runs |-> IF run[r].at = "planned" /\ known THEN [run[r] EXCEPT !.unseen = @ \cup {c}] ELSE run[r]]
  /\ UNCHANGED <<job, hour, cache, interval, forgetting, called, setbacks, changes>>

(* What is further away than any quiet needs no wake; any other's waits for the request's end. *)
WakeFor(due) == IF due >= MaxQuiet THEN "none" ELSE "queued"
Commit(c, due, old) == Make(c, due, old, TRUE, WakeFor(due))

(* A duty the plan has no query for, from a path that does not wake the job. *)
CommitForgotten(c, due) == Make(c, due, FALSE, FALSE, "none")

(* The run makes work of its own, and forgets nothing of its own: "skipped" where a promise is
   already there, which the one it will leave cannot replace. *)
AlreadyPromised == \E e \in cache : e.family # "floor" /\ e.until > 0

RunMakesWork(r, c, due) ==
  run[r].at = "working" /\ Make(c, due, FALSE, TRUE, IF AlreadyPromised THEN "skipped" ELSE "none")

(* Mutant: the wake forgets the five-minute slots only. *)
FineForgotten == {e \in cache : e.family # "due"}

DueForgotten == {e \in cache : e.family = "floor"}

RequestEnds(c) ==
  /\ chore[c].wake = "queued"
  /\ chore' = [chore EXCEPT ![c].wake = "landed"]
  /\ cache' = DueForgotten
  /\ UNCHANGED <<job, hour, run, interval, forgetting, called, setbacks, changes>>

RequestDies(c) ==
  /\ chore[c].wake = "queued" /\ setbacks < SetbacksMax
  /\ setbacks' = setbacks + 1
  /\ chore' = [chore EXCEPT ![c].wake = "lost"]
  /\ UNCHANGED <<job, hour, cache, run, interval, forgetting, called, changes>>

(* The framework may lose an entry. *)
Evict(e) ==
  /\ setbacks < SetbacksMax /\ setbacks' = setbacks + 1
  /\ cache' = cache \ {e}
  /\ UNCHANGED <<job, hour, chore, run, interval, forgetting, called, changes>>

(* updateJobCadence, and forgetJobSchedules when its request ends. *)
ChangeInterval(length) ==
  /\ length # interval /\ changes < ChangesMax /\ ~forgetting
  /\ interval' = length /\ forgetting' = TRUE /\ changes' = changes + 1
  /\ UNCHANGED <<job, hour, chore, cache, run, called, setbacks>>

ForgetSchedules ==
  /\ forgetting /\ forgetting' = FALSE /\ cache' = {}
  /\ UNCHANGED <<job, hour, chore, run, interval, called, setbacks, changes>>

-----------------------------------------------------------------------------
(* The clock: the scheduler called in this tick, or is answered from the cache as it ends; and no
   run outlives its bound. *)

Nearer(left) == IF left > 0 - Overdue THEN left - 1 ELSE left

RunAgain(r) ==
  IF run[r].at = "idle" THEN run[r]
  ELSE LET planned == IF run[r].at = "planned" THEN 1 ELSE 0
       IN [run[r] EXCEPT !.age = @ + 1, !.until = @ - planned, !.floor = @ - planned]

JobTick ==
  /\ called \/ NothingDue \/ HeldBack
  /\ called' = FALSE
  /\ \A r \in Runs : run[r].at # "idle" => run[r].age < LongestRun
  /\ hour' = (hour + 1) % Day
  /\ chore' = [c \in Chores |-> IF c \in ToDo THEN [chore[c] EXCEPT !.left = Nearer(@)] ELSE chore[c]]
  /\ run' = [r \in Runs |-> RunAgain(r)]
  /\ cache' = {e \in {[c EXCEPT !.start = @ - 1, !.until = Max({0, @ - 1})] : c \in cache} : ~PastSlot(e)}
  /\ UNCHANGED <<job, interval, forgetting, setbacks, changes>>

JobNext ==
  \/ PingAnswered \/ JobTick \/ ForgetSchedules
  \/ \E r \in Runs : PingRuns(r) \/ RunWorks(r) \/ ReadPlan(r) \/ PlanLands(r) \/ RunEndsEarly(r)
  \/ \E c \in Chores : RequestEnds(c) \/ RequestDies(c)
  \/ \E c \in Chores, due \in Dues : \/ CommitForgotten(c, due)
                                    \/ \E old \in BOOLEAN : Commit(c, due, old)
                                    \/ \E r \in Runs : RunMakesWork(r, c, due)
  \/ \E length \in Intervals : ChangeInterval(length)
  \/ \E e \in cache : Evict(e)

JobSpec == JobInit /\ [][JobNext]_jobVars

-----------------------------------------------------------------------------
(* Properties. *)

(* A ping is told "nothing due" while work is due only when the promise it reads comes from a run
   that had already looked for work when this work was committed, and never from one a wake has
   forgotten (wakeJobs, readDueSlot); but for what a run makes itself while another's promise
   stands. *)
QuietHidesOnlyWhatRaced ==
  \A e \in DueRead : e.until > 0 =>
    \A c \in ToDo : chore[c].known /\ chore[c].wake \notin {"queued", "lost", "skipped"} /\ chore[c].left <= 0
                      => c \in e.unseen

(* Whatever forgets to wake the job or to plan a duty costs at most the longest quiet and one run
   (planQuiet's cap); a run that fails or dies, one more run at the next ping, or where the minimum
   interval in force ends. *)
LongestFloor == IF interval = 0 /\ changes = 0 THEN 0 ELSE Max(Intervals) + Stretch

AtMostADayLate ==
  \A c \in ToDo : chore[c].left >= 0 - MaxQuiet - LongestRun - setbacks * (LongestRun + 1 + LongestFloor)
=============================================================================
