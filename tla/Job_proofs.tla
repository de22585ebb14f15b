----------------------------- MODULE Job_proofs -----------------------------
(***************************************************************************)
(* Theorem about the promises of quiet: a ping is told "nothing due" over  *)
(* due work only by a promise that raced it.  The inductive invariant says *)
(* it of every promise while it lasts, wherever it is: one a run is about  *)
(* to leave ends before any work the plan could see, or has not seen it;   *)
(* one in the cache moreover outlives no work that was too far away to     *)
(* wake for, because no promise is longer than MAX_QUIET_MINUTES.          *)
(***************************************************************************)
EXTENDS JobSchedule, FiniteSetTheorems, WellFoundedInduction, TLAPS

-----------------------------------------------------------------------------
(* The least and the greatest of a finite set of numbers. *)

\* A finite set of numbers has a least: the smallest of the sets of those not above one of them.
LEMMA SomeLeast ==
    ASSUME NEW S \in SUBSET Int, IsFiniteSet(S), S # {}
    PROVE  \E n \in S : \A y \in S : n <= y
  <1> DEFINE upTo(n) == {y \in S : y <= n}
             all == {upTo(n) : n \in S}
             R == StrictSubsetOrdering(S)
  <1>1. \A n \in S : upTo(n) \in SUBSET S /\ IsFiniteSet(upTo(n))
    BY FS_Subset
  <1>2. all \subseteq FiniteSubsetsOf(S) /\ all # {}
    BY <1>1 DEF FiniteSubsetsOf
  <1>3. IsWellFoundedOn(R, FiniteSubsetsOf(S))
    BY FS_StrictSubsetOrderingWellFounded
  <1>4. PICK D \in all : \A E \in all : <<E, D>> \notin R
    <2> HIDE DEF all, R
    <2> QED BY <1>2, <1>3, WFMin
  <1>5. PICK n \in S : D = upTo(n)
    OBVIOUS
  <1>6. ASSUME NEW y \in S, y < n
        PROVE  FALSE
    <2>1. n \in Int /\ y \in Int /\ \A z \in S : z \in Int
      OBVIOUS
    <2>2. n \in upTo(n) /\ n \notin upTo(y) /\ \A z \in S : z <= y => z <= n
      BY <1>6, <2>1
    <2>3. upTo(y) \subseteq upTo(n) /\ upTo(y) # upTo(n)
      BY <2>2
    <2>4. <<upTo(y), upTo(n)>> \in R
      BY <1>1, <2>3 DEF StrictSubsetOrdering
    <2> QED BY <1>4, <1>5, <2>4
  <1>7. \A y \in S : y \in Int /\ n \in Int
    OBVIOUS
  <1> QED BY <1>6, <1>7

LEMMA MinIs ==
    ASSUME NEW S \in SUBSET Int, IsFiniteSet(S), S # {}
    PROVE  Min(S) \in S /\ \A y \in S : Min(S) <= y
  BY SomeLeast DEF Min

LEMMA MaxIs ==
    ASSUME NEW S \in SUBSET Int, IsFiniteSet(S), S # {}
    PROVE  Max(S) \in S /\ \A y \in S : y <= Max(S)
  <1> DEFINE negated == {0 - x : x \in S}
  <1>1. negated \in SUBSET Int /\ negated # {} /\ IsFiniteSet(negated)
    <2>1. IsFiniteSet(negated)
      <3> DEFINE f == [x \in S |-> 0 - x]
      <3>1. f \in Surjection(S, negated)
        BY DEF Surjection
      <3> HIDE DEF f, negated
      <3> QED BY <3>1, FS_Surjection
    <2>2. \A x \in S : x \in Int /\ 0 - x \in Int
      OBVIOUS
    <2>3. negated \in SUBSET Int /\ negated # {}
      BY <2>2
    <2> QED BY <2>1, <2>3
  <1>2. PICK n \in negated : \A y \in negated : n <= y
    <2> HIDE DEF negated
    <2> QED BY <1>1, SomeLeast
  <1>3. PICK x \in S : n = 0 - x
    OBVIOUS
  <1>4. \A y \in S : x >= y
    <2> TAKE y \in S
    <2>1. 0 - y \in negated /\ y \in Int /\ x \in Int
      OBVIOUS
    <2> QED BY <1>2, <1>3, <2>1
  <1>5. Max(S) \in S /\ \A y \in S : Max(S) >= y
    BY <1>4 DEF Max
  <1>6. \A y \in S : y \in Int
    OBVIOUS
  <1> QED BY <1>5, <1>6

\* Of two numbers.
LEMMA MaxOfTwo ==
    ASSUME NEW x \in Int, NEW y \in Int
    PROVE  Max({x, y}) = IF x >= y THEN x ELSE y
  BY DEF Max

-----------------------------------------------------------------------------
(* How long a promise may be. *)

LEMMA MaxQuietIs ==
    MaxQuiet = Day + MinGap /\ MaxQuiet \in Nat
  <1> DEFINE S == {Day + MinGap} \cup Intervals
             W == Day + MinGap
  <1>1. \A y \in S : W \in Int /\ y \in Int /\ W >= y
    BY JobAssumption
  <1>2. W \in S
    OBVIOUS
  <1>3. Max(S) \in S /\ \A y \in S : Max(S) >= y
    BY <1>1, <1>2 DEF Max
  <1>4. Max(S) = W
    <2> HIDE DEF S, W
    <2> QED BY <1>1, <1>2, <1>3
  <1>5. W \in Nat
    BY JobAssumption
  <1> QED BY <1>4, <1>5 DEF MaxQuiet

\* Within a day of any instant a day begins (the search of dailyWindowEnd finds its window).
LEMMA ADayBegins ==
    ASSUME NEW x \in Int
    PROVE  \E k \in 0..(Day - 1) : (x + k) % Day = 0
  <1> DEFINE m == x % Day
             q == x \div Day
  <1>0. Day \in Nat \ {0}
    BY JobAssumption
  <1>1. m \in 0..(Day - 1) /\ q \in Int /\ x = Day * q + m
    BY <1>0, SMT
  <1>2. CASE m = 0
    BY <1>0, <1>2
  <1>3. CASE m > 0
    <2>1. x + (Day - m) = Day * (q + 1)
      BY <1>0, <1>1, SMT
    <2>2. (Day * (q + 1)) % Day = 0
      BY <1>0, <1>1, SMT
    <2> QED BY <1>0, <1>1, <1>3, <2>1, <2>2
  <1> QED BY <1>1, <1>2, <1>3

LEMMA WindowIs ==
    ASSUME hour \in Int, NEW ranAt \in Int
    PROVE  DailyWindowEnd(ranAt) \in Int /\ DailyWindowEnd(ranAt) <= ranAt + MaxQuiet
  <1> DEFINE reach == (ranAt + MinGap)..(ranAt + MinGap + Day - 1)
  <1>1. Day \in Nat \ {0} /\ MinGap \in Nat
    BY JobAssumption
  <1>2. PICK k \in 0..(Day - 1) : (hour + (ranAt + MinGap) + Day + k) % Day = 0
    <2>1. hour + (ranAt + MinGap) + Day \in Int
      BY <1>1
    <2> QED BY <2>1, ADayBegins
  <1>3. ranAt + MinGap + k \in reach /\ hour + (ranAt + MinGap + k) + Day = hour + (ranAt + MinGap) + Day + k
    BY <1>1
  <1>4. \E at \in reach : HourAt(at) = 0
    BY <1>2, <1>3 DEF HourAt
  <1>5. DailyWindowEnd(ranAt) \in reach
    BY <1>4 DEF DailyWindowEnd
  <1> QED BY <1>1, <1>5, MaxQuietIs

LEMMA FloorIs ==
    ASSUME hour \in Int, interval \in Intervals, NEW ranAt \in Int
    PROVE  FloorEnd(ranAt) \in Int /\ FloorEnd(ranAt) <= ranAt + MaxQuiet
  <1> DEFINE earliest == ranAt + interval
             reach == earliest..(earliest + Stretch)
             boundaries == {at \in reach : HourAt(at) % interval = 0}
             slots == {at \in reach : HourAt(at) % SlotWidth = 0}
  <1>1. interval \in Nat /\ Stretch \in Nat /\ interval + Stretch <= MaxQuiet /\ MaxQuiet \in Nat
    BY JobAssumption, MaxQuietIs
  <1>2. reach \in SUBSET Int /\ IsFiniteSet(reach) /\ earliest \in reach
    BY <1>1, FS_Interval
  <1>3. ASSUME boundaries # {}
        PROVE  Min(boundaries) \in reach
    <2>1. boundaries \in SUBSET Int /\ IsFiniteSet(boundaries) /\ boundaries \subseteq reach
      BY <1>2, FS_Subset
    <2> HIDE DEF boundaries
    <2> QED BY <1>3, <2>1, MinIs
  <1>4. Max(slots \cup {earliest}) \in reach
    <2> DEFINE S == slots \cup {earliest}
    <2>1. S \subseteq reach /\ S # {}
      BY <1>2
    <2>2. Max(S) \in S
      <3>1. S \in SUBSET Int /\ IsFiniteSet(S)
        <4> HIDE DEF S, reach
        <4> QED BY <1>2, <2>1, FS_Subset
      <3> HIDE DEF S
      <3> QED BY <2>1, <3>1, MaxIs
    <2> QED BY <2>1, <2>2
  <1>5. MinimumIntervalEnd(ranAt, interval) \in reach
    BY <1>3, <1>4 DEF MinimumIntervalEnd
  <1>6. \A x \in reach : x \in Int /\ x <= ranAt + MaxQuiet
    BY <1>1
  <1> QED BY <1>1, <1>5, <1>6 DEF FloorEnd

-----------------------------------------------------------------------------
(* The invariant. *)

Choring == [state : {"none", "pending", "done"}, left : Int, old : BOOLEAN, known : BOOLEAN,
            wake : {"none", "queued", "landed", "lost", "skipped"}]
Promise == [family : Families, start : Int, until : Nat, unseen : SUBSET Chores]
Running == [at : {"idle", "working", "worked", "planned"}, age : Nat, failed : BOOLEAN,
            until : Int, floor : Int, unseen : SUBSET Chores]

RowsTyped ==
  /\ hour \in Int /\ interval \in Intervals
  /\ chore \in [Chores -> Choring] /\ cache \subseteq Promise /\ run \in [Runs -> Running]

(* No promise is longer than the longest quiet. *)
QuietBounded ==
  /\ \A e \in cache : e.family # "floor" => e.until <= MaxQuiet
  /\ \A r \in Runs : run[r].at = "planned" => run[r].until <= MaxQuiet

(* What a run is about to promise, and what it has promised and no wake has forgotten. *)
RunForetells(r, c) == run[r].at = "planned" /\ run[r].until > 0 => c \in run[r].unseen \/ run[r].until <= chore[c].left

EntryForetells(e, c) ==
  e.family # "floor" /\ e.until > 0 /\ chore[c].wake \in {"none", "landed"}
    => c \in e.unseen \/ e.until <= chore[c].left

WorkForetold ==
  \A c \in ToDo : chore[c].known => /\ \A r \in Runs : RunForetells(r, c)
                                    /\ \A e \in cache : EntryForetells(e, c)

JobInv == RowsTyped /\ QuietBounded /\ WorkForetold

\* An entry that a ping reads and that is still good stands before all the work it was told of.
LEMMA ForetoldIsNotHidden ==
    ASSUME JobInv
    PROVE  QuietHidesOnlyWhatRaced
  <1> SUFFICES ASSUME NEW e \in DueRead, e.until > 0, NEW c \in ToDo, chore[c].known,
                      chore[c].wake \notin {"queued", "lost", "skipped"}, chore[c].left <= 0
               PROVE  c \in e.unseen
    BY DEF QuietHidesOnlyWhatRaced
  <1>1. e \in cache /\ e.family # "floor"
    BY DEF DueRead, EntriesNow
  <1>2. EntryForetells(e, c)
    BY <1>1 DEF JobInv, WorkForetold
  <1>3. c \in Chores /\ chore[c] \in Choring /\ e \in Promise
    BY <1>1 DEF JobInv, RowsTyped, ToDo
  <1>4. chore[c].wake \in {"none", "landed"} /\ chore[c].left \in Int /\ e.until \in Nat
    BY <1>3 DEF Choring, Promise
  <1> QED BY <1>1, <1>2, <1>4 DEF EntryForetells

LEMMA JobBegins ==
    ASSUME JobInit
    PROVE  JobInv
  <1>1. hour = 0 /\ interval \in Intervals /\ cache = {} /\ ToDo = {}
        /\ \A r \in Runs : run[r].at = "idle"
    BY DEF JobInit, ToDo, NoChore, NoRun
  <1>2. RowsTyped
    BY <1>1 DEF JobInit, RowsTyped, NoChore, NoRun, Choring, Running
  <1>3. QuietBounded /\ WorkForetold
    BY <1>1 DEF QuietBounded, WorkForetold
  <1> QED BY <1>2, <1>3 DEF JobInv

-----------------------------------------------------------------------------
(* The plan: what a run promises. *)

LEMMA QuietIs ==
    ASSUME JobInv, NEW r \in Runs
    PROVE  /\ QuietUntil(r) \in Int /\ QuietUntil(r) <= MaxQuiet
           /\ QuietUntil(r) > 0 => \A c \in Foreseen(r) : QuietUntil(r) <= chore[c].left
           /\ Foreseen(r) \subseteq ToDo
  <1> DEFINE ranAt == 0 - run[r].age
             lefts == {chore[c].left : c \in Foreseen(r)}
             ends == {Cap(ranAt)} \cup lefts
  <1>0. hour \in Int /\ interval \in Intervals /\ run[r] \in Running /\ chore \in [Chores -> Choring]
    BY DEF JobInv, RowsTyped
  <1>1. ranAt \in Int /\ ranAt <= 0 /\ MaxQuiet \in Nat
    BY <1>0, MaxQuietIs DEF Running
  <1>2. Foreseen(r) \subseteq ToDo /\ ToDo \subseteq Chores
    BY DEF Foreseen, AheadOf, ToDo
  <1>3. \A c \in Chores : chore[c].left \in Int
    BY <1>0 DEF Choring
  <1>4. IsFiniteSet(Foreseen(r))
    BY <1>2, JobAssumption, FS_Subset
  <1>5. Cap(ranAt) \in Int /\ Cap(ranAt) <= MaxQuiet
    <2>1. DailyWindowEnd(ranAt) \in Int /\ DailyWindowEnd(ranAt) <= ranAt + MaxQuiet
      BY <1>0, <1>1, WindowIs
    <2>2. FloorEnd(ranAt) \in Int /\ FloorEnd(ranAt) <= ranAt + MaxQuiet
      BY <1>0, <1>1, FloorIs
    <2>3. Cap(ranAt) = IF FloorEnd(ranAt) >= DailyWindowEnd(ranAt) THEN FloorEnd(ranAt) ELSE DailyWindowEnd(ranAt)
      BY <2>1, <2>2, MaxOfTwo DEF Cap
    <2> QED BY <1>1, <2>1, <2>2, <2>3
  <1>6. ends \in SUBSET Int /\ ends # {} /\ IsFiniteSet(ends)
    <2>1. lefts \in SUBSET Int /\ \A x \in ends : x \in Int
      BY <1>2, <1>3, <1>5
    <2>2. IsFiniteSet(lefts)
      <3> DEFINE f == [c \in Foreseen(r) |-> chore[c].left]
      <3>1. f \in Surjection(Foreseen(r), lefts)
        BY DEF Surjection
      <3> HIDE DEF f, lefts
      <3> QED BY <1>4, <3>1, FS_Surjection
    <2>3. IsFiniteSet(ends)
      <3> HIDE DEF lefts
      <3>1. ends = lefts \cup {Cap(ranAt)}
        OBVIOUS
      <3> QED BY <2>2, <3>1, FS_AddElement
    <2> QED BY <2>1, <2>3
  <1>7. Min(ends) \in Int /\ Min(ends) <= MaxQuiet /\ \A c \in Foreseen(r) : Min(ends) <= chore[c].left
    <2>1. \A c \in Foreseen(r) : chore[c].left \in ends
      OBVIOUS
    <2>2. Cap(ranAt) \in ends
      OBVIOUS
    <2>3. Min(ends) \in ends /\ \A x \in ends : Min(ends) <= x
      <3> HIDE DEF ends
      <3> QED BY <1>6, MinIs
    <2> HIDE DEF ends
    <2>4. Min(ends) \in Int /\ Min(ends) <= Cap(ranAt)
      BY <1>6, <2>2, <2>3
    <2> QED BY <1>1, <1>5, <2>1, <2>3, <2>4
  <1>8. Max({ranAt, Min(ends)}) = IF ranAt >= Min(ends) THEN ranAt ELSE Min(ends)
    <2> HIDE DEF ends, ranAt
    <2> QED BY <1>1, <1>7, MaxOfTwo
  <1>9. QuietUntil(r) = ranAt \/ QuietUntil(r) = IF ranAt >= Min(ends) THEN ranAt ELSE Min(ends)
    BY <1>8 DEF QuietUntil
  <1> HIDE DEF ends, ranAt
  <1> QED BY <1>1, <1>2, <1>7, <1>9

-----------------------------------------------------------------------------
(* The steps. *)

\* A step that makes no work and no promise.
LEMMA NothingNew ==
    ASSUME JobInv, RowsTyped', cache' \subseteq cache,
           \A r \in Runs : run'[r].at = "planned" => run'[r] = run[r],
           \A c \in ToDo' : c \in ToDo /\ chore'[c] = chore[c]
    PROVE  JobInv'
  <1>1. QuietBounded'
    BY DEF JobInv, QuietBounded
  <1>2. WorkForetold'
    <2> SUFFICES ASSUME NEW c \in ToDo', chore'[c].known
                 PROVE  /\ \A r \in Runs : RunForetells(r, c)'
                        /\ \A e \in cache' : EntryForetells(e, c)'
      BY DEF WorkForetold
    <2>1. c \in ToDo /\ chore'[c] = chore[c] /\ chore[c].known
      OBVIOUS
    <2>2. /\ \A r \in Runs : RunForetells(r, c)
          /\ \A e \in cache : EntryForetells(e, c)
      BY <2>1 DEF JobInv, WorkForetold
    <2> QED BY <2>1, <2>2 DEF RunForetells, EntryForetells
  <1> QED BY <1>1, <1>2 DEF JobInv

LEMMA PingsForetell ==
    ASSUME JobInv, NEW r \in Runs, PingRuns(r)
    PROVE  JobInv'
  <1>1. /\ UNCHANGED <<hour, interval, chore, cache>>
        /\ run' = [run EXCEPT ![r] = [NoRun EXCEPT !.at = "working"]]
    BY DEF PingRuns
  <1>2. [NoRun EXCEPT !.at = "working"] \in Running /\ [NoRun EXCEPT !.at = "working"].at = "working"
    <2>1. NoRun \in Running
      BY DEF NoRun, Running
    <2> QED BY <2>1 DEF Running
  <1>3. run \in [Runs -> Running]
    BY DEF JobInv, RowsTyped
  <1>4. RowsTyped'
    BY <1>1, <1>2, <1>3 DEF JobInv, RowsTyped
  <1>5. \A q \in Runs : run'[q].at = "planned" => run'[q] = run[q]
    BY <1>1, <1>2, <1>3
  <1>6. ToDo' = ToDo
    BY <1>1 DEF ToDo
  <1> QED BY <1>1, <1>4, <1>5, <1>6, NothingNew

LEMMA WorkForetells ==
    ASSUME JobInv, NEW r \in Runs, RunWorks(r)
    PROVE  JobInv'
  <1>1. PICK S \in SUBSET DueFor(r), failed \in BOOLEAN :
          chore' = DoneWith(S) /\ run' = [run EXCEPT ![r].at = "worked", ![r].failed = failed]
    BY DEF RunWorks
  <1>2. UNCHANGED <<hour, interval, cache>>
    BY DEF RunWorks
  <1>3. chore \in [Chores -> Choring] /\ run \in [Runs -> Running]
    BY DEF JobInv, RowsTyped
  <1>4. chore' \in [Chores -> Choring]
    <2>1. ASSUME NEW x \in Choring, NEW s \in {"none", "pending", "done"}, NEW n \in Int, NEW old \in BOOLEAN
          PROVE  [x EXCEPT !.state = s, !.left = n, !.old = old] \in Choring
      BY Zenon DEF Choring
    <2>2. \A c \in Chores : [chore[c] EXCEPT !.state = "done", !.left = 0, !.old = FALSE] \in Choring
      <3> TAKE c \in Chores
      <3>1. chore[c] \in Choring /\ 0 \in Int
        BY <1>3
      <3> QED BY <2>1, <3>1
    <2> QED BY <1>1, <1>3, <2>2 DEF DoneWith
  <1>5. run' \in [Runs -> Running] /\ \A q \in Runs : run'[q].at = "planned" => run'[q] = run[q]
    BY <1>1, <1>3 DEF Running
  <1>6. \A c \in ToDo' : c \in ToDo /\ chore'[c] = chore[c]
    BY <1>1, <1>3 DEF ToDo, DoneWith, Choring
  <1>7. RowsTyped'
    BY <1>2, <1>4, <1>5 DEF JobInv, RowsTyped
  <1> QED BY <1>2, <1>5, <1>6, <1>7, NothingNew

\* What it has planned, it has seen to the end of its quiet.
LEMMA PlanForetells ==
    ASSUME JobInv, NEW r \in Runs, ReadPlan(r)
    PROVE  JobInv'
  <1> DEFINE unseen == {c \in ToDo : chore[c].known} \ Foreseen(r)
             floor == FloorEnd(0 - run[r].age)
  <1>1. run' = [run EXCEPT ![r].at = "planned", ![r].until = QuietUntil(r), ![r].floor = floor, ![r].unseen = unseen]
        /\ UNCHANGED <<hour, interval, chore, cache>>
    BY DEF ReadPlan
  <1>2. run \in [Runs -> Running] /\ hour \in Int /\ interval \in Intervals
    BY DEF JobInv, RowsTyped
  <1>3. /\ QuietUntil(r) \in Int /\ QuietUntil(r) <= MaxQuiet
        /\ QuietUntil(r) > 0 => \A c \in Foreseen(r) : QuietUntil(r) <= chore[c].left
    BY QuietIs
  <1>4. floor \in Int /\ unseen \in SUBSET Chores
    BY <1>2, FloorIs DEF ToDo, Running
  <1>5. /\ run'[r].at = "planned" /\ run'[r].until = QuietUntil(r) /\ run'[r].unseen = unseen
        /\ \A q \in Runs \ {r} : run'[q] = run[q]
    BY <1>1, <1>2 DEF Running
  <1>6. RowsTyped'
    <2>1. run' \in [Runs -> Running]
      <3> HIDE DEF unseen, floor
      <3> DEFINE planned == [run[r] EXCEPT !.at = "planned", !.until = QuietUntil(r), !.floor = floor, !.unseen = unseen]
      <3>1. run[r] \in Running
        BY <1>2
      <3>2. planned \in Running
        BY <1>3, <1>4, <3>1 DEF Running
      <3>3. run' = [run EXCEPT ![r] = planned]
        BY <1>1, <1>2
      <3> HIDE DEF planned
      <3> QED BY <1>2, <3>2, <3>3
    <2> QED BY <1>1, <2>1 DEF JobInv, RowsTyped
  <1>7. QuietBounded'
    BY <1>1, <1>3, <1>5 DEF JobInv, QuietBounded
  <1>8. WorkForetold'
    <2> SUFFICES ASSUME NEW c \in ToDo, chore[c].known
                 PROVE  /\ \A q \in Runs : RunForetells(q, c)'
                        /\ \A e \in cache : EntryForetells(e, c)'
      BY <1>1 DEF WorkForetold, ToDo
    <2>1. /\ \A q \in Runs : RunForetells(q, c)
          /\ \A e \in cache : EntryForetells(e, c)
      BY DEF JobInv, WorkForetold
    <2>2. \A e \in cache : EntryForetells(e, c)'
      BY <1>1, <2>1 DEF EntryForetells
    <2>3. \A q \in Runs \ {r} : RunForetells(q, c)'
      BY <1>1, <1>5, <2>1 DEF RunForetells
    <2>4. c \in unseen \/ c \in Foreseen(r)
      OBVIOUS
    <2>5. RunForetells(r, c)'
      <3> HIDE DEF unseen
      <3> QED BY <1>1, <1>3, <1>5, <2>4 DEF RunForetells
    <2> QED BY <2>2, <2>3, <2>5
  <1> QED BY <1>6, <1>7, <1>8 DEF JobInv

LEMMA EndForetells ==
    ASSUME JobInv, NEW r \in Runs, RunEndsEarly(r)
    PROVE  JobInv'
  <1>1. run' = [run EXCEPT ![r] = NoRun] /\ UNCHANGED <<hour, interval, chore, cache>>
    BY DEF RunEndsEarly
  <1>2. NoRun \in Running /\ NoRun.at = "idle" /\ run \in [Runs -> Running]
    BY DEF NoRun, Running, JobInv, RowsTyped
  <1>3. RowsTyped' /\ \A q \in Runs : run'[q].at = "planned" => run'[q] = run[q]
    BY <1>1, <1>2 DEF JobInv, RowsTyped
  <1>4. ToDo' = ToDo
    BY <1>1 DEF ToDo
  <1> QED BY <1>1, <1>3, <1>4, NothingNew

LEMMA LandingForetells ==
    ASSUME JobInv, NEW r \in Runs, PlanLands(r)
    PROVE  JobInv'
  <1>1. /\ run' = [run EXCEPT ![r] = NoRun] /\ UNCHANGED <<hour, interval, chore>>
        /\ cache' = WrittenOnce(PromiseOf(r)) /\ run[r].at = "planned"
    BY DEF PlanLands
  <1>2. NoRun \in Running /\ NoRun.at = "idle" /\ run \in [Runs -> Running] /\ hour \in Int
    BY DEF NoRun, Running, JobInv, RowsTyped
  <1>3. /\ run' \in [Runs -> Running]
        /\ \A q \in Runs : run'[q].at = "planned" => run'[q] = run[q]
    BY <1>1, <1>2
  <1>4. ASSUME NEW family \in Families, NEW from \in Int, NEW until, NEW s \in SlotsBetween(from, until, WidthOf(family))
        PROVE  s \in Int
    <2>1. WidthOf(family) \in Nat \ {0} /\ Day \in Nat \ {0}
      BY JobAssumption DEF WidthOf
    <2>2. HourAt(from) \in Int
      BY <1>2, <2>1 DEF HourAt
    <2>3. StartOf(from, WidthOf(family)) \in Int
      BY <2>1, <2>2 DEF StartOf
    <2> QED BY <2>3 DEF SlotsBetween
  <1>5. ASSUME NEW e \in cache' \ cache
        PROVE  /\ e \in Promise /\ e.unseen = run[r].unseen
               /\ e.family # "floor" => e.until = Max({0, run[r].until})
    <2> DEFINE ranAt == 0 - run[r].age
               until == run[r].until
               fineUntil == Min({until, ranAt + FineSpan})
               fine == SlotsBetween(ranAt, fineUntil, SlotWidth)
               coarse == SlotsBetween(fineUntil, until, HourWidth)
               floors == SlotsBetween(ranAt, run[r].floor, SlotWidth)
    <2>1. e \in PromiseOf(r)
      BY <1>1 DEF WrittenOnce
    <2>2. ranAt \in Int /\ until \in Int /\ run[r].floor \in Int /\ run[r].unseen \in SUBSET Chores
      BY <1>2 DEF Running
    <2>3. fineUntil \in Int
      <3> HIDE DEF until, ranAt
      <3>1. ranAt + FineSpan \in Int
        BY <2>2, JobAssumption
      <3> QED BY <2>2, <3>1 DEF Min
    <2>4. \/ \E s \in fine : e = Entry(r, "due", s, until)
          \/ \E s \in coarse : e = Entry(r, "dueHour", s, until)
          \/ \E s \in floors : e = Entry(r, "floor", s, run[r].floor)
      <3> HIDE DEF fine, coarse, floors, fineUntil
      <3>1. PromiseOf(r) = {Entry(r, "due", s, until) : s \in fine} \cup {Entry(r, "dueHour", s, until) : s \in coarse}
                           \cup {Entry(r, "floor", s, run[r].floor) : s \in floors}
        BY DEF PromiseOf, fine, coarse, floors, fineUntil
      <3> QED BY <2>1, <3>1
    <2>5. fine \subseteq Int /\ coarse \subseteq Int /\ floors \subseteq Int
      <3> HIDE DEF ranAt, until, fineUntil
      <3>1. WidthOf("due") = SlotWidth /\ WidthOf("dueHour") = HourWidth /\ {"due", "dueHour"} \subseteq Families
        BY DEF WidthOf, Families
      <3> QED BY <1>4, <2>2, <2>3, <3>1
    <2>6. Max({0, until}) \in Nat /\ Max({0, run[r].floor}) \in Nat
      <3> HIDE DEF until
      <3> QED BY <2>2, MaxOfTwo
    <2> HIDE DEF fine, coarse, floors, fineUntil, ranAt
    <2>7. ASSUME NEW s \in Int, NEW f \in Families, NEW u, Max({0, u}) \in Nat
          PROVE  Entry(r, f, s, u) \in Promise /\ Entry(r, f, s, u).unseen = run[r].unseen
                 /\ Entry(r, f, s, u).family = f /\ Entry(r, f, s, u).until = Max({0, u})
      BY <2>2, <2>7 DEF Entry, Promise
    <2>8. {"due", "dueHour", "floor"} = Families
      BY DEF Families
    <2>9. CASE \E s \in fine : e = Entry(r, "due", s, until)
      BY <2>5, <2>6, <2>7, <2>8, <2>9
    <2>10. CASE \E s \in coarse : e = Entry(r, "dueHour", s, until)
      BY <2>5, <2>6, <2>7, <2>8, <2>10
    <2>11. CASE \E s \in floors : e = Entry(r, "floor", s, run[r].floor)
      BY <2>5, <2>6, <2>7, <2>8, <2>11
    <2> QED BY <2>4, <2>9, <2>10, <2>11
  <1>6. \A e \in cache' : e \in cache \/ e \in cache' \ cache
    OBVIOUS
  <1>7. Max({0, run[r].until}) = IF run[r].until > 0 THEN run[r].until ELSE 0
    <2>1. run[r].until \in Int
      BY <1>2 DEF Running
    <2> QED BY <2>1, MaxOfTwo
  <1>8. RowsTyped'
    BY <1>1, <1>3, <1>5, <1>6 DEF JobInv, RowsTyped
  <1>9. QuietBounded'
    <2>1. run[r].until <= MaxQuiet /\ MaxQuiet \in Nat /\ run[r].until \in Int
      BY <1>1, <1>2, MaxQuietIs DEF JobInv, QuietBounded, Running
    <2>2. \A e \in cache' : e.family # "floor" => e.until <= MaxQuiet
      BY <1>5, <1>6, <1>7, <2>1 DEF JobInv, QuietBounded
    <2> QED BY <1>3, <2>2 DEF JobInv, QuietBounded
  <1>10. WorkForetold'
    <2> SUFFICES ASSUME NEW c \in ToDo, chore[c].known
                 PROVE  /\ \A q \in Runs : RunForetells(q, c)'
                        /\ \A e \in cache' : EntryForetells(e, c)'
      BY <1>1 DEF WorkForetold, ToDo
    <2>1. /\ \A q \in Runs : RunForetells(q, c)
          /\ \A e \in cache : EntryForetells(e, c)
      BY DEF JobInv, WorkForetold
    <2>2. \A q \in Runs : RunForetells(q, c)'
      BY <1>1, <1>3, <2>1 DEF RunForetells
    <2>3. \A e \in cache : EntryForetells(e, c)'
      BY <1>1, <2>1 DEF EntryForetells
    <2>4. \A e \in cache' \ cache : EntryForetells(e, c)'
      <3> TAKE e \in cache' \ cache
      <3>1. RunForetells(r, c)
        BY <2>1
      <3>2. run[r].until \in Int
        BY <1>2 DEF Running
      <3> QED BY <1>1, <1>5, <1>7, <3>1, <3>2 DEF EntryForetells, RunForetells
    <2> QED BY <1>6, <2>2, <2>3, <2>4
  <1> QED BY <1>8, <1>9, <1>10 DEF JobInv

\* A row that is made is unknown to no run that has read its plan, and to no promise in the cache
\* unless it is further away than any of them.
LEMMA MakingForetells ==
    ASSUME JobInv, NEW c \in Chores, NEW due \in Int, NEW old \in BOOLEAN, NEW known \in BOOLEAN,
           NEW wake \in {"none", "queued", "landed", "lost", "skipped"}, Make(c, due, old, known, wake),
           known /\ wake \in {"none", "landed"}
             => \A e \in cache : e.family # "floor" /\ e.until > 0 => e.until <= due
    PROVE  JobInv'
  <1> DEFINE made == [state |-> "pending", left |-> due, old |-> old, known |-> known, wake |-> wake]
             told(r) == IF run[r].at = "planned" /\ known THEN [run[r] EXCEPT !.unseen = @ \cup {c}] ELSE run[r]
  <1>1. /\ chore' = [chore EXCEPT ![c] = made] /\ run' = [r \in Runs |-> told(r)]
        /\ UNCHANGED <<hour, interval, cache>>
    BY DEF Make
  <1>2. chore \in [Chores -> Choring] /\ run \in [Runs -> Running]
    BY DEF JobInv, RowsTyped
  <1>3. made \in Choring
    BY DEF Choring
  <1>4. chore' \in [Chores -> Choring] /\ chore'[c] = made /\ \A d \in Chores \ {c} : chore'[d] = chore[d]
    <2> HIDE DEF made
    <2> QED BY <1>1, <1>2, <1>3
  <1>5. ASSUME NEW r \in Runs
        PROVE  /\ run'[r] \in Running /\ run'[r].at = run[r].at /\ run'[r].until = run[r].until
               /\ run[r].unseen \subseteq run'[r].unseen
               /\ run[r].at = "planned" /\ known => c \in run'[r].unseen
    <2>1. run'[r] = told(r) /\ run[r] \in Running
      BY <1>1, <1>2
    <2> QED BY <2>1 DEF Running
  <1>6. run' \in [Runs -> Running]
    BY <1>1, <1>5
  <1>7. RowsTyped'
    BY <1>1, <1>4, <1>6 DEF JobInv, RowsTyped
  <1>8. QuietBounded'
    BY <1>1, <1>5 DEF JobInv, QuietBounded
  <1>9. WorkForetold'
    <2> SUFFICES ASSUME NEW d \in ToDo', chore'[d].known
                 PROVE  /\ \A r \in Runs : RunForetells(r, d)'
                        /\ \A e \in cache : EntryForetells(e, d)'
      BY <1>1 DEF WorkForetold
    <2>1. CASE d = c
      <3>1. known /\ chore'[c].wake = wake /\ chore'[c].left = due
        BY <1>4, <2>1
      <3>2. \A r \in Runs : RunForetells(r, c)'
        BY <1>5, <3>1 DEF RunForetells
      <3>3. \A e \in cache : EntryForetells(e, c)'
        BY <3>1 DEF EntryForetells
      <3> QED BY <2>1, <3>2, <3>3
    <2>2. CASE d # c
      <3>1. d \in ToDo /\ chore'[d] = chore[d] /\ chore[d].known
        BY <1>4, <2>2 DEF ToDo
      <3>2. /\ \A r \in Runs : RunForetells(r, d)
            /\ \A e \in cache : EntryForetells(e, d)
        BY <3>1 DEF JobInv, WorkForetold
      <3> QED BY <1>5, <3>1, <3>2 DEF RunForetells, EntryForetells
    <2> QED BY <2>1, <2>2
  <1> QED BY <1>7, <1>8, <1>9 DEF JobInv

LEMMA CommitsForetell ==
    ASSUME JobInv, NEW c \in Chores, NEW due \in Dues, NEW old \in BOOLEAN,
           CommitForgotten(c, due) \/ Commit(c, due, old) \/ \E r \in Runs : RunMakesWork(r, c, due)
    PROVE  JobInv'
  <1>1. due \in Int /\ MaxQuiet \in Nat
    BY JobAssumption, MaxQuietIs
  <1>2. cache \subseteq Promise /\ \A e \in cache : e.family # "floor" => e.until <= MaxQuiet
    BY DEF JobInv, RowsTyped, QuietBounded
  <1>3. CASE CommitForgotten(c, due)
    <2> DEFINE wake == "none"
               known == FALSE
    <2>1. Make(c, due, FALSE, known, wake) /\ ~known /\ wake \in {"none", "queued", "landed", "lost", "skipped"} /\ known \in BOOLEAN
      BY <1>3 DEF CommitForgotten
    <2> HIDE DEF wake, known
    <2> QED BY <1>1, <2>1, MakingForetells
  <1>4. CASE Commit(c, due, old)
    <2> DEFINE wake == WakeFor(due)
    <2>1. Make(c, due, old, TRUE, wake)
      BY <1>4 DEF Commit
    <2>2. wake \in {"none", "queued", "landed", "lost", "skipped"} /\ (wake \in {"none", "landed"} => due >= MaxQuiet)
      BY DEF WakeFor
    <2>3. wake \in {"none", "landed"} => \A e \in cache : e.family # "floor" /\ e.until > 0 => e.until <= due
      BY <1>1, <1>2, <2>2 DEF Promise
    <2> HIDE DEF wake
    <2> QED BY <1>1, <2>1, <2>2, <2>3, MakingForetells
  <1>5. CASE \E r \in Runs : RunMakesWork(r, c, due)
    <2> DEFINE wake == IF AlreadyPromised THEN "skipped" ELSE "none"
    <2>1. Make(c, due, FALSE, TRUE, wake)
      BY <1>5 DEF RunMakesWork
    <2>2. wake \in {"none", "queued", "landed", "lost", "skipped"} /\ (wake \in {"none", "landed"} => ~AlreadyPromised)
      OBVIOUS
    <2>3. wake \in {"none", "landed"} => \A e \in cache : e.family # "floor" /\ e.until > 0 => e.until <= due
      BY <2>2 DEF AlreadyPromised
    <2> HIDE DEF wake
    <2> QED BY <1>1, <2>1, <2>2, <2>3, MakingForetells
  <1> QED BY <1>3, <1>4, <1>5

\* A wake that lands leaves no promise of its job's; one that is lost was not counted on.
LEMMA WakesForetell ==
    ASSUME JobInv, NEW c \in Chores, RequestEnds(c) \/ RequestDies(c)
    PROVE  JobInv'
  <1>1. PICK wake \in {"landed", "lost"} :
          /\ chore' = [chore EXCEPT ![c].wake = wake] /\ UNCHANGED <<hour, interval, run>>
          /\ wake = "landed" => cache' = DueForgotten
          /\ wake = "lost" => cache' = cache
    BY DEF RequestEnds, RequestDies
  <1>2. chore \in [Chores -> Choring]
    BY DEF JobInv, RowsTyped
  <1>3. /\ chore' \in [Chores -> Choring]
        /\ \A d \in Chores : /\ chore'[d].state = chore[d].state /\ chore'[d].known = chore[d].known
                             /\ chore'[d].left = chore[d].left
                             /\ chore'[d].wake = IF d = c THEN wake ELSE chore[d].wake
    BY <1>1, <1>2 DEF Choring
  <1>4. cache' \subseteq cache /\ (wake = "landed" => \A e \in cache' : e.family = "floor")
    BY <1>1 DEF DueForgotten
  <1>5. RowsTyped' /\ QuietBounded'
    BY <1>1, <1>3, <1>4 DEF JobInv, RowsTyped, QuietBounded
  <1>6. WorkForetold'
    <2> SUFFICES ASSUME NEW d \in ToDo', chore'[d].known
                 PROVE  /\ \A r \in Runs : RunForetells(r, d)'
                        /\ \A e \in cache' : EntryForetells(e, d)'
      BY DEF WorkForetold
    <2>1. d \in ToDo /\ chore[d].known /\ chore'[d].left = chore[d].left
      BY <1>3 DEF ToDo
    <2>2. /\ \A r \in Runs : RunForetells(r, d)
          /\ \A e \in cache : EntryForetells(e, d)
      BY <2>1 DEF JobInv, WorkForetold
    <2>3. \A r \in Runs : RunForetells(r, d)'
      BY <1>1, <2>1, <2>2 DEF RunForetells
    <2>4. \A e \in cache' : EntryForetells(e, d)'
      <3>1. CASE wake = "landed"
        BY <1>4, <3>1 DEF EntryForetells
      <3>2. CASE wake = "lost"
        <4>1. d \in Chores
          BY <2>1 DEF ToDo
        <4>2. chore'[d].wake \in {"none", "landed"} => chore'[d].wake = chore[d].wake
          BY <1>3, <3>2, <4>1
        <4> QED BY <1>4, <2>1, <2>2, <4>2 DEF EntryForetells
      <3> QED BY <3>1, <3>2
    <2> QED BY <2>3, <2>4
  <1> QED BY <1>5, <1>6 DEF JobInv

LEMMA ForgettingForetells ==
    ASSUME JobInv, (\E e \in cache : Evict(e)) \/ (\E length \in Intervals : ChangeInterval(length)) \/ ForgetSchedules
    PROVE  JobInv'
  <1>1. cache' \subseteq cache /\ interval' \in Intervals /\ UNCHANGED <<hour, chore, run>>
    BY DEF Evict, ChangeInterval, ForgetSchedules, JobInv, RowsTyped
  <1>2. RowsTyped'
    BY <1>1 DEF JobInv, RowsTyped
  <1>3. ToDo' = ToDo
    BY <1>1 DEF ToDo
  <1> QED BY <1>1, <1>2, <1>3, NothingNew

\* Everything comes a tick nearer: a promise and the work it was made before, together.
LEMMA TickForetells ==
    ASSUME JobInv, JobTick
    PROVE  JobInv'
  <1> DEFINE aged(e) == [e EXCEPT !.start = @ - 1, !.until = Max({0, @ - 1})]
             older(c) == IF c \in ToDo THEN [chore[c] EXCEPT !.left = Nearer(@)] ELSE chore[c]
  <1>1. /\ hour' = (hour + 1) % Day /\ UNCHANGED interval
        /\ chore' = [c \in Chores |-> older(c)] /\ run' = [r \in Runs |-> RunAgain(r)]
        /\ cache' \subseteq {aged(e) : e \in cache}
    BY DEF JobTick
  <1>2. hour \in Int /\ chore \in [Chores -> Choring] /\ run \in [Runs -> Running] /\ cache \subseteq Promise
    BY DEF JobInv, RowsTyped
  <1>3. ASSUME NEW c \in Chores
        PROVE  /\ chore'[c] \in Choring /\ chore'[c].state = chore[c].state
               /\ chore'[c].known = chore[c].known /\ chore'[c].wake = chore[c].wake
               /\ c \in ToDo => chore'[c].left \in {chore[c].left, chore[c].left - 1}
    <2>1. chore'[c] = older(c) /\ chore[c] \in Choring
      BY <1>1, <1>2
    <2>2. Nearer(chore[c].left) \in {chore[c].left, chore[c].left - 1} /\ chore[c].left \in Int
      BY <2>1 DEF Nearer, Choring
    <2>3. Nearer(chore[c].left) \in Int
      BY <2>2
    <2> QED BY <2>1, <2>2, <2>3 DEF Choring
  <1>4. ASSUME NEW r \in Runs
        PROVE  /\ run'[r] \in Running
               /\ run'[r].at = "planned" => /\ run[r].at = "planned" /\ run'[r].until = run[r].until - 1
                                            /\ run'[r].unseen = run[r].unseen
    <2>1. run'[r] = RunAgain(r) /\ run[r] \in Running
      BY <1>1, <1>2
    <2> DEFINE planned == IF run[r].at = "planned" THEN 1 ELSE 0
               next == [run[r] EXCEPT !.age = @ + 1, !.until = @ - planned, !.floor = @ - planned]
    <2>2. planned \in Int /\ (run[r].at = "planned" => planned = 1)
      OBVIOUS
    <2>3. RunAgain(r) = IF run[r].at = "idle" THEN run[r] ELSE next
      BY DEF RunAgain
    <2>4. /\ next \in Running /\ next.at = run[r].at /\ next.until = run[r].until - planned
          /\ next.unseen = run[r].unseen
      <3> DEFINE age == run[r].age + 1
                 until == run[r].until - planned
                 floor == run[r].floor - planned
      <3>1. age \in Nat /\ until \in Int /\ floor \in Int
        BY <2>1, <2>2 DEF Running
      <3>2. next = [run[r] EXCEPT !.age = age, !.until = until, !.floor = floor]
        OBVIOUS
      <3> HIDE DEF planned, age, floor, next
      <3>3. next \in Running
        <4> HIDE DEF until
        <4> QED BY <2>1, <3>1, <3>2, Zenon DEF Running
      <3>4. next.at = run[r].at /\ next.until = until /\ next.unseen = run[r].unseen
        <4> HIDE DEF until
        <4> QED BY <2>1, <3>2 DEF Running
      <3> QED BY <3>3, <3>4
    <2> HIDE DEF next, planned
    <2> QED BY <2>1, <2>2, <2>3, <2>4
  <1>5. ASSUME NEW x \in cache'
        PROVE  \E e \in cache : /\ x \in Promise /\ x.family = e.family /\ x.unseen = e.unseen
                                /\ x.until <= e.until /\ (x.until > 0 => x.until = e.until - 1)
    <2>1. PICK e \in cache : x = aged(e)
      BY <1>1
    <2>2. e \in Promise /\ e.until \in Nat /\ e.start \in Int
      BY <1>2 DEF Promise
    <2>3. Max({0, e.until - 1}) = IF e.until > 0 THEN e.until - 1 ELSE 0
      BY <2>2, MaxOfTwo
    <2>4. Max({0, e.until - 1}) \in Nat /\ Max({0, e.until - 1}) <= e.until
          /\ (Max({0, e.until - 1}) > 0 => Max({0, e.until - 1}) = e.until - 1)
      BY <2>2, <2>3
    <2>5. x \in Promise /\ x.family = e.family /\ x.unseen = e.unseen /\ x.until = Max({0, e.until - 1})
      <3> DEFINE start == e.start - 1
                 until == Max({0, e.until - 1})
      <3>1. start \in Int /\ until \in Nat /\ x = [e EXCEPT !.start = start, !.until = until]
        BY <2>1, <2>2, <2>4
      <3> HIDE DEF start, until
      <3>2. x \in Promise
        BY <2>2, <3>1, Zenon DEF Promise
      <3>3. x.family = e.family /\ x.unseen = e.unseen /\ x.until = until
        BY <2>2, <3>1 DEF Promise
      <3> QED BY <3>2, <3>3 DEF until
    <2> QED BY <2>4, <2>5
  <1>6. RowsTyped'
    <2>1. hour' \in Int
      <3>1. Day \in Nat \ {0}
        BY JobAssumption
      <3>2. hour + 1 \in Int
        BY <1>2
      <3>3. (hour + 1) % Day \in Int
        BY <3>1, <3>2, SMT
      <3>4. hour' = (hour + 1) % Day
        BY DEF JobTick
      <3> QED BY <3>3, <3>4
    <2>2. chore' \in [Chores -> Choring]
      BY <1>1, <1>3
    <2>3. run' \in [Runs -> Running]
      BY <1>1, <1>4
    <2>4. cache' \subseteq Promise
      BY <1>5
    <2> QED BY <1>1, <2>1, <2>2, <2>3, <2>4 DEF JobInv, RowsTyped
  <1>7. QuietBounded'
    <2>0. MaxQuiet \in Nat
      BY MaxQuietIs
    <2>1. ASSUME NEW x \in cache', x.family # "floor"
          PROVE  x.until <= MaxQuiet
      <3>1. PICK e \in cache : x \in Promise /\ x.family = e.family /\ x.until <= e.until
        BY <1>5
      <3>2. e.until <= MaxQuiet /\ e.until \in Nat /\ x.until \in Nat
        BY <1>2, <2>1, <3>1 DEF JobInv, QuietBounded, Promise
      <3> QED BY <2>0, <3>1, <3>2
    <2>2. ASSUME NEW r \in Runs, run'[r].at = "planned"
          PROVE  run'[r].until <= MaxQuiet
      <3>1. run[r].until \in Int /\ run[r].until <= MaxQuiet
        BY <1>2, <1>4, <2>2 DEF JobInv, QuietBounded, Running
      <3> QED BY <1>4, <2>0, <2>2, <3>1
    <2> QED BY <2>1, <2>2 DEF QuietBounded
  <1>8. WorkForetold'
    <2> SUFFICES ASSUME NEW c \in ToDo', chore'[c].known
                 PROVE  /\ \A r \in Runs : RunForetells(r, c)'
                        /\ \A x \in cache' : EntryForetells(x, c)'
      BY DEF WorkForetold
    <2>1. c \in Chores
      BY DEF ToDo
    <2>2. c \in ToDo /\ chore[c].known /\ chore'[c].wake = chore[c].wake
          /\ chore'[c].left \in {chore[c].left, chore[c].left - 1}
      BY <1>3, <2>1 DEF ToDo
    <2>3. /\ \A r \in Runs : RunForetells(r, c)
          /\ \A e \in cache : EntryForetells(e, c)
      BY <2>2 DEF JobInv, WorkForetold
    <2>4. chore[c].left \in Int
      BY <1>2, <2>1 DEF Choring
    <2>5. \A r \in Runs : RunForetells(r, c)'
      <3> TAKE r \in Runs
      <3>1. run[r].until \in Int
        BY <1>2 DEF Running
      <3> QED BY <1>4, <2>2, <2>3, <2>4, <3>1 DEF RunForetells
    <2>6. \A x \in cache' : EntryForetells(x, c)'
      <3> TAKE x \in cache'
      <3>1. PICK e \in cache : /\ x \in Promise /\ x.family = e.family /\ x.unseen = e.unseen
                               /\ x.until <= e.until /\ (x.until > 0 => x.until = e.until - 1)
        BY <1>5
      <3>2. e.until \in Nat /\ x.until \in Nat
        BY <1>2, <3>1 DEF Promise
      <3> QED BY <2>2, <2>3, <2>4, <3>1, <3>2 DEF EntryForetells
    <2> QED BY <2>5, <2>6
  <1> QED BY <1>6, <1>7, <1>8 DEF JobInv

LEMMA JobStep ==
    ASSUME JobInv, [JobNext]_jobVars
    PROVE  JobInv'
  <1>1. CASE PingAnswered \/ UNCHANGED jobVars
    <2>1. RowsTyped' /\ ToDo' = ToDo /\ cache' = cache /\ chore' = chore /\ run' = run
      BY <1>1 DEF PingAnswered, jobVars, JobInv, RowsTyped, ToDo
    <2> QED BY <2>1, NothingNew
  <1>2. CASE JobTick
    BY <1>2, TickForetells
  <1>3. ASSUME NEW r \in Runs, PingRuns(r) \/ RunWorks(r) \/ ReadPlan(r) \/ PlanLands(r) \/ RunEndsEarly(r)
        PROVE  JobInv'
    BY <1>3, PingsForetell, WorkForetells, PlanForetells, LandingForetells, EndForetells
  <1>4. ASSUME NEW c \in Chores, RequestEnds(c) \/ RequestDies(c)
        PROVE  JobInv'
    BY <1>4, WakesForetell
  <1>5. ASSUME NEW c \in Chores, NEW due \in Dues,
               CommitForgotten(c, due) \/ (\E old \in BOOLEAN : Commit(c, due, old))
                 \/ (\E r \in Runs : RunMakesWork(r, c, due))
        PROVE  JobInv'
    <2>1. \E old \in BOOLEAN : CommitForgotten(c, due) \/ Commit(c, due, old) \/ \E r \in Runs : RunMakesWork(r, c, due)
      BY <1>5
    <2> QED BY <2>1, CommitsForetell
  <1>6. CASE (\E e \in cache : Evict(e)) \/ (\E length \in Intervals : ChangeInterval(length)) \/ ForgetSchedules
    BY <1>6, ForgettingForetells
  <1> QED BY <1>1, <1>2, <1>3, <1>4, <1>5, <1>6 DEF JobNext

-----------------------------------------------------------------------------
\* A ping is answered "nothing due" over due work only from a promise whose run had looked before
\* that work was committed, however long a day, whatever the intervals, the slots' widths and the
\* number of runs at once: wakeJobs forgets every promise it has to and leaves alone only what
\* MAX_QUIET_MINUTES lets it (schedule-cache.ts, planQuiet).
THEOREM QuietHidesOnlyWhatRacedHolds ==
    JobSpec => []QuietHidesOnlyWhatRaced
  <1>1. JobInit => JobInv
    BY JobBegins
  <1>2. JobInv /\ [JobNext]_jobVars => JobInv'
    BY JobStep
  <1>3. JobInv => QuietHidesOnlyWhatRaced
    BY ForetoldIsNotHidden
  <1> QED BY <1>1, <1>2, <1>3, PTL DEF JobSpec
=============================================================================
