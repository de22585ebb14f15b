----------------------------- MODULE Outbox_proofs -----------------------------
(***************************************************************************)
(* The queue of emails, for every set of emails, workers and settings: its *)
(* types; that a claimed row is one worker's while its lease runs; that a  *)
(* complaint stands; that nothing is taken twice by a provider without a   *)
(* lost answer, an outlived lease or a dead worker to account for it; that *)
(* a pause is kept; and that Mailgun's hour is not overrun.  Each of the   *)
(* last three is an account of its own: AllPaid, PauseInv, HourInv.        *)
(***************************************************************************)
EXTENDS Outbox, FiniteSetTheorems, TLAPS

-----------------------------------------------------------------------------
(* Numbers. *)
LEMMA NumbersAre ==
    /\ Emails \subseteq Nat /\ IsFiniteSet(Emails) /\ Nothing \notin Emails /\ Nothing \in Int
    /\ Lease \in Nat /\ Lease >= 1 /\ PaceWindow \in Nat /\ PauseFor \in Nat /\ AllowanceFor \in Nat
    /\ MaxDelay \in Nat /\ PauseFor >= 1 /\ AllowanceFor >= 1 /\ MaxDelay >= 1 /\ PauseFor =< AllowanceFor
    /\ MaxWait \in Nat /\ AllowanceFor =< MaxWait /\ MaxDelay =< MaxWait
    /\ Nothing = 0 - 1
  BY OutboxAssumption DEF Nothing, MaxWait

\* A finite set of numbers has a least and a greatest: the smallest of the sets of those below one
\* of them, and of those above.
LEMMA LeastIsOne ==
    ASSUME NEW S \in SUBSET Int, IsFiniteSet(S), S # {}
    PROVE  Min(S) \in S /\ \A n \in S : Min(S) =< n
  <1> DEFINE below(n) == {y \in S : y =< n}
             T == {below(n) : n \in S}
             R == StrictSubsetOrdering(S)
  <1>0. \A n \in S : below(n) \in SUBSET S /\ IsFiniteSet(below(n))
    BY FS_Subset
  <1>1. T \subseteq FiniteSubsetsOf(S) /\ T # {}
    BY <1>0 DEF FiniteSubsetsOf
  <1>2. IsWellFoundedOn(R, FiniteSubsetsOf(S))
    BY FS_StrictSubsetOrderingWellFounded
  <1>3. PICK D \in T : \A E \in T : <<E, D>> \notin R
    <2> HIDE DEF T, R
    <2> QED
      BY <1>1, <1>2, WFMin
  <1>4. PICK n \in S : D = below(n)
    OBVIOUS
  <1>5. ASSUME NEW y \in S PROVE n =< y
    <2> SUFFICES ASSUME y < n PROVE FALSE
      OBVIOUS
    <2>0. n \in Int /\ y \in Int /\ \A z \in S : z \in Int
      OBVIOUS
    <2>1. n \in below(n) /\ n \notin below(y)
      BY <2>0
    <2>2. \A z \in S : z =< y => z =< n
      BY <2>0
    <2>3. below(y) \subseteq below(n) /\ below(y) # below(n)
      BY <2>1, <2>2
    <2>4. <<below(y), below(n)>> \in R
      BY <1>0, <2>3 DEF StrictSubsetOrdering
    <2> QED
      BY <1>3, <1>4, <2>4
  <1> QED
    BY <1>5 DEF Min

LEMMA GreatestIsOne ==
    ASSUME NEW S \in SUBSET Int, IsFiniteSet(S), S # {}
    PROVE  Max(S) \in S /\ \A n \in S : n =< Max(S)
  <1> DEFINE above(n) == {y \in S : y >= n}
             T == {above(n) : n \in S}
             R == StrictSubsetOrdering(S)
  <1>0. \A n \in S : above(n) \in SUBSET S /\ IsFiniteSet(above(n))
    BY FS_Subset
  <1>1. T \subseteq FiniteSubsetsOf(S) /\ T # {}
    BY <1>0 DEF FiniteSubsetsOf
  <1>2. IsWellFoundedOn(R, FiniteSubsetsOf(S))
    BY FS_StrictSubsetOrderingWellFounded
  <1>3. PICK D \in T : \A E \in T : <<E, D>> \notin R
    <2> HIDE DEF T, R
    <2> QED
      BY <1>1, <1>2, WFMin
  <1>4. PICK n \in S : D = above(n)
    OBVIOUS
  <1>5. ASSUME NEW y \in S PROVE n >= y
    <2> SUFFICES ASSUME y > n PROVE FALSE
      OBVIOUS
    <2>0. n \in Int /\ y \in Int /\ \A z \in S : z \in Int
      OBVIOUS
    <2>1. n \in above(n) /\ n \notin above(y)
      BY <2>0
    <2>2. \A z \in S : z >= y => z >= n
      BY <2>0
    <2>3. above(y) \subseteq above(n) /\ above(y) # above(n)
      BY <2>1, <2>2
    <2>4. <<above(y), above(n)>> \in R
      BY <1>0, <2>3 DEF StrictSubsetOrdering
    <2> QED
      BY <1>3, <1>4, <2>4
  <1> QED
    BY <1>5 DEF Max

LEMMA PairIsFinite ==
    ASSUME NEW m, NEW n
    PROVE  IsFiniteSet({m, n})
  <1>1. IsFiniteSet({m})
    BY FS_Singleton
  <1>2. {m, n} = {m} \cup {n}
    OBVIOUS
  <1> QED
    BY <1>1, <1>2, FS_AddElement

LEMMA OfTwo ==
    ASSUME NEW b \in Nat, NEW m \in 0..b, NEW n \in 0..b
    PROVE  /\ Max({m, n}) \in 0..b /\ Min({m, n}) \in 0..b
           /\ Max({m, n}) \in {m, n} /\ m =< Max({m, n}) /\ n =< Max({m, n})
  <1>0. /\ m \in Int /\ n \in Int /\ {m, n} \in SUBSET Int /\ {m, n} # {}
        /\ IsFiniteSet({m, n})
    <2>1. m \in Int /\ n \in Int
      OBVIOUS
    <2> QED
      BY <2>1, PairIsFinite
  <1>1. Max({m, n}) \in {m, n} /\ \A x \in {m, n} : x =< Max({m, n})
    BY <1>0, GreatestIsOne
  <1>2. Min({m, n}) \in {m, n}
    BY <1>0, LeastIsOne
  <1> QED
    BY <1>1, <1>2

LEMMA ZeroFits == 0 \in 0..Lease /\ 0 \in 0..MaxWait /\ 0 \in 0..AllowanceFor /\ 0 =< AllowanceFor
  BY NumbersAre

LEMMA LessIs ==
    ASSUME NEW b \in Nat
    PROVE  /\ \A n \in 0..b : Less(n) \in 0..b
           /\ \A n \in (0..b) \cup {Nothing} : Less(n) \in (0..b) \cup {Nothing}
  BY NumbersAre DEF Less

LEMMA ImageIsFinite ==
    ASSUME NEW S, IsFiniteSet(S), NEW f, DOMAIN f = S
    PROVE  IsFiniteSet({f[x] : x \in S}) /\ Cardinality({f[x] : x \in S}) =< Cardinality(S)
  <1> DEFINE T == {f[x] : x \in S}
  <1> DEFINE g == [x \in S |-> f[x]]
  <1>1. g \in Surjection(S, T)
    BY DEF Surjection
  <1>2. IsFiniteSet(T) /\ Cardinality(T) =< Cardinality(S)
    <2> HIDE DEF T, g
    <2> QED
      BY <1>1, FS_Surjection
  <1> QED
    BY <1>2

-----------------------------------------------------------------------------
(* The invariant. *)

(* A row marked for a stop waits no longer than a spent allowance. *)
MarkedFits == \A e \in Emails : rows[e].mark \in {"paused", "allowance"} => rows[e].wait =< AllowanceFor

(* A worker sends a row of its own batch. *)
BatchFits == \A w \in Workers : batch[w].row \in batch[w].left \cup {Nothing}

(* What a worker holds is claimed, and its lease runs. *)
Leased ==
  ~setting.outlives => \A w \in Workers : \A e \in batch[w].left :
                          rows[e].status = "PROCESSING" /\ rows[e].lease > 0

(* A message that left is waiting and tried no more. *)
SentIsOut ==
  ~setting.outlives => \A e \in Emails : rows[e].sent => rows[e].status \in {"SENT", "BOUNCED", "COMPLAINED"}

QueueInv ==
  /\ TypeOK /\ IsFiniteSet(accepted)
  /\ MarkedFits /\ BatchFits /\ Leased /\ SentIsOut /\ OneWorkerPerRow

LEMMA SettingIs ==
    ASSUME setting \in Settings
    PROVE  /\ setting.gmail \subseteq Emails /\ setting.bulk \subseteq Emails /\ setting.hour \in Nat
           /\ setting.fallback \in BOOLEAN /\ setting.refusals \subseteq {"paused", "allowance"}
           /\ setting.outlives \in BOOLEAN /\ setting.trouble \in Nat /\ setting.crashes \in Nat
           /\ setting.presses \in Nat /\ setting.events \in Nat
  BY OutboxAssumption

LEMMA IdleIs ==
    /\ Idle \in Batch /\ Idle.left = {} /\ Idle.row = Nothing
    /\ Idle.pause = Nothing /\ Idle.carrying = "none" /\ Idle.result = NoResult
  BY NumbersAre DEF Idle, Batch, NoResult, Result, Outcomes, Kinds

LEMMA InitFits == Init => QueueInv
  <1> SUFFICES ASSUME Init PROVE QueueInv
    OBVIOUS
  <1>1. TypeOK
    BY NumbersAre, SettingIs, IdleIs DEF Init, TypeOK, Row, Statuses, Marks, Kinds
  <1>2. IsFiniteSet(accepted)
    BY FS_EmptySet DEF Init
  <1> QED
    BY <1>1, <1>2, IdleIs DEF Init, QueueInv, MarkedFits, BatchFits, Leased, SentIsOut, OneWorkerPerRow

-----------------------------------------------------------------------------
(* One row written, and one worker's batch no longer than it was. *)

(* The batches that are left, each within its types and its own rows. *)
Lighter(e) ==
  /\ batch' \in [Workers -> Batch] /\ BatchFits'
  /\ \A w \in Workers : batch'[w].left \subseteq batch[w].left
  /\ ~setting.outlives => \A w \in Workers : e \notin batch'[w].left

RowFits(r) ==
  /\ r \in Row
  /\ r.mark \in {"paused", "allowance"} => r.wait =< AllowanceFor
  /\ ~setting.outlives => (r.sent => r.status \in {"SENT", "BOUNCED", "COMPLAINED"})

LEMMA OneRowWritten ==
    ASSUME QueueInv, NEW e \in Emails, NEW r, SetRow(e, r), setting' = setting,
           RowFits(r), Lighter(e)
    PROVE  /\ rows' \in [Emails -> Row] /\ batch' \in [Workers -> Batch]
           /\ MarkedFits' /\ BatchFits' /\ Leased' /\ SentIsOut' /\ OneWorkerPerRow'
  <1>1. /\ rows \in [Emails -> Row] /\ rows' = [rows EXCEPT ![e] = r] /\ r \in Row
    BY DEF QueueInv, TypeOK, SetRow, RowFits
  <1>2. rows' \in [Emails -> Row] /\ rows'[e] = r /\ \A x \in Emails \ {e} : rows'[x] = rows[x]
    BY <1>1
  <1>3. MarkedFits'
    BY <1>2 DEF QueueInv, MarkedFits, RowFits
  <1>4. SentIsOut'
    BY <1>2 DEF QueueInv, SentIsOut, RowFits
  <1>5. \A w \in Workers : batch[w].left \subseteq Emails
    BY DEF QueueInv, TypeOK, Batch
  <1>6. Leased'
    BY <1>2, <1>5 DEF QueueInv, Leased, Lighter
  <1>7. OneWorkerPerRow'
    BY DEF QueueInv, OneWorkerPerRow, Lighter
  <1> QED
    BY <1>2, <1>3, <1>4, <1>6, <1>7 DEF Lighter

LEMMA RowIs ==
    ASSUME QueueInv, NEW e \in Emails
    PROVE  /\ rows[e] \in Row /\ RowFits(rows[e])
           /\ rows[e].status \in Statuses /\ rows[e].wait \in 0..MaxWait /\ rows[e].lease \in 0..Lease
           /\ rows[e].attempts \in Nat /\ rows[e].mark \in Marks /\ rows[e].sent \in BOOLEAN
  BY DEF QueueInv, TypeOK, MarkedFits, SentIsOut, RowFits, Row

LEMMA BatchesStay ==
    ASSUME QueueInv, NEW e \in Emails, batch' = batch,
           ~setting.outlives => rows[e].status # "PROCESSING"
    PROVE  Lighter(e)
  BY DEF QueueInv, TypeOK, BatchFits, Leased, Lighter

Recordeds == [kind : Kinds, left : 0..AllowanceFor]

\* What a step leaves of the rest.
RestFits ==
  /\ setting' = setting /\ accepted' = accepted /\ unaccounted' = unaccounted
  /\ stopRecord' \in Recordeds /\ told' \in 0..AllowanceFor
  /\ trouble' \in 0..setting.trouble /\ crashes' \in 0..setting.crashes
  /\ presses' \in 0..setting.presses /\ events' \in 0..setting.events

LEMMA RestStays ==
    ASSUME QueueInv
    PROVE  /\ setting \in Settings /\ stopRecord \in Recordeds /\ told \in 0..AllowanceFor
           /\ trouble \in 0..setting.trouble /\ crashes \in 0..setting.crashes
           /\ presses \in 0..setting.presses /\ events \in 0..setting.events
  BY DEF QueueInv, TypeOK, Recordeds

LEMMA RowStep ==
    ASSUME QueueInv, NEW e \in Emails, NEW r, SetRow(e, r), RowFits(r), Lighter(e), RestFits
    PROVE  QueueInv'
  <1>1. /\ rows' \in [Emails -> Row] /\ batch' \in [Workers -> Batch]
        /\ MarkedFits' /\ BatchFits' /\ Leased' /\ SentIsOut' /\ OneWorkerPerRow'
    BY OneRowWritten DEF RestFits
  <1>2. TypeOK'
    BY <1>1 DEF QueueInv, TypeOK, RestFits, Recordeds
  <1>3. IsFiniteSet(accepted')
    BY DEF QueueInv, RestFits
  <1> QED
    BY <1>1, <1>2, <1>3 DEF QueueInv

LEMMA EnqueueFits ==
    ASSUME QueueInv, NEW e \in Emails, Enqueue(e)
    PROVE  QueueInv'
  <1> DEFINE r == [rows[e] EXCEPT !.status = "PENDING"]
  <1>1. rows[e] \in Row /\ RowFits(rows[e]) /\ rows[e].status = "absent"
    BY RowIs DEF Enqueue
  <1>2. RowFits(r)
    BY <1>1 DEF RowFits, Row, Statuses
  <1>3. Lighter(e)
    BY <1>1, BatchesStay DEF Enqueue
  <1>4. SetRow(e, r) /\ RestFits
    BY RestStays DEF Enqueue, RestFits, ghosts
  <1> QED
    BY <1>2, <1>3, <1>4, RowStep

LEMMA ReplaceRowFits ==
    ASSUME QueueInv, NEW e \in Emails, ReplaceRow(e)
    PROVE  QueueInv'
  <1> DEFINE r == [rows[e] EXCEPT !.status = "withdrawn", !.wait = 0]
  <1>1. rows[e] \in Row /\ RowFits(rows[e]) /\ rows[e].status = "PENDING"
    BY RowIs DEF ReplaceRow
  <1>2. RowFits(r)
    BY <1>1, ZeroFits DEF RowFits, Row, Statuses
  <1>3. Lighter(e)
    BY <1>1, BatchesStay DEF ReplaceRow
  <1>4. SetRow(e, r) /\ RestFits
    BY RestStays DEF ReplaceRow, RestFits, ghosts
  <1> QED
    BY <1>2, <1>3, <1>4, RowStep

LEMMA MailgunSaysFits ==
    ASSUME QueueInv, NEW e \in Emails, NEW verdict \in {"BOUNCED", "COMPLAINED"}, MailgunSays(e, verdict)
    PROVE  QueueInv'
  <1> DEFINE r == [rows[e] EXCEPT !.status = verdict, !.lease = 0, !.wait = 0, !.mark = "none"]
  <1>1. rows[e] \in Row /\ RowFits(rows[e]) /\ rows[e].sent
    BY RowIs DEF MailgunSays
  <1>2. RowFits(r)
    BY <1>1, ZeroFits DEF RowFits, Row, Statuses, Marks
  <1>3. Lighter(e)
    BY <1>1, BatchesStay DEF MailgunSays, RowFits
  <1>4. SetRow(e, r) /\ RestFits
    BY RestStays, SettingIs DEF MailgunSays, RestFits, ghosts
  <1> QED
    BY <1>2, <1>3, <1>4, RowStep

-----------------------------------------------------------------------------
(* A worker's own row. *)

LEMMA NextIsHeld ==
    ASSUME QueueInv, NEW w \in Workers, batch[w].left # {}
    PROVE  NextOf(batch[w].left) \in batch[w].left
  <1>1. batch[w].left \in SUBSET Emails
    BY DEF QueueInv, TypeOK, Batch
  <1>2. \A S \in SUBSET Emails : S # {} => Min(S) \in S
    <2> TAKE S \in SUBSET Emails
    <2>1. IsFiniteSet(S)
      BY NumbersAre, FS_Subset
    <2>2. S \in SUBSET Int
      BY NumbersAre
    <2> QED
      BY <2>1, <2>2, LeastIsOne
  <1> QED
    BY <1>1, <1>2 DEF NextOf

LEMMA WithoutIs ==
    ASSUME NEW b \in Batch, NEW e \in b.left, b.row = Nothing
    PROVE  Without(b, e) \in Batch /\ Without(b, e).left = b.left \ {e} /\ Without(b, e).row = Nothing
  <1>1. CASE b.left = {e}
    BY <1>1, IdleIs DEF Without
  <1>2. CASE b.left # {e}
    <2>1. Without(b, e) = [b EXCEPT !.left = b.left \ {e}, !.tries = [b.tries EXCEPT ![e] = 0]]
      BY <1>2 DEF Without
    <2>2. b.left \in SUBSET Emails /\ b.tries \in [Emails -> Nat]
      BY DEF Batch
    <2>3. b.left \ {e} \in SUBSET Emails /\ [b.tries EXCEPT ![e] = 0] \in [Emails -> Nat]
      BY <2>2
    <2> QED
      BY <2>1, <2>3 DEF Batch
  <1> QED
    BY <1>1, <1>2

LEMMA RowLeaves ==
    ASSUME QueueInv, NEW w \in Workers, NEW e \in batch[w].left, NEW b \in Batch,
           b.left = batch[w].left, b.row = Nothing,
           batch' \in [Workers -> Batch], batch'[w] = Without(b, e),
           \A v \in Workers \ {w} : batch'[v].left = batch[v].left /\ batch'[v].row = batch[v].row
    PROVE  Lighter(e)
  <1>1. batch'[w].left = batch[w].left \ {e} /\ batch'[w].row = Nothing
    BY WithoutIs
  <1> QED
    BY <1>1 DEF Lighter, QueueInv, BatchFits, OneWorkerPerRow

\* A held row: under a lease it has not left yet.
LEMMA HeldRowIs ==
    ASSUME QueueInv, NEW w \in Workers, NEW e \in batch[w].left
    PROVE  /\ e \in Emails /\ rows[e] \in Row /\ RowFits(rows[e])
           /\ ~setting.outlives => rows[e].status = "PROCESSING" /\ ~rows[e].sent
           /\ batch[w] \in Batch /\ batch[w].tries[e] \in Nat
  <1>1. batch[w] \in Batch /\ batch[w].left \subseteq Emails /\ batch[w].tries \in [Emails -> Nat]
    BY DEF QueueInv, TypeOK, Batch
  <1>2. ~setting.outlives => rows[e].status = "PROCESSING"
    BY DEF QueueInv, Leased
  <1> QED
    BY <1>1, <1>2, RowIs DEF RowFits

LEMMA GivenBackFits ==
    ASSUME NEW r, RowFits(r), ~setting.outlives => ~r.sent,
           NEW tries \in Nat, NEW left \in 0..AllowanceFor
    PROVE  RowFits(GivenBack(r, tries, left))
  <1>1. left \in 0..MaxWait /\ left =< AllowanceFor
    BY NumbersAre
  <1>2. (IF tries > 0 THEN tries - 1 ELSE 0) \in Nat
    OBVIOUS
  <1>3. 0 \in 0..Lease
    BY NumbersAre
  <1> QED
    BY <1>1, <1>2, <1>3 DEF RowFits, GivenBack, Row, Statuses

LEMMA HandBackFits ==
    ASSUME QueueInv, NEW w \in Workers, HandBack(w)
    PROVE  QueueInv'
  <1> DEFINE b == batch[w]
             e == NextOf(b.left)
  <1>1. e \in b.left /\ b.row = Nothing
    BY NextIsHeld DEF HandBack, Working
  <1>2. /\ e \in Emails /\ RowFits(rows[e])
        /\ ~setting.outlives => ~rows[e].sent
        /\ b \in Batch /\ b.tries[e] \in Nat
    BY <1>1, HeldRowIs
  <1>3. WaitOf(b) \in 0..AllowanceFor
    BY <1>2 DEF HandBack, Waits, WaitOf, Batch
  <1>4. RowFits(GivenBack(rows[e], b.tries[e], WaitOf(b)))
    BY <1>2, <1>3, GivenBackFits
  <1>5. batch' = [batch EXCEPT ![w] = Without(b, e)] /\ batch \in [Workers -> Batch]
    BY DEF HandBack, QueueInv, TypeOK
  <1>6. Without(b, e) \in Batch
    BY <1>1, <1>2, WithoutIs
  <1>7. batch' \in [Workers -> Batch] /\ batch'[w] = Without(b, e) /\ \A v \in Workers \ {w} : batch'[v] = batch[v]
    BY <1>5, <1>6
  <1>8. Lighter(e)
    BY <1>1, <1>2, <1>7, RowLeaves
  <1>9. SetRow(e, GivenBack(rows[e], b.tries[e], WaitOf(b))) /\ RestFits
    BY RestStays DEF HandBack, RestFits, ghosts
  <1> HIDE DEF e, b
  <1> QED
    BY <1>2, <1>4, <1>8, <1>9, RowStep

LEMMA RenderEndsFits ==
    ASSUME QueueInv, NEW w \in Workers, NEW status \in {"withdrawn", "FAILED"}, RenderEnds(w, status)
    PROVE  QueueInv'
  <1> DEFINE b == batch[w]
             e == NextOf(b.left)
             r == [rows[e] EXCEPT !.status = status, !.lease = 0, !.wait = 0]
  <1>1. e \in b.left /\ b.row = Nothing
    BY NextIsHeld DEF RenderEnds, Working
  <1>2. /\ e \in Emails /\ RowFits(rows[e])
        /\ ~setting.outlives => ~rows[e].sent
        /\ b \in Batch
    BY <1>1, HeldRowIs
  <1>3. RowFits(r)
    BY <1>2, ZeroFits DEF RowFits, Row, Statuses
  <1>4. batch' = [batch EXCEPT ![w] = Without(b, e)] /\ batch \in [Workers -> Batch]
    BY DEF RenderEnds, QueueInv, TypeOK
  <1>5. Without(b, e) \in Batch
    BY <1>1, <1>2, WithoutIs
  <1>6. batch' \in [Workers -> Batch] /\ batch'[w] = Without(b, e) /\ \A v \in Workers \ {w} : batch'[v] = batch[v]
    BY <1>4, <1>5
  <1>7. Lighter(e)
    BY <1>1, <1>2, <1>6, RowLeaves
  <1>8. SetRow(e, r) /\ RestFits
    BY RestStays, SettingIs DEF RenderEnds, RestFits, ghosts
  <1> HIDE DEF e, b, r
  <1> QED
    BY <1>2, <1>3, <1>7, <1>8, RowStep

-----------------------------------------------------------------------------
(* Every row at once: the button for the failed, the passing of time. *)

LEMMA RetryFailedFits == QueueInv /\ RetryFailed => QueueInv'
  <1> SUFFICES ASSUME QueueInv, RetryFailed PROVE QueueInv'
    OBVIOUS
  <1>1. \A e \in Emails :
          /\ rows[e].status # "FAILED" => rows'[e] = rows[e]
          /\ rows[e].status = "FAILED" =>
               rows'[e] = [rows[e] EXCEPT !.status = "PENDING", !.attempts = 0, !.wait = 0, !.lease = 0]
    BY DEF RetryFailed
  <1>2. ASSUME NEW e \in Emails PROVE RowFits(rows'[e])
    <2>1. RowFits(rows[e])
      BY RowIs
    <2>2. CASE rows[e].status # "FAILED"
      BY <2>1, <2>2, <1>1
    <2>3. CASE rows[e].status = "FAILED"
      <3>1. rows'[e] = [rows[e] EXCEPT !.status = "PENDING", !.attempts = 0, !.wait = 0, !.lease = 0]
        BY <2>3, <1>1
      <3>2. [rows[e] EXCEPT !.status = "PENDING", !.attempts = 0, !.wait = 0, !.lease = 0] \in Row
        BY <2>1, ZeroFits DEF RowFits, Row, Statuses
      <3>3. ~setting.outlives => ~rows[e].sent
        BY <2>1, <2>3 DEF RowFits
      <3> QED
        BY <2>1, <3>1, <3>2, <3>3, ZeroFits DEF RowFits, Row
    <2> QED
      BY <2>2, <2>3
  <1>3. rows' \in [Emails -> Row]
    BY <1>2 DEF RetryFailed, RowFits
  <1>4. /\ setting' = setting /\ stopRecord' = stopRecord /\ batch' = batch /\ trouble' = trouble
        /\ crashes' = crashes /\ events' = events /\ accepted' = accepted
        /\ unaccounted' = unaccounted /\ told' = told
    BY DEF RetryFailed, ghosts
  <1>5. presses' \in 0..setting.presses
    <2>1. presses < setting.presses /\ presses' = presses + 1
      BY DEF RetryFailed
    <2>2. presses \in 0..setting.presses /\ setting.presses \in Nat
      BY RestStays, SettingIs
    <2> QED
      BY <2>1, <2>2
  <1>6. TypeOK'
    BY <1>3, <1>4, <1>5 DEF QueueInv, TypeOK
  <1>7. MarkedFits' /\ SentIsOut'
    BY <1>2, <1>4 DEF RowFits, MarkedFits, SentIsOut
  <1>8. \A w \in Workers : batch[w].left \subseteq Emails
    BY DEF QueueInv, TypeOK, Batch
  <1>9. Leased'
    BY <1>1, <1>4, <1>8 DEF QueueInv, Leased
  <1> QED
    BY <1>4, <1>6, <1>7, <1>9 DEF QueueInv, BatchFits, OneWorkerPerRow

Taken == [email : Emails, copy : Nat, age : 0..PaceWindow, road : {"mailgun", "gmail", "spilled", "lost"}]

LEMMA CrashFits ==
    ASSUME QueueInv, NEW w \in Workers, Crash(w)
    PROVE  QueueInv'
  <1> DEFINE f == [a \in accepted |-> IF batch[w].row = a.email /\ batch[w].result.outcome = "sent" /\ a.road = "mailgun"
                                     THEN [a EXCEPT !.road = "lost"] ELSE a]
  <1>1. /\ setting' = setting /\ rows' = rows /\ stopRecord' = stopRecord /\ trouble' = trouble
        /\ presses' = presses /\ events' = events /\ unaccounted' = unaccounted /\ told' = told
    BY DEF Crash
  <1>2. batch' = [batch EXCEPT ![w] = Idle] /\ batch \in [Workers -> Batch]
    BY DEF Crash, QueueInv, TypeOK
  <1>3. batch' \in [Workers -> Batch] /\ batch'[w] = Idle /\ \A v \in Workers \ {w} : batch'[v] = batch[v]
    BY <1>2, IdleIs
  <1>4. accepted' = {f[a] : a \in accepted}
    BY DEF Crash
  <1>5. accepted \subseteq Taken /\ IsFiniteSet(accepted)
    BY DEF QueueInv, TypeOK, Taken
  <1>6. IsFiniteSet(accepted')
    <2>1. DOMAIN f = accepted
      OBVIOUS
    <2> HIDE DEF f
    <2> QED
      BY <1>4, <1>5, <2>1, ImageIsFinite
  <1>7. accepted' \subseteq Taken
    <2>1. \A a \in accepted : f[a] \in Taken
      BY <1>5 DEF Taken
    <2> HIDE DEF f
    <2> QED
      BY <1>4, <2>1
  <1>8. crashes' \in 0..setting.crashes
    BY RestStays, SettingIs DEF Crash
  <1>9. TypeOK'
    BY <1>1, <1>3, <1>7, <1>8 DEF QueueInv, TypeOK, Taken
  <1>10. BatchFits' /\ Leased' /\ OneWorkerPerRow'
    BY <1>1, <1>3, IdleIs DEF QueueInv, BatchFits, Leased, OneWorkerPerRow
  <1> QED
    BY <1>1, <1>6, <1>9, <1>10 DEF QueueInv, MarkedFits, SentIsOut

LEMMA TickFits == QueueInv /\ Tick => QueueInv'
  <1> SUFFICES ASSUME QueueInv, Tick PROVE QueueInv'
    OBVIOUS
  <1> DEFINE f == [a \in accepted |-> [a EXCEPT !.age = Less(@)]]
  <1>1. /\ setting' = setting /\ trouble' = trouble /\ crashes' = crashes
        /\ presses' = presses /\ events' = events /\ unaccounted' = unaccounted
    BY DEF Tick
  <1>2. ASSUME NEW e \in Emails
        PROVE  /\ rows'[e] \in Row /\ RowFits(rows'[e])
               /\ rows'[e].status = rows[e].status /\ rows'[e].lease = Less(rows[e].lease)
               /\ rows'[e].sent = rows[e].sent
    <2>1. rows[e] \in Row /\ RowFits(rows[e])
      BY RowIs
    <2>2. rows'[e] = [rows[e] EXCEPT !.wait = Less(rows[e].wait), !.lease = Less(rows[e].lease),
                                     !.fresh = Less(rows[e].fresh)]
      BY DEF Tick
    <2>3. /\ Less(rows[e].wait) \in 0..MaxWait /\ Less(rows[e].lease) \in 0..Lease
          /\ Less(rows[e].fresh) \in 0..PaceWindow
      BY <2>1, NumbersAre, LessIs DEF Row
    <2>4. Less(rows[e].wait) =< rows[e].wait
      BY <2>1, NumbersAre DEF Row, Less
    <2>5. rows[e].wait =< AllowanceFor => Less(rows[e].wait) =< AllowanceFor
      BY <2>1, <2>3, <2>4, NumbersAre DEF Row
    <2> QED
      BY <2>1, <2>2, <2>3, <2>5 DEF Row, RowFits
  <1>3. rows' \in [Emails -> Row]
    BY <1>2 DEF Tick
  <1>4. stopRecord' \in [kind : Kinds, left : 0..AllowanceFor]
    <2>1. stopRecord' = IF stopRecord.left > 1 THEN [stopRecord EXCEPT !.left = stopRecord.left - 1]
                        ELSE [kind |-> "none", left |-> 0]
      BY DEF Tick
    <2>2. stopRecord \in [kind : Kinds, left : 0..AllowanceFor] /\ stopRecord.left \in 0..AllowanceFor
      BY RestStays DEF Recordeds
    <2>3. CASE stopRecord.left > 1
      <3>1. stopRecord.left - 1 \in 0..AllowanceFor
        BY <2>2, <2>3, NumbersAre
      <3> QED
        BY <2>1, <2>2, <2>3, <3>1
    <2>4. CASE ~(stopRecord.left > 1)
      BY <2>1, <2>4, ZeroFits DEF Kinds
    <2> QED
      BY <2>3, <2>4
  <1>5. ASSUME NEW w \in Workers
        PROVE  batch'[w] \in Batch /\ batch'[w].left = batch[w].left /\ batch'[w].row = batch[w].row
    <2>1. batch'[w] = [batch[w] EXCEPT !.pause = Less(batch[w].pause), !.until = Less(batch[w].until)]
      BY DEF Tick
    <2>2. batch[w] \in Batch
      BY DEF QueueInv, TypeOK
    <2>3. Less(batch[w].pause) \in (0..AllowanceFor) \cup {Nothing} /\ Less(batch[w].until) \in 0..AllowanceFor
      BY <2>2, NumbersAre, LessIs DEF Batch
    <2> QED
      BY <2>1, <2>2, <2>3 DEF Batch
  <1>6. batch' \in [Workers -> Batch]
    BY <1>5 DEF Tick
  <1>7. accepted \subseteq Taken /\ IsFiniteSet(accepted) /\ accepted' = {f[a] : a \in accepted}
    BY DEF QueueInv, TypeOK, Taken, Tick
  <1>8. IsFiniteSet(accepted')
    <2>1. DOMAIN f = accepted
      OBVIOUS
    <2> HIDE DEF f
    <2> QED
      BY <1>7, <2>1, ImageIsFinite
  <1>9. accepted' \subseteq Taken
    <2>1. \A a \in accepted : f[a] \in Taken
      <3> TAKE a \in accepted
      <3>1. a \in Taken /\ Less(a.age) \in 0..PaceWindow
        BY <1>7, NumbersAre, LessIs DEF Taken
      <3> QED
        BY <3>1 DEF Taken
    <2> HIDE DEF f
    <2> QED
      BY <1>7, <2>1
  <1>10. told' \in 0..AllowanceFor
    BY RestStays, NumbersAre, LessIs DEF Tick
  <1>11. TypeOK'
    BY <1>1, <1>3, <1>4, <1>6, <1>9, <1>10 DEF QueueInv, TypeOK, Taken
  <1>12. MarkedFits' /\ SentIsOut'
    BY <1>1, <1>2 DEF MarkedFits, SentIsOut, RowFits
  <1>13. BatchFits' /\ OneWorkerPerRow'
    BY <1>1, <1>5 DEF QueueInv, BatchFits, OneWorkerPerRow
  <1>14. Leased'
    <2> SUFFICES ASSUME ~setting.outlives, NEW w \in Workers, NEW e \in batch[w].left
                 PROVE  rows'[e].status = "PROCESSING" /\ rows'[e].lease > 0
      BY <1>1, <1>5 DEF Leased
    <2>1. e \in Emails
      BY HeldRowIs
    <2>2. rows[e].status = "PROCESSING" /\ rows[e].lease > 1 /\ rows[e].lease \in Int
      <3>1. rows[e].status = "PROCESSING"
        BY DEF QueueInv, Leased
      <3>2. rows[e].lease > 1
        BY <3>1 DEF Tick, WithinLease
      <3> QED
        BY <2>1, <3>1, <3>2, RowIs, NumbersAre
    <2> QED
      BY <1>2, <2>1, <2>2 DEF Less
  <1> QED
    BY <1>8, <1>11, <1>12, <1>13, <1>14 DEF QueueInv

-----------------------------------------------------------------------------
(* The claim. *)

LEMMA StopLeftIs ==
    ASSUME QueueInv, NEW kind \in {"paused", "allowance"}
    PROVE  /\ StopLeft(kind) \in 0..AllowanceFor
           /\ stopRecord.kind = kind => stopRecord.left =< StopLeft(kind)
  <1> DEFINE S == {x \in Emails : rows[x].status = "PENDING" /\ rows[x].mark = kind /\ OnMailgunRoad(x)}
             wait == [x \in S |-> rows[x].wait]
             marked == {wait[x] : x \in S}
             recorded == IF stopRecord.kind = kind THEN {stopRecord.left} ELSE {}
             all == {0} \cup marked \cup recorded
  <1>1. IsFiniteSet(S)
    BY NumbersAre, FS_Subset
  <1>2. IsFiniteSet(marked)
    <2>1. DOMAIN wait = S
      OBVIOUS
    <2> HIDE DEF S, wait
    <2> QED
      BY <1>1, <2>1, ImageIsFinite
  <1>3. \A x \in S : rows[x].wait \in 0..AllowanceFor
    <2> TAKE x \in S
    <2>1. x \in Emails /\ rows[x].mark \in {"paused", "allowance"}
      OBVIOUS
    <2>2. rows[x].wait \in 0..MaxWait /\ rows[x].wait =< AllowanceFor
      BY <2>1, RowIs DEF RowFits
    <2> QED
      BY <2>2, NumbersAre
  <1>4. marked \subseteq 0..AllowanceFor
    BY <1>3
  <1>5. stopRecord.left \in 0..AllowanceFor
    BY RestStays DEF Recordeds
  <1>6. all \subseteq 0..AllowanceFor
    BY <1>4, <1>5, ZeroFits
  <1>7. IsFiniteSet(all)
    <2>1. IsFiniteSet(recorded) /\ IsFiniteSet({0})
      BY FS_EmptySet, FS_Singleton
    <2> HIDE DEF marked, recorded
    <2>2. IsFiniteSet({0} \cup marked)
      BY <1>2, <2>1, FS_Union
    <2> QED
      BY <2>1, <2>2, FS_Union
  <1>8. StopLeft(kind) = Max(all)
    <2>1. marked = {rows[e].wait : e \in S}
      OBVIOUS
    <2> QED
      BY <2>1 DEF StopLeft
  <1>9. Max(all) \in all /\ \A n \in all : n =< Max(all)
    <2>1. all \in SUBSET Int /\ all # {}
      BY <1>6, NumbersAre
    <2> HIDE DEF all
    <2> QED
      BY <1>7, <2>1, GreatestIsOne
  <1>10. stopRecord.kind = kind => stopRecord.left \in all
    OBVIOUS
  <1> HIDE DEF all
  <1> QED
    BY <1>6, <1>8, <1>9, <1>10

LEMMA StopIs ==
    ASSUME QueueInv
    PROVE  StopInForce.kind \in Kinds /\ StopInForce.left \in 0..AllowanceFor
  <1>1. StopLeft("paused") \in 0..AllowanceFor /\ StopLeft("allowance") \in 0..AllowanceFor
    BY StopLeftIs
  <1> QED
    BY <1>1, ZeroFits DEF StopInForce, Kinds

LEMMA RoadClaimIsOf ==
    ASSUME NEW S, NEW room, NEW bulkRoom
    PROVE  RoadClaim(S, room, bulkRoom) \subseteq S
  BY DEF RoadClaim, Oldest

LEMMA ClaimsWhatIsDue ==
    ASSUME NEW stop, NEW wanted, NEW bulkRoom,
           NEW e \in MailgunClaim(stop, wanted, bulkRoom) \cup GmailClaim(stop, wanted)
    PROVE  e \in wanted /\ (Due(e) \/ Held(e))
  BY RoadClaimIsOf DEF MailgunClaim, GmailClaim

LEMMA ClaimFits ==
    ASSUME QueueInv, NEW w \in Workers, NEW wanted \in SUBSET Emails, NEW bulkRoom,
           Claim(w, wanted, bulkRoom), presses' \in 0..setting.presses
    PROVE  QueueInv'
  <1> DEFINE stop == StopInForce
             mine == MailgunClaim(stop, wanted, bulkRoom) \cup GmailClaim(stop, wanted)
             taken == [Idle EXCEPT !.left = mine,
                                   !.tries = [e \in Emails |-> IF e \in mine THEN rows[e].attempts + 1 ELSE 0],
                                   !.carrying = IF Carried(stop) THEN stop.kind ELSE "none",
                                   !.until = IF Carried(stop) THEN stop.left ELSE 0]
  <1>1. /\ setting' = setting /\ stopRecord' = stopRecord /\ trouble' = trouble /\ crashes' = crashes
        /\ events' = events /\ accepted' = accepted /\ told' = told
        /\ batch' = [batch EXCEPT ![w] = IF mine = {} THEN Idle ELSE taken] /\ batch[w] = Idle
        /\ unaccounted' = [e \in Emails |-> IF e \in mine /\ rows[e].status = "PROCESSING"
                                            THEN unaccounted[e] + 1 ELSE unaccounted[e]]
    BY DEF Claim
  <1>2. PICK putOff \in SUBSET Emails :
          /\ \A e \in putOff : e \notin mine /\ rows[e].status = "PENDING"
          /\ rows' = [e \in Emails |-> IF e \in mine THEN ClaimRow(rows[e])
                                       ELSE IF e \in putOff THEN [rows[e] EXCEPT !.wait = AllowanceFor]
                                       ELSE rows[e]]
    <2> DEFINE bulkClaimed == {e \in mine : e \in setting.bulk /\ OnMailgunRoad(e)}
               candidates == {e \in setting.bulk \ mine : /\ rows[e].status = "PENDING" /\ rows[e].wait = 0
                                                          /\ OnMailgunRoad(e)}
               off == IF wanted = Emails /\ bulkRoom < AllBulk /\ Cardinality(bulkClaimed) >= bulkRoom
                      THEN candidates ELSE {}
    <2>1. setting.bulk \subseteq Emails
      BY RestStays, SettingIs
    <2>2. off \in SUBSET Emails /\ \A e \in off : e \notin mine /\ rows[e].status = "PENDING"
      BY <2>1
    <2>3. rows' = [e \in Emails |-> IF e \in mine THEN ClaimRow(rows[e])
                                   ELSE IF e \in off THEN [rows[e] EXCEPT !.wait = AllowanceFor]
                                   ELSE rows[e]]
      BY DEF Claim
    <2> HIDE DEF off, mine
    <2> QED
      BY <2>2, <2>3
  <1>3. \A e \in mine : e \in Emails /\ (Due(e) \/ Held(e))
    BY ClaimsWhatIsDue
  <1>4. stop.kind \in Kinds /\ stop.left \in 0..AllowanceFor
    BY StopIs
  <1> HIDE DEF mine, stop
  <1>5. taken \in Batch /\ taken.left = mine /\ taken.row = Nothing
    <2>1. mine \in SUBSET Emails
      BY <1>3
    <2>2. [e \in Emails |-> IF e \in mine THEN rows[e].attempts + 1 ELSE 0] \in [Emails -> Nat]
      BY RowIs
    <2>3. /\ (IF Carried(stop) THEN stop.kind ELSE "none") \in Kinds
          /\ (IF Carried(stop) THEN stop.left ELSE 0) \in 0..AllowanceFor
      BY <1>4, ZeroFits DEF Kinds
    <2> QED
      BY <2>1, <2>2, <2>3, IdleIs DEF Batch
  <1> HIDE DEF taken
  <1>6. batch' \in [Workers -> Batch] /\ \A v \in Workers \ {w} : batch'[v] = batch[v]
    BY <1>1, <1>5, IdleIs DEF QueueInv, TypeOK
  <1>7. batch'[w].left = mine /\ batch'[w].row = Nothing
    BY <1>1, <1>5, IdleIs DEF QueueInv, TypeOK
  <1>8. ASSUME NEW e \in Emails
        PROVE  /\ RowFits(rows'[e])
               /\ e \in mine => rows'[e].status = "PROCESSING" /\ rows'[e].lease = Lease
    <2>1. RowFits(rows[e]) /\ rows[e] \in Row
      BY RowIs
    <2>2. CASE e \in mine
      <3>1. rows[e].status \in {"PENDING", "PROCESSING"}
        BY <1>3, <2>2 DEF Due, Held
      <3>2. rows'[e] = [rows[e] EXCEPT !.status = "PROCESSING", !.lease = Lease, !.attempts = rows[e].attempts + 1]
        BY <1>2, <2>2 DEF ClaimRow
      <3>3. Lease \in 0..Lease /\ rows[e].attempts + 1 \in Nat
        BY <2>1, NumbersAre DEF Row
      <3> QED
        BY <2>1, <3>1, <3>2, <3>3 DEF RowFits, Row, Statuses
    <2>3. CASE e \in putOff
      <3>1. rows'[e] = [rows[e] EXCEPT !.wait = AllowanceFor] /\ e \notin mine
        BY <1>2, <2>3
      <3>2. AllowanceFor \in 0..MaxWait /\ AllowanceFor =< AllowanceFor
        BY NumbersAre
      <3> QED
        BY <2>1, <3>1, <3>2 DEF RowFits, Row
    <2>4. CASE e \notin mine /\ e \notin putOff
      BY <1>2, <2>1, <2>4
    <2> QED
      BY <2>2, <2>3, <2>4
  <1>9. rows' \in [Emails -> Row]
    BY <1>2, <1>8 DEF RowFits
  <1>10. unaccounted' \in [Emails -> Nat]
    BY <1>1 DEF QueueInv, TypeOK
  <1>11. TypeOK'
    BY <1>1, <1>6, <1>9, <1>10 DEF QueueInv, TypeOK
  <1>12. MarkedFits' /\ SentIsOut'
    BY <1>1, <1>8 DEF RowFits, MarkedFits, SentIsOut
  <1>13. BatchFits'
    BY <1>6, <1>7 DEF QueueInv, BatchFits
  \* What the others hold is neither claimed nor put off.
  <1>14. ASSUME ~setting.outlives, NEW v \in Workers \ {w}, NEW e \in batch[v].left
         PROVE  e \notin mine /\ e \notin putOff /\ e \in Emails
                /\ rows[e].status = "PROCESSING" /\ rows[e].lease > 0
    <2>1. e \in Emails
      BY HeldRowIs
    <2>2. rows[e].status = "PROCESSING" /\ rows[e].lease > 0
      BY <1>14 DEF QueueInv, Leased
    <2>3. rows[e].lease # 0
      BY <2>2
    <2>4. ~Due(e) /\ ~Held(e)
      BY <2>2, <2>3 DEF Due, Held
    <2> QED
      BY <1>2, <1>3, <2>1, <2>2, <2>4
  <1>15. Leased'
    <2> SUFFICES ASSUME ~setting.outlives, NEW v \in Workers, NEW e \in batch'[v].left
                 PROVE  rows'[e].status = "PROCESSING" /\ rows'[e].lease > 0
      BY <1>1 DEF Leased
    <2>1. CASE v = w
      <3>1. e \in mine /\ e \in Emails
        BY <2>1, <1>3, <1>7
      <3> QED
        BY <3>1, <1>8, NumbersAre
    <2>2. CASE v # w
      BY <2>2, <1>2, <1>6, <1>14
    <2> QED
      BY <2>1, <2>2
  <1>16. OneWorkerPerRow'
    <2> SUFFICES ASSUME ~setting.outlives, NEW u \in Workers, NEW v \in Workers, u # v
                 PROVE  batch'[u].left \cap batch'[v].left = {}
      BY <1>1 DEF OneWorkerPerRow
    <2>1. CASE u = w
      BY <2>1, <1>6, <1>7, <1>14
    <2>2. CASE v = w
      BY <2>2, <1>6, <1>7, <1>14
    <2>3. CASE u # w /\ v # w
      BY <2>3, <1>6 DEF QueueInv, OneWorkerPerRow
    <2> QED
      BY <2>1, <2>2, <2>3
  <1> QED
    BY <1>1, <1>11, <1>12, <1>13, <1>15, <1>16 DEF QueueInv

-----------------------------------------------------------------------------
(* The call. *)

LEMMA GmailResultIs ==
    ASSUME NEW g \in {"taken", "lost", "later", "paced", "full", "refused"}, NEW m \in Kinds
    PROVE  /\ OfGmail(g, m) \in Result
           /\ OfGmail(g, m).outcome = "sent" <=> g = "taken"
  <1>1. OfGmail(g, m).outcome =
          IF g = "taken" THEN "sent" ELSE IF g \in {"lost", "later"} THEN "transient" ELSE g
    BY DEF OfGmail
  <1>2. OfGmail(g, m).outcome \in Outcomes
    BY <1>1 DEF Outcomes
  <1>3. OfGmail(g, m) = [outcome |-> OfGmail(g, m).outcome, by |-> "gmail", stop |-> m, knocked |-> m # "none"]
    BY DEF OfGmail
  <1>4. OfGmail(g, m) \in Result
    <2> DEFINE o == OfGmail(g, m).outcome
    <2>1. [outcome |-> o, by |-> "gmail", stop |-> m, knocked |-> m # "none"] \in Result
      <3> HIDE DEF o
      <3>1. o \in Outcomes
        BY <1>2 DEF o
      <3> QED
        BY <3>1 DEF Result
    <2> QED
      BY <1>3, <2>1
  <1>5. OfGmail(g, m).outcome = "sent" <=> g = "taken"
    BY <1>1
  <1> QED
    BY <1>4, <1>5

LEMMA MailgunResultIs ==
    ASSUME setting \in Settings, NEW m \in MailgunAnswers
    PROVE  /\ OfMailgun(m) \in Result
           /\ OfMailgun(m).outcome = "sent" <=> m = "taken"
  <1>1. m \in {"taken", "lost", "fails", "refused", "account", "paused", "allowance"}
    BY SettingIs DEF MailgunAnswers
  <1>2. OfMailgun(m).outcome =
          IF m = "taken" THEN "sent" ELSE IF m \in {"lost", "fails"} THEN "transient"
          ELSE IF m = "paused" THEN "ratePaused" ELSE m
    BY DEF OfMailgun
  <1>3. OfMailgun(m).outcome \in Outcomes
    BY <1>1, <1>2 DEF Outcomes
  <1>4. OfMailgun(m) = [outcome |-> OfMailgun(m).outcome, by |-> "mailgun", stop |-> "none", knocked |-> TRUE]
    BY DEF OfMailgun
  <1>5. OfMailgun(m) \in Result
    <2> DEFINE o == OfMailgun(m).outcome
    <2>1. [outcome |-> o, by |-> "mailgun", stop |-> "none", knocked |-> TRUE] \in Result
      <3> HIDE DEF o
      <3>1. o \in Outcomes
        BY <1>3 DEF o
      <3> QED
        BY <3>1 DEF Result, Kinds
    <2> QED
      BY <1>4, <2>1
  <1>6. OfMailgun(m).outcome = "sent" <=> m = "taken"
    BY <1>1, <1>2
  <1> QED
    BY <1>5, <1>6

LEMMA FullResultIs ==
    /\ [OfGmail("full", "none") EXCEPT !.knocked = FALSE] \in Result
    /\ [OfGmail("full", "none") EXCEPT !.knocked = FALSE].outcome = "full"
  <1>1. OfGmail("full", "none") \in Result /\ OfGmail("full", "none").outcome # "sent"
    BY GmailResultIs DEF Kinds
  <1>2. OfGmail("full", "none").outcome = "full"
    BY DEF OfGmail
  <1> QED
    BY <1>1, <1>2 DEF Result

\* The ways a call can go, by the road the row is on.
LEMMA CallShapes ==
    ASSUME NEW b, NEW e, NEW call \in Calls(b, e)
    PROVE  \/ /\ Road(b, e) \in {"gmailOnly", "gmail"} /\ call.mailgun = "unasked" /\ call.gmail \in GmailAnswers
              /\ call.result = IF call.gmail \in {"full", "down"} THEN [OfGmail("full", "none") EXCEPT !.knocked = FALSE]
                               ELSE OfGmail(call.gmail, "none")
           \/ /\ Road(b, e) = "gmail" /\ call.gmail \in {"full", "down"} /\ call.mailgun \in MailgunAnswers
              /\ call.result = OfMailgun(call.mailgun)
           \/ /\ Road(b, e) = "mailgun" /\ call.gmail = "unasked" /\ call.mailgun \in MailgunAnswers
              /\ call.result = OfMailgun(call.mailgun)
           \/ /\ Road(b, e) = "mailgun" /\ call.gmail \in GmailAnswers /\ call.mailgun \in setting.refusals
              /\ call.result = IF call.gmail \in {"full", "down"} THEN OfMailgun(call.mailgun)
                               ELSE OfGmail(call.gmail, call.mailgun)
  <1> DEFINE road == Road(b, e)
             asksGmail == IF b.gmailDown THEN {"down"} ELSE GmailAnswers
             asked == IF road = "gmailOnly" THEN asksGmail
                      ELSE IF road = "gmail" THEN asksGmail \ {"down"} ELSE {}
             failed == IF road = "gmail" THEN asksGmail \cap {"full", "down"} ELSE {}
             direct == IF road = "mailgun"
                       THEN IF Spills(e) /\ ~b.gmailDown
                            THEN MailgunAnswers \ {"paused", "allowance"} ELSE MailgunAnswers
                       ELSE {}
             second == IF road = "mailgun" /\ Spills(e) /\ ~b.gmailDown THEN GmailAnswers ELSE {}
             onGmail == { [gmail |-> g, mailgun |-> "unasked",
                           result |-> IF g \in {"full", "down"}
                                      THEN [OfGmail("full", "none") EXCEPT !.knocked = FALSE]
                                      ELSE OfGmail(g, "none")] : g \in asked }
             through == { [gmail |-> g, mailgun |-> m, result |-> OfMailgun(m)] : g \in failed, m \in MailgunAnswers }
             onMailgun == { [gmail |-> "unasked", mailgun |-> m, result |-> OfMailgun(m)] : m \in direct }
             spilled == { [gmail |-> g, mailgun |-> m,
                           result |-> IF g \in {"full", "down"} THEN OfMailgun(m) ELSE OfGmail(g, m)]
                            : g \in second, m \in setting.refusals }
  <1>1. call \in onGmail \cup through \cup onMailgun \cup spilled
    BY DEF Calls
  <1>2. /\ asked \subseteq GmailAnswers /\ (asked # {} => road \in {"gmailOnly", "gmail"})
        /\ failed \subseteq {"full", "down"} /\ (failed # {} => road = "gmail")
        /\ direct \subseteq MailgunAnswers /\ (direct # {} => road = "mailgun")
        /\ second \subseteq GmailAnswers /\ (second # {} => road = "mailgun")
    BY DEF GmailAnswers
  <1> HIDE DEF asked, failed, direct, second, road
  <1>3. CASE call \in onGmail
    <2> DEFINE full == [OfGmail("full", "none") EXCEPT !.knocked = FALSE]
    <2>1. PICK g \in asked :
            call = [gmail |-> g, mailgun |-> "unasked",
                    result |-> IF g \in {"full", "down"} THEN full ELSE OfGmail(g, "none")]
      BY <1>3
    <2> HIDE DEF full
    <2>2. /\ call.gmail = g /\ call.mailgun = "unasked" /\ g \in GmailAnswers
          /\ call.result = IF g \in {"full", "down"} THEN full ELSE OfGmail(g, "none")
      BY <1>2, <2>1
    <2>3. road \in {"gmailOnly", "gmail"}
      BY <1>2
    <2> QED
      BY <2>2, <2>3 DEF road, full
  <1>4. CASE call \in through
    BY <1>2, <1>4 DEF road
  <1>5. CASE call \in onMailgun
    BY <1>2, <1>5 DEF road
  <1>6. CASE call \in spilled
    BY <1>2, <1>6 DEF road
  <1> QED
    BY <1>1, <1>3, <1>4, <1>5, <1>6

\* What a provider took is reported as sent, or its answer was lost.
LEMMA CallIs ==
    ASSUME setting \in Settings, NEW b \in Batch, NEW e, NEW call \in Calls(b, e)
    PROVE  /\ call.result \in Result
           /\ Took(call) => call.result.outcome = "sent" \/ "lost" \in {call.gmail, call.mailgun}
  <1> DEFINE full == [OfGmail("full", "none") EXCEPT !.knocked = FALSE]
  <1>1. setting.refusals \subseteq MailgunAnswers /\ setting.refusals \subseteq {"paused", "allowance"}
    BY SettingIs DEF MailgunAnswers
  <1>2. full \in Result
    BY FullResultIs
  <1> HIDE DEF full
  <1>3. CASE /\ call.mailgun = "unasked" /\ call.gmail \in GmailAnswers
             /\ call.result = IF call.gmail \in {"full", "down"} THEN full ELSE OfGmail(call.gmail, "none")
    BY <1>2, <1>3, GmailResultIs DEF Took, GmailAnswers, Kinds
  <1>4. CASE /\ call.gmail \in {"full", "down", "unasked"} /\ call.mailgun \in MailgunAnswers
             /\ call.result = OfMailgun(call.mailgun)
    BY <1>4, MailgunResultIs DEF Took
  <1>5. CASE /\ call.gmail \in GmailAnswers /\ call.mailgun \in setting.refusals
             /\ call.result = IF call.gmail \in {"full", "down"} THEN OfMailgun(call.mailgun)
                              ELSE OfGmail(call.gmail, call.mailgun)
    <2>1. /\ call.mailgun \in MailgunAnswers /\ call.mailgun \in Kinds
          /\ call.mailgun \notin {"taken", "lost"}
      BY <1>1, <1>5 DEF Kinds
    <2>2. CASE call.gmail \in {"full", "down"}
      BY <1>5, <2>1, <2>2, MailgunResultIs DEF Took
    <2>3. CASE call.gmail \notin {"full", "down"}
      BY <1>5, <2>1, <2>3, GmailResultIs DEF Took, GmailAnswers
    <2> QED
      BY <2>2, <2>3
  <1> QED
    BY <1>3, <1>4, <1>5, CallShapes DEF full

LEMMA CostIs ==
    ASSUME NEW b, NEW call
    PROVE  Cost(b, call) \in Nat
  <1> DEFINE C == {x \in {"gmail", "mailgun"} : call[x] \notin {"taken", "unasked"}}
  <1>1. C \in SUBSET {"gmail", "mailgun"}
    OBVIOUS
  <1>2. IsFiniteSet(C) /\ Cardinality(C) \in Nat /\ (C # {} => Cardinality(C) # 0)
    <2> HIDE DEF C
    <2>1. IsFiniteSet(C)
      BY <1>1, PairIsFinite, FS_Subset
    <2> QED
      BY <2>1, FS_CardinalityType, FS_EmptySet
  <1>3. call.gmail = "down" => "gmail" \in C
    BY DEF C
  <1>4. Cost(b, call) = Cardinality(C) - (IF b.gmailDown /\ call.gmail = "down" THEN 1 ELSE 0)
    BY DEF Cost
  <1> HIDE DEF C
  <1>5. CASE call.gmail = "down"
    <2>1. Cardinality(C) \in Nat /\ Cardinality(C) # 0
      BY <1>2, <1>3, <1>5
    <2> QED
      BY <1>4, <2>1
  <1>6. CASE call.gmail # "down"
    BY <1>2, <1>4, <1>6
  <1> QED
    BY <1>5, <1>6

LEMMA SendFits ==
    ASSUME QueueInv, NEW w \in Workers, Send(w)
    PROVE  QueueInv'
  <1> DEFINE b == batch[w]
             e == NextOf(b.left)
  <1>1. PICK call \in Calls(b, e) :
          /\ trouble + Cost(b, call) =< setting.trouble
          /\ trouble' = trouble + Cost(b, call)
          /\ batch' = [batch EXCEPT ![w] = [b EXCEPT !.row = e, !.result = call.result,
                                             !.gmailDown = b.gmailDown \/ call.gmail \in {"down", "lost"}]]
          /\ accepted' = accepted \cup AcceptedBy(b, e, call)
          /\ unaccounted' = [unaccounted EXCEPT ![e] = unaccounted[e] +
                               (IF "lost" \in {call.gmail, call.mailgun} THEN 1 ELSE 0)]
    BY DEF Send
  <1>2. /\ setting' = setting /\ rows' = rows /\ stopRecord' = stopRecord /\ crashes' = crashes
        /\ presses' = presses /\ events' = events /\ told' = told
    BY DEF Send
  <1>3. e \in b.left /\ e \in Emails /\ b \in Batch
    BY NextIsHeld, HeldRowIs DEF Send, Working
  <1> HIDE DEF e
  <1>4. call.result \in Result /\ Cost(b, call) \in Nat
    BY <1>3, CallIs, CostIs, RestStays
  <1>5. trouble' \in 0..setting.trouble
    BY <1>1, <1>4, RestStays, SettingIs
  <1>6. [b EXCEPT !.row = e, !.result = call.result,
                  !.gmailDown = b.gmailDown \/ call.gmail \in {"down", "lost"}] \in Batch
    BY <1>3, <1>4 DEF Batch
  <1>7. batch' \in [Workers -> Batch] /\ \A v \in Workers : batch'[v].left = batch[v].left
    BY <1>1, <1>3, <1>6 DEF QueueInv, TypeOK, Batch
  <1>8. BatchFits'
    BY <1>1, <1>3, <1>7 DEF QueueInv, BatchFits, TypeOK, Batch
  <1>9. AcceptedBy(b, e, call) \subseteq Taken /\ IsFiniteSet(AcceptedBy(b, e, call))
    <2>1. Copies(e) \in Nat
      <3>1. IsFiniteSet({a \in accepted : a.email = e})
        BY FS_Subset DEF QueueInv
      <3> QED
        BY <3>1, FS_CardinalityType DEF Copies
    <2>2. Copies(e) + 1 \in Nat /\ PaceWindow \in 0..PaceWindow
      BY <2>1, NumbersAre
    <2>3. CASE Took(call)
      <3>1. PICK r \in {"mailgun", "gmail", "spilled", "lost"} :
              AcceptedBy(b, e, call) = {[email |-> e, copy |-> Copies(e) + 1, age |-> PaceWindow, road |-> r]}
        BY <2>3 DEF AcceptedBy
      <3>2. [email |-> e, copy |-> Copies(e) + 1, age |-> PaceWindow, road |-> r] \in Taken
        BY <1>3, <2>2 DEF Taken
      <3> QED
        BY <3>1, <3>2, FS_Singleton
    <2>4. CASE ~Took(call)
      BY <2>4, FS_EmptySet DEF AcceptedBy
    <2> QED
      BY <2>3, <2>4
  <1>10. IsFiniteSet(accepted') /\ accepted' \subseteq Taken
    BY <1>1, <1>9, FS_Union DEF QueueInv, TypeOK, Taken
  <1>11. unaccounted' \in [Emails -> Nat]
    BY <1>1, <1>3 DEF QueueInv, TypeOK
  <1>12. TypeOK'
    BY <1>2, <1>5, <1>7, <1>10, <1>11 DEF QueueInv, TypeOK, Taken
  <1>13. Leased' /\ OneWorkerPerRow' /\ MarkedFits' /\ SentIsOut'
    BY <1>2, <1>7 DEF QueueInv, Leased, OneWorkerPerRow, MarkedFits, SentIsOut
  <1> QED
    BY <1>8, <1>10, <1>12, <1>13 DEF QueueInv

-----------------------------------------------------------------------------
(* The outcome. *)

LEMMA OutcomeFits ==
    ASSUME NEW r, RowFits(r), ~setting.outlives => ~r.sent,
           NEW b \in Batch, NEW e, b.tries[e] \in Nat
    PROVE  RowFits(Outcome(r, b, e))
  <1> DEFINE out == b.result.outcome
             pending == [r EXCEPT !.status = "PENDING", !.lease = 0]
  <1>1. /\ r \in Row /\ b.until \in 0..AllowanceFor
        /\ 1 \in 0..AllowanceFor /\ PauseFor \in 0..AllowanceFor /\ AllowanceFor \in 0..AllowanceFor
        /\ AllowanceFor \in 0..MaxWait /\ Backoff(b.tries[e]) \in 0..MaxWait
        /\ PaceWindow \in 0..PaceWindow
    BY NumbersAre DEF RowFits, Batch, Backoff
  <1>2. Min({1, b.until}) \in 0..AllowanceFor
    BY <1>1, NumbersAre, OfTwo
  <1>3. CASE out = "sent"
    <2>1. Outcome(r, b, e) = [r EXCEPT !.status = "SENT", !.lease = 0, !.wait = 0, !.mark = "none",
                                       !.fresh = PaceWindow, !.sent = TRUE, !.viaGmail = (b.result.by = "gmail")]
      BY <1>3 DEF Outcome
    <2> QED
      BY <1>1, <2>1, ZeroFits DEF RowFits, Row, Statuses, Marks
  <1>4. CASE out = "full" /\ b.carrying # "none"
    <2>1. Outcome(r, b, e) = [GivenBack(r, b.tries[e], Min({1, b.until})) EXCEPT !.mark = "waitsForGmail"]
      BY <1>4 DEF Outcome
    <2>2. RowFits(GivenBack(r, b.tries[e], Min({1, b.until})))
      BY <1>2, GivenBackFits
    <2> QED
      BY <2>1, <2>2 DEF RowFits, Row, Marks
  <1>5. CASE out = "full" /\ b.carrying = "none"
    <2>1. Outcome(r, b, e) = [pending EXCEPT !.wait = AllowanceFor, !.mark = "none"]
      BY <1>5 DEF Outcome
    <2> QED
      BY <1>1, <2>1, ZeroFits DEF RowFits, Row, Statuses, Marks
  <1>6. CASE out = "paced"
    <2>1. Outcome(r, b, e) = GivenBack(r, b.tries[e], 1)
      BY <1>6 DEF Outcome
    <2> QED
      BY <1>1, <2>1, GivenBackFits
  <1>7. CASE out = "ratePaused"
    <2>1. Outcome(r, b, e) = [GivenBack(r, b.tries[e], PauseFor) EXCEPT !.mark = "paused"]
      BY <1>7 DEF Outcome
    <2>2. RowFits(GivenBack(r, b.tries[e], PauseFor))
      BY <1>1, GivenBackFits
    <2>3. GivenBack(r, b.tries[e], PauseFor).wait = PauseFor
      BY <1>1 DEF GivenBack, Row
    <2> QED
      BY <2>1, <2>2, <2>3, NumbersAre DEF RowFits, Row, Marks
  <1>8. CASE out = "allowance"
    <2>1. Outcome(r, b, e) = [pending EXCEPT !.wait = AllowanceFor, !.mark = "allowance"]
      BY <1>8 DEF Outcome
    <2>2. AllowanceFor =< AllowanceFor
      BY NumbersAre
    <2> QED
      BY <1>1, <2>1, <2>2, ZeroFits DEF RowFits, Row, Statuses, Marks
  <1>9. CASE out = "transient"
    <2>1. Outcome(r, b, e) = [pending EXCEPT !.wait = Backoff(b.tries[e]), !.mark = "none"]
      BY <1>9 DEF Outcome
    <2> QED
      BY <1>1, <2>1, ZeroFits DEF RowFits, Row, Statuses, Marks
  <1>10. CASE out = "refused"
    <2>1. Outcome(r, b, e) = [r EXCEPT !.status = "BOUNCED", !.lease = 0, !.wait = 0, !.mark = "none"]
      BY <1>10 DEF Outcome
    <2> QED
      BY <1>1, <2>1, ZeroFits DEF RowFits, Row, Statuses, Marks
  <1>11. CASE out \notin {"sent", "full", "paced", "ratePaused", "allowance", "transient", "refused"}
    <2>1. Outcome(r, b, e) = [r EXCEPT !.status = "FAILED", !.lease = 0, !.wait = 0, !.mark = "none"]
      BY <1>11 DEF Outcome
    <2> QED
      BY <1>1, <2>1, ZeroFits DEF RowFits, Row, Statuses, Marks
  <1> QED
    BY <1>3, <1>4, <1>5, <1>6, <1>7, <1>8, <1>9, <1>10, <1>11

LEMMA RecordedFits ==
    ASSUME QueueInv, NEW kind \in Kinds, NEW left \in 0..AllowanceFor
    PROVE  Recorded(kind, left) \in Recordeds
  BY RestStays DEF Recorded, Recordeds

LEMMA HeardIs ==
    ASSUME NEW b \in Batch, NEW kind \in Kinds
    PROVE  Heard(b, kind) \in Batch /\ Heard(b, kind).left = b.left
  <1>1. StopFor(kind) \in 0..AllowanceFor /\ PauseFor \in 0..AllowanceFor
    BY NumbersAre DEF StopFor
  <1> QED
    BY <1>1 DEF Heard, Batch

\* What the worker knows after an outcome: its row is still among its own, in nobody's hand.
AfterRecord(b) ==
  [Heard(b, Announced(b)) EXCEPT !.row = Nothing, !.result = NoResult, !.kept = @ \/ Relabels(b),
                                 !.behind = @ /\ ~AskedForAPause(b)]

LEMMA AfterRecordIs ==
    ASSUME NEW b \in Batch
    PROVE  /\ Announced(b) \in Kinds
           /\ AfterRecord(b) \in Batch /\ AfterRecord(b).left = b.left /\ AfterRecord(b).row = Nothing
  <1>1. b.result \in Result
    BY DEF Batch
  <1>2. Announced(b) \in Kinds
    BY <1>1 DEF Announced, Result, Kinds
  <1>3. Heard(b, Announced(b)) \in Batch /\ Heard(b, Announced(b)).left = b.left
    BY <1>2, HeardIs
  <1>4. NoResult \in Result
    BY IdleIs DEF Batch
  <1>5. Relabels(b) \in BOOLEAN /\ AskedForAPause(b) \in BOOLEAN
    BY DEF Relabels, AskedForAPause
  <1>6. \A x \in Batch : x.kept \in BOOLEAN /\ x.behind \in BOOLEAN
    BY DEF Batch
  <1> DEFINE h == Heard(b, Announced(b))
             kept == h.kept \/ Relabels(b)
             behind == h.behind /\ ~AskedForAPause(b)
  <1>7. AfterRecord(b) = [h EXCEPT !.row = Nothing, !.result = NoResult, !.kept = kept, !.behind = behind]
    BY DEF AfterRecord
  <1>8. h \in Batch /\ h.left = b.left /\ kept \in BOOLEAN /\ behind \in BOOLEAN
    BY <1>3, <1>5, <1>6
  <1> HIDE DEF h, kept, behind
  <1>9. AfterRecord(b) \in Batch /\ AfterRecord(b).left = h.left /\ AfterRecord(b).row = Nothing
    BY <1>4, <1>7, <1>8 DEF Batch
  <1> QED
    BY <1>2, <1>8, <1>9

LEMMA RecordFits ==
    ASSUME QueueInv, NEW w \in Workers, Record(w)
    PROVE  QueueInv'
  <1> DEFINE b == batch[w]
             e == b.row
             done == AfterRecord(b)
  <1>1. e \in b.left /\ b \in Batch
    BY DEF Record, QueueInv, TypeOK, BatchFits
  <1>2. /\ e \in Emails /\ RowFits(rows[e]) /\ b.tries[e] \in Nat
        /\ ~setting.outlives => ~rows[e].sent
    BY <1>1, HeldRowIs
  <1>3. RowFits(Written(rows[e], b, e))
    BY <1>1, <1>2, OutcomeFits DEF Written
  <1>4. /\ Announced(b) \in Kinds
        /\ done \in Batch /\ done.left = b.left /\ done.row = Nothing
    BY <1>1, AfterRecordIs
  <1>5. batch' = [v \in Workers |->
                    IF v = w THEN Without(done, e)
                    ELSE IF AskedForAPause(b) /\ batch[v] # Idle
                    THEN [batch[v] EXCEPT !.behind = TRUE] ELSE batch[v]]
    BY DEF Record, AfterRecord
  <1>6. Without(done, e) \in Batch
    BY <1>1, <1>4, WithoutIs
  <1>7. /\ batch'[w] = Without(done, e)
        /\ batch' \in [Workers -> Batch]
        /\ \A v \in Workers \ {w} : batch'[v].left = batch[v].left /\ batch'[v].row = batch[v].row
    <2>1. \A v \in Workers : batch[v] \in Batch
      BY DEF QueueInv, TypeOK
    <2>2. \A h \in Batch : /\ [h EXCEPT !.behind = TRUE] \in Batch
                           /\ [h EXCEPT !.behind = TRUE].left = h.left /\ [h EXCEPT !.behind = TRUE].row = h.row
      BY DEF Batch
    <2> HIDE DEF done, e
    <2> QED
      BY <1>5, <1>6, <2>1, <2>2
  <1> HIDE DEF done
  <1>8. Lighter(e)
    BY <1>1, <1>4, <1>7, RowLeaves
  <1>9. SetRow(e, Written(rows[e], b, e))
    BY DEF Record
  <1>10. stopRecord' \in Recordeds
    <2>1. StopFor(Announced(b)) \in 0..AllowanceFor
      BY NumbersAre DEF StopFor
    <2>2. b.carrying \in Kinds /\ b.until \in 0..AllowanceFor
      BY <1>1 DEF Batch
    <2>3. stopRecord' = IF Announced(b) # "none" THEN Recorded(Announced(b), StopFor(Announced(b)))
                        ELSE IF Relabels(b) THEN Recorded(b.carrying, b.until)
                        ELSE stopRecord
      BY DEF Record
    <2> QED
      BY <1>4, <2>1, <2>2, <2>3, RecordedFits, RestStays
  <1>11. told' \in 0..AllowanceFor
    <2>1. told \in 0..AllowanceFor /\ PauseFor \in 0..AllowanceFor /\ AllowanceFor \in Nat
      BY RestStays, NumbersAre
    <2>2. Max({told, PauseFor}) \in 0..AllowanceFor
      BY <2>1, OfTwo
    <2> QED
      BY <2>1, <2>2 DEF Record
  <1>12. RestFits
    BY <1>10, <1>11, RestStays DEF Record, RestFits
  <1> HIDE DEF e, b
  <1> QED
    BY <1>2, <1>3, <1>8, <1>9, <1>12, RowStep

-----------------------------------------------------------------------------
(* Every step. *)

LEMMA StepFits == QueueInv /\ [Next]_vars => QueueInv'
  <1> SUFFICES ASSUME QueueInv, [Next]_vars PROVE QueueInv'
    OBVIOUS
  <1>1. ASSUME NEW e \in Emails, Enqueue(e) \/ ReplaceRow(e) PROVE QueueInv'
    BY <1>1, EnqueueFits, ReplaceRowFits
  <1>2. CASE RetryFailed
    BY <1>2, RetryFailedFits
  <1>3. ASSUME NEW w \in Workers, Work(w) PROVE QueueInv'
    BY <1>3, HandBackFits, RenderEndsFits, SendFits, RecordFits DEF Work, Withdraw, RenderFails
  <1>4. ASSUME NEW w \in Workers, Crash(w) PROVE QueueInv'
    BY <1>4, CrashFits
  <1>5. ASSUME NEW w \in Workers, NEW bulkRoom \in 0..AllBulk, ScheduledClaim(w, bulkRoom) PROVE QueueInv'
    <2>1. Claim(w, Emails, bulkRoom) /\ presses' \in 0..setting.presses
      BY <1>5, RestStays DEF ScheduledClaim
    <2> QED
      BY <2>1, ClaimFits
  <1>6. ASSUME NEW w \in Workers, NEW e \in Emails, PressClaim(w, e) PROVE QueueInv'
    <2>1. presses < setting.presses /\ presses' = presses + 1 /\ Claim(w, {e}, AllBulk)
      BY <1>6 DEF PressClaim
    <2>2. presses' \in 0..setting.presses
      <3>1. presses \in 0..setting.presses /\ setting.presses \in Nat
        BY RestStays, SettingIs
      <3> QED
        BY <2>1, <3>1
    <2> QED
      BY <2>1, <2>2, ClaimFits
  <1>7. ASSUME NEW e \in Emails, NEW verdict \in {"BOUNCED", "COMPLAINED"}, MailgunSays(e, verdict)
        PROVE  QueueInv'
    BY <1>7, MailgunSaysFits
  <1>8. CASE Tick
    BY <1>8, TickFits
  <1>9. CASE UNCHANGED vars
    BY <1>9 DEF vars, QueueInv, TypeOK, MarkedFits, BatchFits, Leased, SentIsOut, OneWorkerPerRow
  <1> QED
    BY <1>1, <1>2, <1>3, <1>4, <1>5, <1>6, <1>7, <1>8, <1>9 DEF Next

LEMMA Inductive == Spec => []QueueInv
  BY InitFits, StepFits, PTL DEF Spec

(* Every row, lease, stop and batch of the queue has its type, whatever is set, pressed, answered
   or lost. *)
THEOREM QueueTypeCorrect == Spec => []TypeOK
  <1>1. QueueInv => TypeOK
    BY DEF QueueInv
  <1> QED
    BY <1>1, Inductive, PTL

(* However many workers claim, send, die and are replaced, no two of them hold one email: a claim
   takes only what is due, and what is held is not due while its lease runs (where no run outlives
   its lease). *)
THEOREM OneWorkerPerRowHolds == Spec => []OneWorkerPerRow
  <1>1. QueueInv => OneWorkerPerRow
    BY DEF QueueInv
  <1> QED
    BY <1>1, Inductive, PTL

-----------------------------------------------------------------------------
(* A complaint stands. *)

LEMMA ComplaintStays ==
    ASSUME QueueInv, [Next]_vars, NEW e \in Emails, ~setting.outlives, rows[e].status = "COMPLAINED"
    PROVE  rows'[e].status = "COMPLAINED"
  <1>1. rows \in [Emails -> Row]
    BY DEF QueueInv, TypeOK
  <1>2. \A x \in Emails : \A r : x # e /\ SetRow(x, r) => rows'[e] = rows[e]
    BY <1>1 DEF SetRow
  <1>3. \A w \in Workers : e \notin batch[w].left
    BY DEF QueueInv, Leased
  <1>4. ASSUME NEW x \in Emails, Enqueue(x) \/ ReplaceRow(x) PROVE rows'[e].status = "COMPLAINED"
    BY <1>2, <1>4 DEF Enqueue, ReplaceRow
  <1>5. CASE RetryFailed
    BY <1>5 DEF RetryFailed
  <1>6. ASSUME NEW w \in Workers, Work(w) PROVE rows'[e].status = "COMPLAINED"
    <2>1. batch[w].left # {} => NextOf(batch[w].left) \in batch[w].left
      BY NextIsHeld
    <2>2. \A x \in batch[w].left : x \in Emails /\ x # e
      BY <1>3, HeldRowIs
    <2>3. CASE HandBack(w)
      BY <1>2, <2>1, <2>2, <2>3 DEF HandBack, Working
    <2>4. CASE \E status \in {"withdrawn", "FAILED"} : RenderEnds(w, status)
      BY <1>2, <2>1, <2>2, <2>4 DEF RenderEnds, Working
    <2>5. CASE Send(w)
      BY <2>5 DEF Send
    <2>6. CASE Record(w)
      <3>1. batch[w].row \in batch[w].left
        BY <2>6 DEF Record, QueueInv, BatchFits
      <3> QED
        BY <1>2, <2>2, <2>6, <3>1 DEF Record
    <2> QED
      BY <1>6, <2>3, <2>4, <2>5, <2>6 DEF Work, Withdraw, RenderFails
  <1>7. ASSUME NEW w \in Workers, Crash(w) PROVE rows'[e].status = "COMPLAINED"
    BY <1>7 DEF Crash
  <1>8. ASSUME NEW w \in Workers, NEW wanted \in SUBSET Emails, NEW bulkRoom, Claim(w, wanted, bulkRoom)
        PROVE  rows'[e].status = "COMPLAINED"
    <2>1. ~Due(e) /\ ~Held(e)
      BY DEF Due, Held
    <2>2. e \notin MailgunClaim(StopInForce, wanted, bulkRoom) \cup GmailClaim(StopInForce, wanted)
      BY <2>1, ClaimsWhatIsDue
    <2>3. rows'[e] = rows[e]
      BY <1>8, <2>2 DEF Claim
    <2> QED
      BY <2>3
  <1>9. ASSUME NEW x \in Emails, NEW verdict \in {"BOUNCED", "COMPLAINED"}, MailgunSays(x, verdict)
        PROVE  rows'[e].status = "COMPLAINED"
    BY <1>2, <1>9 DEF MailgunSays
  <1>10. CASE Tick
    <2>1. rows[e] \in Row
      BY <1>1
    <2> QED
      BY <1>10, <2>1 DEF Tick, Row
  <1>11. CASE UNCHANGED vars
    BY <1>11 DEF vars
  <1> QED
    BY <1>4, <1>5, <1>6, <1>7, <1>8, <1>9, <1>10, <1>11 DEF Next, ScheduledClaim, PressClaim

(* Whatever comes of the later reports and whoever still works, a message somebody complained of
   stays so: no worker holds it any more, and a bounce is not written over it. *)
THEOREM ComplaintStandsHolds == Spec => ComplaintStands
  <1>1. QueueInv /\ [Next]_vars =>
          [\A e \in Emails : ~setting.outlives /\ rows[e].status = "COMPLAINED" => rows'[e].status = "COMPLAINED"]_vars
    BY ComplaintStays
  <1> QED
    BY <1>1, Inductive, PTL DEF Spec, ComplaintStands

-----------------------------------------------------------------------------
(* How often a message may leave. *)

(* The workers that may still have it sent: theirs, and not yet taken at their asking. *)
Holders(e) == {w \in Workers : e \in batch[w].left /\ ~(batch[w].row = e /\ batch[w].result.outcome = "sent")}

(* It waits, or may be made to wait again. *)
StillTried(e) == rows[e].status \in {"absent", "PENDING", "FAILED"}

CopiesOf(e) == {a \in accepted : a.email = e}

(* What was taken and what may still be taken is paid for. *)
Paid(e) ==
  Cardinality(CopiesOf(e)) + Cardinality(Holders(e)) + (IF StillTried(e) THEN 1 ELSE 0) =< 1 + unaccounted[e]

AllPaid == \A e \in Emails : Paid(e)

LEMMA CountsAre ==
    ASSUME QueueInv, NEW e \in Emails
    PROVE  /\ IsFiniteSet(Holders(e)) /\ Cardinality(Holders(e)) \in Nat
           /\ IsFiniteSet(CopiesOf(e)) /\ Cardinality(CopiesOf(e)) \in Nat
           /\ unaccounted[e] \in Nat
  <1>1. IsFiniteSet(Holders(e))
    <2>1. Holders(e) \in SUBSET Workers
      BY DEF Holders
    <2> QED
      BY <2>1, OutboxAssumption, FS_Subset
  <1>2. IsFiniteSet(CopiesOf(e))
    <2>1. CopiesOf(e) \in SUBSET accepted
      BY DEF CopiesOf
    <2> QED
      BY <2>1, FS_Subset DEF QueueInv
  <1> QED
    BY <1>1, <1>2, FS_CardinalityType DEF QueueInv, TypeOK

LEMMA InitPaid == Init => AllPaid
  <1> SUFFICES ASSUME Init, NEW e \in Emails PROVE Paid(e)
    BY DEF AllPaid
  <1>1. Holders(e) = {} /\ CopiesOf(e) = {} /\ StillTried(e) /\ unaccounted[e] = 0
    BY IdleIs DEF Init, Holders, CopiesOf, StillTried
  <1> QED
    BY <1>1, FS_EmptySet DEF Paid

\* No more holders, no more copies, nothing tried that was not.
LEMMA PaidStays ==
    ASSUME QueueInv, QueueInv', NEW e \in Emails, Paid(e),
           Holders(e)' \subseteq Holders(e), Cardinality(CopiesOf(e)') =< Cardinality(CopiesOf(e)),
           StillTried(e)' => StillTried(e), unaccounted'[e] = unaccounted[e]
    PROVE  Paid(e)'
  <1>1. Cardinality(Holders(e)') =< Cardinality(Holders(e))
    BY CountsAre, FS_Subset
  <1>2. /\ Cardinality(Holders(e)) \in Nat /\ Cardinality(CopiesOf(e)) \in Nat /\ unaccounted[e] \in Nat
    BY CountsAre
  <1>3. /\ Cardinality(Holders(e)') \in Nat /\ Cardinality(CopiesOf(e)') \in Nat
    <2>1. IsFiniteSet(Holders(e)')
      BY CountsAre, FS_Subset
    <2>2. IsFiniteSet(CopiesOf(e)')
      <3>1. CopiesOf(e)' \in SUBSET accepted' /\ IsFiniteSet(accepted')
        BY DEF CopiesOf, QueueInv
      <3> QED
        BY <3>1, FS_Subset
    <2> QED
      BY <2>1, <2>2, FS_CardinalityType
  <1> HIDE DEF Holders, CopiesOf, StillTried
  <1> QED
    BY <1>1, <1>2, <1>3 DEF Paid

\* A row written by a worker that gives it up, whatever is written.
LEMMA PaidByItsHolder ==
    ASSUME QueueInv, QueueInv', NEW w \in Workers, NEW e \in Emails, Paid(e),
           w \in Holders(e), Holders(e)' \subseteq Holders(e) \ {w},
           accepted' = accepted, unaccounted'[e] = unaccounted[e]
    PROVE  Paid(e)'
  <1>1. /\ IsFiniteSet(Holders(e)) /\ Cardinality(Holders(e)) \in Nat /\ Cardinality(CopiesOf(e)) \in Nat
        /\ unaccounted[e] \in Nat
    BY CountsAre
  <1>2. /\ IsFiniteSet(Holders(e) \ {w}) /\ Cardinality(Holders(e) \ {w}) = Cardinality(Holders(e)) - 1
    BY <1>1, FS_RemoveElement
  <1>3. /\ Cardinality(Holders(e)') =< Cardinality(Holders(e)) - 1 /\ Cardinality(Holders(e)') \in Nat
    BY <1>2, FS_Subset, FS_CardinalityType
  <1>4. CopiesOf(e)' = CopiesOf(e)
    BY DEF CopiesOf
  <1> HIDE DEF Holders, CopiesOf, StillTried
  <1> QED
    BY <1>1, <1>3, <1>4 DEF Paid

\* The holders read the batches only: whose rows, which one is in hand, and what was answered.
LEMMA HoldersStay ==
    ASSUME NEW e, \A w \in Workers : /\ batch'[w].left = batch[w].left /\ batch'[w].row = batch[w].row
                                     /\ batch'[w].result = batch[w].result
    PROVE  Holders(e)' = Holders(e)
  BY DEF Holders

LEMMA QuietStepPaid ==
    ASSUME QueueInv, QueueInv', AllPaid,
           batch' = batch, accepted' = accepted, unaccounted' = unaccounted,
           \A e \in Emails : StillTried(e)' => StillTried(e)
    PROVE  AllPaid'
  <1> SUFFICES ASSUME NEW e \in Emails PROVE Paid(e)'
    BY DEF AllPaid
  <1>1. Holders(e)' \subseteq Holders(e)
    BY HoldersStay
  <1>2. CopiesOf(e)' = CopiesOf(e) /\ Cardinality(CopiesOf(e)) =< Cardinality(CopiesOf(e))
    <2>1. CopiesOf(e)' = CopiesOf(e)
      BY DEF CopiesOf
    <2>2. Cardinality(CopiesOf(e)) \in Nat
      BY CountsAre
    <2> QED
      BY <2>1, <2>2
  <1> QED
    BY <1>1, <1>2, PaidStays DEF AllPaid

LEMMA RowChangesPaid ==
    ASSUME QueueInv, QueueInv', AllPaid,
           \/ \E e \in Emails : Enqueue(e) \/ ReplaceRow(e)
           \/ RetryFailed
           \/ \E e \in Emails, verdict \in {"BOUNCED", "COMPLAINED"} : MailgunSays(e, verdict)
    PROVE  AllPaid'
  <1>1. batch' = batch /\ accepted' = accepted /\ unaccounted' = unaccounted
    BY DEF Enqueue, ReplaceRow, RetryFailed, MailgunSays, ghosts
  <1>2. rows \in [Emails -> Row]
    BY DEF QueueInv, TypeOK
  <1>3. \A e \in Emails : StillTried(e)' => StillTried(e)
    <2>1. CASE \E x \in Emails : Enqueue(x)
      BY <1>2, <2>1 DEF Enqueue, SetRow, StillTried, Row
    <2>2. CASE \E x \in Emails : ReplaceRow(x)
      BY <1>2, <2>2 DEF ReplaceRow, SetRow, StillTried, Row
    <2>3. CASE RetryFailed
      BY <1>2, <2>3 DEF RetryFailed, StillTried, Row
    <2>4. CASE \E x \in Emails, verdict \in {"BOUNCED", "COMPLAINED"} : MailgunSays(x, verdict)
      <3>1. PICK x \in Emails, verdict \in {"BOUNCED", "COMPLAINED"} : MailgunSays(x, verdict)
        BY <2>4
      <3>2. rows' = [rows EXCEPT ![x] = [rows[x] EXCEPT !.status = verdict, !.lease = 0, !.wait = 0, !.mark = "none"]]
        BY <3>1 DEF MailgunSays, SetRow
      <3>3. rows[x] \in Row
        BY <1>2
      <3>4. rows'[x].status = verdict /\ \A e \in Emails \ {x} : rows'[e] = rows[e]
        BY <1>2, <3>2, <3>3 DEF Row
      <3> QED
        BY <3>4 DEF StillTried
    <2> QED
      BY <2>1, <2>2, <2>3, <2>4
  <1> QED
    BY <1>1, <1>3, QuietStepPaid

\* The copies of one email after each was written otherwise: no more than before.
LEMMA FewerCopies ==
    ASSUME QueueInv, NEW e \in Emails, NEW f, DOMAIN f = accepted,
           \A a \in accepted : f[a].email = a.email, accepted' = {f[a] : a \in accepted}
    PROVE  Cardinality(CopiesOf(e)') =< Cardinality(CopiesOf(e))
  <1> DEFINE g == [a \in CopiesOf(e) |-> f[a]]
  <1>1. CopiesOf(e)' = {g[a] : a \in CopiesOf(e)}
    <2>1. \A a : a \in CopiesOf(e) <=> a \in accepted /\ a.email = e
      BY DEF CopiesOf
    <2>2. \A c : c \in CopiesOf(e)' <=> \E a \in accepted : c = f[a] /\ a.email = e
      BY DEF CopiesOf
    <2>3. \A a \in CopiesOf(e) : g[a] = f[a]
      OBVIOUS
    <2> HIDE DEF g, CopiesOf
    <2>4. \A c : c \in CopiesOf(e)' <=> \E a \in CopiesOf(e) : c = g[a]
      BY <2>1, <2>2, <2>3
    <2> QED
      BY <2>4
  <1>2. DOMAIN g = CopiesOf(e) /\ IsFiniteSet(CopiesOf(e))
    BY CountsAre
  <1> HIDE DEF g
  <1> QED
    BY <1>1, <1>2, ImageIsFinite

LEMMA CrashPaid ==
    ASSUME QueueInv, QueueInv', AllPaid, NEW w \in Workers, Crash(w)
    PROVE  AllPaid'
  <1> DEFINE f == [a \in accepted |-> IF batch[w].row = a.email /\ batch[w].result.outcome = "sent" /\ a.road = "mailgun"
                                     THEN [a EXCEPT !.road = "lost"] ELSE a]
  <1> SUFFICES ASSUME NEW e \in Emails PROVE Paid(e)'
    BY DEF AllPaid
  <1>1. rows' = rows /\ unaccounted' = unaccounted /\ accepted' = {f[a] : a \in accepted}
    BY DEF Crash
  <1>2. \A a \in accepted : f[a].email = a.email
    BY DEF QueueInv, TypeOK
  <1>3. batch'[w].left = {} /\ \A v \in Workers \ {w} : batch'[v] = batch[v]
    BY IdleIs DEF Crash, QueueInv, TypeOK
  <1>4. Holders(e)' \subseteq Holders(e)
    BY <1>3 DEF Holders
  <1>5. DOMAIN f = accepted
    OBVIOUS
  <1> HIDE DEF f
  <1>6. Cardinality(CopiesOf(e)') =< Cardinality(CopiesOf(e))
    BY <1>1, <1>2, <1>5, FewerCopies
  <1>7. StillTried(e)' => StillTried(e)
    BY <1>1 DEF StillTried
  <1> QED
    BY <1>1, <1>4, <1>6, <1>7, PaidStays DEF AllPaid

LEMMA TickPaid ==
    ASSUME QueueInv, QueueInv', AllPaid, Tick
    PROVE  AllPaid'
  <1> DEFINE f == [a \in accepted |-> [a EXCEPT !.age = Less(@)]]
  <1> SUFFICES ASSUME NEW e \in Emails PROVE Paid(e)'
    BY DEF AllPaid
  <1>1. unaccounted' = unaccounted /\ accepted' = {f[a] : a \in accepted} /\ DOMAIN f = accepted
    BY DEF Tick
  <1>2. \A a \in accepted : f[a].email = a.email
    BY DEF QueueInv, TypeOK
  <1>3. rows'[e].status = rows[e].status
    <2>1. rows[e] \in Row
      BY RowIs
    <2>2. rows'[e] = [rows[e] EXCEPT !.wait = Less(@), !.lease = Less(@), !.fresh = Less(@)]
      BY DEF Tick
    <2> QED
      BY <2>1, <2>2 DEF Row
  <1>4. Holders(e)' = Holders(e)
    <2>1. \A v \in Workers : batch[v] \in Batch
      BY DEF QueueInv, TypeOK
    <2>2. \A v \in Workers : batch'[v] = [batch[v] EXCEPT !.pause = Less(@), !.until = Less(@)]
      BY DEF Tick
    <2>3. \A v \in Workers : /\ batch'[v].left = batch[v].left /\ batch'[v].row = batch[v].row
                             /\ batch'[v].result = batch[v].result
      BY <2>1, <2>2 DEF Batch
    <2> QED
      BY <2>3, HoldersStay
  <1> HIDE DEF f
  <1>5. Cardinality(CopiesOf(e)') =< Cardinality(CopiesOf(e))
    BY <1>1, <1>2, FewerCopies
  <1>6. StillTried(e)' => StillTried(e)
    BY <1>3 DEF StillTried
  <1> QED
    BY <1>1, <1>4, <1>5, <1>6, PaidStays DEF AllPaid

\* A worker gives up one of its rows: whatever it writes there, it held it.
LEMMA GivenUpPaid ==
    ASSUME QueueInv, QueueInv', AllPaid, NEW w \in Workers, NEW x \in batch[w].left, NEW r, SetRow(x, r),
           batch'[w].left = batch[w].left \ {x}, batch'[w].row = Nothing,
           batch[w].row \in {x, Nothing},
           \A v \in Workers \ {w} : /\ batch'[v].left = batch[v].left /\ batch'[v].row = batch[v].row
                                    /\ batch'[v].result = batch[v].result,
           accepted' = accepted, unaccounted' = unaccounted,
           w \notin Holders(x) => r.status \notin {"absent", "PENDING", "FAILED"}
    PROVE  AllPaid'
  <1> SUFFICES ASSUME NEW e \in Emails PROVE Paid(e)'
    BY DEF AllPaid
  <1>1. rows \in [Emails -> Row] /\ x \in Emails /\ Nothing \notin Emails
    BY HeldRowIs, NumbersAre DEF QueueInv, TypeOK
  <1>2. rows'[x] = r /\ \A y \in Emails \ {x} : rows'[y] = rows[y]
    BY <1>1 DEF SetRow
  <1>3. CopiesOf(e)' = CopiesOf(e) /\ Cardinality(CopiesOf(e)) =< Cardinality(CopiesOf(e))
    BY CountsAre DEF CopiesOf
  <1>4. CASE e # x
    <2>1. Holders(e)' \subseteq Holders(e)
      BY <1>1, <1>4 DEF Holders
    <2>2. StillTried(e)' => StillTried(e)
      BY <1>2, <1>4 DEF StillTried
    <2> QED
      BY <1>3, <2>1, <2>2, PaidStays DEF AllPaid
  <1>5. CASE e = x
    <2>1. Holders(e)' \subseteq Holders(e) \ {w}
      BY <1>5 DEF Holders
    <2>2. CASE w \in Holders(e)
      BY <2>1, <2>2, PaidByItsHolder DEF AllPaid
    <2>3. CASE w \notin Holders(e)
      <3>1. ~StillTried(e)'
        BY <1>2, <1>5, <2>3 DEF StillTried
      <3> QED
        BY <1>3, <2>1, <3>1, PaidStays DEF AllPaid
    <2> QED
      BY <2>2, <2>3
  <1> QED
    BY <1>4, <1>5

LEMMA HandBackPaid ==
    ASSUME QueueInv, QueueInv', AllPaid, NEW w \in Workers,
           HandBack(w) \/ \E status \in {"withdrawn", "FAILED"} : RenderEnds(w, status)
    PROVE  AllPaid'
  <1> DEFINE x == NextOf(batch[w].left)
  <1>1. x \in batch[w].left /\ batch[w].row = Nothing /\ batch[w] \in Batch
    BY NextIsHeld DEF HandBack, RenderEnds, Working, QueueInv, TypeOK
  <1>2. PICK r : SetRow(x, r)
    BY DEF HandBack, RenderEnds
  <1>3. batch' = [batch EXCEPT ![w] = Without(batch[w], x)] /\ batch \in [Workers -> Batch]
    BY DEF HandBack, RenderEnds, QueueInv, TypeOK
  <1>4. accepted' = accepted /\ unaccounted' = unaccounted
    BY DEF HandBack, RenderEnds, ghosts
  <1> HIDE DEF x
  <1>5. batch'[w].left = batch[w].left \ {x} /\ batch'[w].row = Nothing
    BY <1>1, <1>3, WithoutIs
  <1>6. w \in Holders(x)
    BY <1>1, HeldRowIs, NumbersAre DEF Holders
  <1> QED
    BY <1>1, <1>2, <1>3, <1>4, <1>5, <1>6, GivenUpPaid

LEMMA RecordPaid ==
    ASSUME QueueInv, QueueInv', AllPaid, NEW w \in Workers, Record(w)
    PROVE  AllPaid'
  <1> DEFINE b == batch[w]
             x == b.row
             done == AfterRecord(b)
             r == Written(rows[x], b, x)
  <1>1. x \in b.left /\ b \in Batch
    BY DEF Record, QueueInv, TypeOK, BatchFits
  <1>2. x \in Emails /\ rows[x] \in Row /\ b.tries[x] \in Nat
    BY <1>1, HeldRowIs
  <1>3. done \in Batch /\ done.left = b.left /\ done.row = Nothing
    BY <1>1, AfterRecordIs
  <1>4. batch' = [v \in Workers |->
                    IF v = w THEN Without(done, x)
                    ELSE IF AskedForAPause(b) /\ batch[v] # Idle
                    THEN [batch[v] EXCEPT !.behind = TRUE] ELSE batch[v]]
    BY DEF Record, AfterRecord
  <1>5. batch'[w].left = b.left \ {x} /\ batch'[w].row = Nothing
    <2> HIDE DEF done, x
    <2>1. x \in done.left
      BY <1>1, <1>3
    <2>2. Without(done, x).left = done.left \ {x} /\ Without(done, x).row = Nothing
      BY <1>3, <2>1, WithoutIs
    <2> QED
      BY <1>3, <1>4, <2>2
  <1>6. \A v \in Workers \ {w} : /\ batch'[v].left = batch[v].left /\ batch'[v].row = batch[v].row
                                 /\ batch'[v].result = batch[v].result
    <2>1. \A v \in Workers : batch[v] \in Batch
      BY DEF QueueInv, TypeOK
    <2>2. \A h \in Batch : /\ [h EXCEPT !.behind = TRUE].result = h.result
                           /\ [h EXCEPT !.behind = TRUE].left = h.left /\ [h EXCEPT !.behind = TRUE].row = h.row
      BY DEF Batch
    <2> HIDE DEF done, x
    <2> QED
      BY <1>4, <2>1, <2>2
  <1>7. SetRow(x, r) /\ accepted' = accepted /\ unaccounted' = unaccounted
    BY DEF Record
  <1>8. w \notin Holders(x) => r.status \notin {"absent", "PENDING", "FAILED"}
    <2> SUFFICES ASSUME w \notin Holders(x) PROVE r.status \notin {"absent", "PENDING", "FAILED"}
      OBVIOUS
    <2>1. b.result.outcome = "sent"
      BY <1>1 DEF Holders
    <2>2. CASE rows[x].status = "withdrawn"
      BY <2>2 DEF Written
    <2>3. CASE rows[x].status # "withdrawn"
      <3>1. r = [rows[x] EXCEPT !.status = "SENT", !.lease = 0, !.wait = 0, !.mark = "none",
                                !.fresh = PaceWindow, !.sent = TRUE, !.viaGmail = (b.result.by = "gmail")]
        BY <2>1, <2>3 DEF Written, Outcome
      <3> QED
        BY <1>2, <3>1 DEF Row
    <2> QED
      BY <2>2, <2>3
  <1> HIDE DEF done, r
  <1> QED
    BY <1>1, <1>5, <1>6, <1>7, <1>8, GivenUpPaid

LEMMA SendPaid ==
    ASSUME QueueInv, QueueInv', AllPaid, NEW w \in Workers, Send(w)
    PROVE  AllPaid'
  <1> DEFINE b == batch[w]
             x == NextOf(b.left)
  <1>1. PICK call \in Calls(b, x) :
          /\ batch' = [batch EXCEPT ![w] = [b EXCEPT !.row = x, !.result = call.result,
                                             !.gmailDown = b.gmailDown \/ call.gmail \in {"down", "lost"}]]
          /\ accepted' = accepted \cup AcceptedBy(b, x, call)
          /\ unaccounted' = [unaccounted EXCEPT ![x] = unaccounted[x] +
                               (IF "lost" \in {call.gmail, call.mailgun} THEN 1 ELSE 0)]
    BY DEF Send
  <1>2. rows' = rows /\ b.row = Nothing
    BY DEF Send, Working
  <1>3. x \in b.left /\ x \in Emails /\ b \in Batch
    BY NextIsHeld, HeldRowIs DEF Send, Working
  <1> HIDE DEF x
  <1>4. Took(call) => call.result.outcome = "sent" \/ "lost" \in {call.gmail, call.mailgun}
    BY <1>3, CallIs, RestStays
  <1>5. /\ batch'[w].left = b.left /\ batch'[w].row = x /\ batch'[w].result = call.result
        /\ \A v \in Workers \ {w} : batch'[v] = batch[v]
    <2>1. [b EXCEPT !.row = x, !.result = call.result,
                    !.gmailDown = b.gmailDown \/ call.gmail \in {"down", "lost"}].left = b.left
          /\ [b EXCEPT !.row = x, !.result = call.result,
                    !.gmailDown = b.gmailDown \/ call.gmail \in {"down", "lost"}].row = x
          /\ [b EXCEPT !.row = x, !.result = call.result,
                    !.gmailDown = b.gmailDown \/ call.gmail \in {"down", "lost"}].result = call.result
      BY <1>3 DEF Batch
    <2> QED
      BY <1>1, <2>1 DEF QueueInv, TypeOK
  <1> SUFFICES ASSUME NEW e \in Emails PROVE Paid(e)'
    BY DEF AllPaid
  <1>6. StillTried(e)' <=> StillTried(e)
    BY <1>2 DEF StillTried
  <1>7. CASE e # x
    <2>1. Holders(e)' \subseteq Holders(e)
      BY <1>2, <1>5, <1>7, NumbersAre DEF Holders
    <2>2. CopiesOf(e)' = CopiesOf(e)
      BY <1>1, <1>7 DEF CopiesOf, AcceptedBy
    <2>3. Cardinality(CopiesOf(e)') =< Cardinality(CopiesOf(e))
      BY <2>2, CountsAre
    <2>4. unaccounted'[e] = unaccounted[e]
      BY <1>1, <1>7 DEF QueueInv, TypeOK
    <2> QED
      BY <1>6, <2>1, <2>3, <2>4, PaidStays DEF AllPaid
  <1>8. CASE e = x
    <2>1. /\ IsFiniteSet(Holders(e)) /\ Cardinality(Holders(e)) \in Nat
          /\ IsFiniteSet(CopiesOf(e)) /\ Cardinality(CopiesOf(e)) \in Nat /\ unaccounted[e] \in Nat
      BY CountsAre
    <2>2. w \in Holders(e) /\ Holders(e)' \subseteq Holders(e)
      BY <1>2, <1>3, <1>5, <1>8, NumbersAre DEF Holders
    <2>3. Cardinality(Holders(e)') =< Cardinality(Holders(e)) /\ Cardinality(Holders(e)') \in Nat
      BY <2>1, <2>2, FS_Subset, FS_CardinalityType
    <2>4. unaccounted'[e] = unaccounted[e] + (IF "lost" \in {call.gmail, call.mailgun} THEN 1 ELSE 0)
      BY <1>1, <1>8 DEF QueueInv, TypeOK
    <2>5. CASE ~Took(call)
      <3>1. CopiesOf(e)' = CopiesOf(e)
        BY <1>1, <2>5 DEF CopiesOf, AcceptedBy
      <3> HIDE DEF Holders, CopiesOf, StillTried
      <3> QED
        BY <1>6, <2>1, <2>3, <2>4, <3>1 DEF AllPaid, Paid
    <2>6. CASE Took(call)
      <3>1. PICK a : AcceptedBy(b, x, call) = {a}
        BY <2>6 DEF AcceptedBy
      <3>2. CopiesOf(e)' \subseteq CopiesOf(e) \cup {a}
        BY <1>1, <3>1 DEF CopiesOf
      <3>3. /\ IsFiniteSet(CopiesOf(e) \cup {a})
            /\ Cardinality(CopiesOf(e) \cup {a}) =< Cardinality(CopiesOf(e)) + 1
        <4>1. Cardinality(CopiesOf(e) \cup {a}) =
                IF a \in CopiesOf(e) THEN Cardinality(CopiesOf(e)) ELSE Cardinality(CopiesOf(e)) + 1
          BY <2>1, FS_AddElement
        <4> QED
          BY <2>1, <4>1, FS_AddElement
      <3>4. /\ Cardinality(CopiesOf(e)') \in Nat
            /\ Cardinality(CopiesOf(e)') =< Cardinality(CopiesOf(e) \cup {a})
            /\ Cardinality(CopiesOf(e) \cup {a}) \in Nat
        BY <3>2, <3>3, FS_Subset, FS_CardinalityType
      <3>5. CASE "lost" \in {call.gmail, call.mailgun}
        <4>1. unaccounted'[e] = unaccounted[e] + 1
          BY <2>4, <3>5
        <4> HIDE DEF Holders, CopiesOf, StillTried
        <4> QED
          BY <1>6, <2>1, <2>3, <3>3, <3>4, <4>1 DEF AllPaid, Paid
      <3>6. CASE "lost" \notin {call.gmail, call.mailgun}
        <4>1. unaccounted'[e] = unaccounted[e]
          BY <2>1, <2>4, <3>6
        <4>2. Holders(e)' \subseteq Holders(e) \ {w}
          BY <1>4, <1>5, <1>8, <2>2, <2>6, <3>6 DEF Holders
        <4>3. /\ IsFiniteSet(Holders(e) \ {w})
              /\ Cardinality(Holders(e) \ {w}) = Cardinality(Holders(e)) - 1
          BY <2>1, <2>2, FS_RemoveElement
        <4>4. Cardinality(Holders(e)') =< Cardinality(Holders(e)) - 1
          BY <4>2, <4>3, FS_Subset
        <4> HIDE DEF Holders, CopiesOf, StillTried
        <4> QED
          BY <1>6, <2>1, <2>3, <3>3, <3>4, <4>1, <4>4 DEF AllPaid, Paid
      <3> QED
        BY <3>5, <3>6
    <2> QED
      BY <2>5, <2>6
  <1> QED
    BY <1>7, <1>8

LEMMA ClaimPaid ==
    ASSUME QueueInv, QueueInv', AllPaid, NEW w \in Workers, NEW wanted \in SUBSET Emails, NEW bulkRoom,
           Claim(w, wanted, bulkRoom)
    PROVE  AllPaid'
  <1> DEFINE mine == MailgunClaim(StopInForce, wanted, bulkRoom) \cup GmailClaim(StopInForce, wanted)
             bulkClaimed == {e \in mine : e \in setting.bulk /\ OnMailgunRoad(e)}
             off == IF wanted = Emails /\ bulkRoom < AllBulk /\ Cardinality(bulkClaimed) >= bulkRoom
                    THEN {e \in setting.bulk \ mine : /\ rows[e].status = "PENDING" /\ rows[e].wait = 0
                                                      /\ OnMailgunRoad(e)}
                    ELSE {}
             taken == [Idle EXCEPT !.left = mine,
                         !.tries = [e \in Emails |-> IF e \in mine THEN rows[e].attempts + 1 ELSE 0],
                         !.carrying = IF Carried(StopInForce) THEN StopInForce.kind ELSE "none",
                         !.until = IF Carried(StopInForce) THEN StopInForce.left ELSE 0]
  <1>1. /\ accepted' = accepted
        /\ batch' = [batch EXCEPT ![w] = IF mine = {} THEN Idle ELSE taken] /\ batch[w] = Idle
        /\ unaccounted' = [e \in Emails |-> IF e \in mine /\ rows[e].status = "PROCESSING"
                                            THEN unaccounted[e] + 1 ELSE unaccounted[e]]
        /\ rows' = [e \in Emails |-> IF e \in mine THEN ClaimRow(rows[e])
                                     ELSE IF e \in off THEN [rows[e] EXCEPT !.wait = AllowanceFor]
                                     ELSE rows[e]]
    BY DEF Claim
  <1>2. \A e \in mine : e \in Emails /\ rows[e].status \in {"PENDING", "PROCESSING"}
    BY ClaimsWhatIsDue DEF Due, Held
  <1>3. taken.left = mine
    BY IdleIs DEF Batch
  <1> HIDE DEF mine, off, taken
  <1>4. batch'[w].left = mine /\ \A v \in Workers \ {w} : batch'[v] = batch[v]
    BY <1>1, <1>3, IdleIs DEF QueueInv, TypeOK
  <1> SUFFICES ASSUME NEW e \in Emails PROVE Paid(e)'
    BY DEF AllPaid
  <1>5. rows[e] \in Row
    BY RowIs
  <1>6. CopiesOf(e)' = CopiesOf(e)
    BY <1>1 DEF CopiesOf
  <1>7. /\ IsFiniteSet(Holders(e)) /\ Cardinality(Holders(e)) \in Nat
        /\ IsFiniteSet(CopiesOf(e)) /\ Cardinality(CopiesOf(e)) \in Nat /\ unaccounted[e] \in Nat
    BY CountsAre
  <1>8. CASE e \notin mine
    <2>1. Holders(e)' \subseteq Holders(e)
      BY <1>4, <1>8 DEF Holders
    <2>2. rows'[e].status = rows[e].status
      BY <1>1, <1>5, <1>8 DEF Row
    <2>3. StillTried(e)' => StillTried(e)
      BY <2>2 DEF StillTried
    <2>4. unaccounted'[e] = unaccounted[e]
      BY <1>1, <1>8
    <2>5. Cardinality(CopiesOf(e)') =< Cardinality(CopiesOf(e))
      BY <1>6, <1>7
    <2> QED
      BY <2>1, <2>3, <2>4, <2>5, PaidStays DEF AllPaid
  <1>9. CASE e \in mine
    <2>1. Holders(e)' \subseteq Holders(e) \cup {w}
      BY <1>4 DEF Holders
    <2>2. /\ IsFiniteSet(Holders(e) \cup {w})
          /\ Cardinality(Holders(e) \cup {w}) =< Cardinality(Holders(e)) + 1
          /\ Cardinality(Holders(e) \cup {w}) \in Nat
      <3>1. /\ IsFiniteSet(Holders(e) \cup {w})
            /\ Cardinality(Holders(e) \cup {w}) =
                 IF w \in Holders(e) THEN Cardinality(Holders(e)) ELSE Cardinality(Holders(e)) + 1
        BY <1>7, FS_AddElement
      <3> QED
        BY <1>7, <3>1
    <2>3. /\ Cardinality(Holders(e)') =< Cardinality(Holders(e)) + 1 /\ Cardinality(Holders(e)') \in Nat
      <3>1. /\ Cardinality(Holders(e)') =< Cardinality(Holders(e) \cup {w}) /\ Cardinality(Holders(e)') \in Nat
        BY <2>1, <2>2, FS_Subset, FS_CardinalityType
      <3> QED
        BY <1>7, <2>2, <3>1
    <2>4. rows'[e].status = "PROCESSING"
      BY <1>1, <1>5, <1>9 DEF ClaimRow, Row
    <2>5. ~StillTried(e)'
      BY <2>4 DEF StillTried
    <2>6. CASE rows[e].status = "PENDING"
      <3>1. StillTried(e) /\ unaccounted'[e] = unaccounted[e]
        BY <1>1, <2>6 DEF StillTried
      <3> HIDE DEF Holders, CopiesOf, StillTried
      <3> QED
        BY <1>6, <1>7, <2>3, <2>5, <3>1 DEF AllPaid, Paid
    <2>7. CASE rows[e].status = "PROCESSING"
      <3>1. unaccounted'[e] = unaccounted[e] + 1
        BY <1>1, <1>9, <2>7
      <3> HIDE DEF Holders, CopiesOf, StillTried
      <3> QED
        BY <1>6, <1>7, <2>3, <2>5, <3>1 DEF AllPaid, Paid
    <2> QED
      BY <1>2, <1>9, <2>6, <2>7
  <1> QED
    BY <1>8, <1>9

LEMMA StepPaid == QueueInv /\ QueueInv' /\ AllPaid /\ [Next]_vars => AllPaid'
  <1> SUFFICES ASSUME QueueInv, QueueInv', AllPaid, [Next]_vars PROVE AllPaid'
    OBVIOUS
  <1>1. ASSUME NEW w \in Workers, Work(w) PROVE AllPaid'
    BY <1>1, HandBackPaid, SendPaid, RecordPaid DEF Work, Withdraw, RenderFails
  <1>2. ASSUME NEW w \in Workers, Crash(w) PROVE AllPaid'
    BY <1>2, CrashPaid
  <1>3. ASSUME NEW w \in Workers, NEW bulkRoom, ScheduledClaim(w, bulkRoom) PROVE AllPaid'
    BY <1>3, ClaimPaid DEF ScheduledClaim
  <1>4. ASSUME NEW w \in Workers, NEW e \in Emails, PressClaim(w, e) PROVE AllPaid'
    BY <1>4, ClaimPaid DEF PressClaim
  <1>5. CASE Tick
    BY <1>5, TickPaid
  <1>6. CASE UNCHANGED vars
    BY <1>6, QuietStepPaid DEF vars, StillTried
  <1> QED
    BY <1>1, <1>2, <1>3, <1>4, <1>5, <1>6, RowChangesPaid DEF Next

LEMMA PaidMeansFew == QueueInv /\ AllPaid => SentAgainOnlyForALostAnswer
  <1> SUFFICES ASSUME QueueInv, AllPaid, NEW e \in Emails PROVE Copies(e) =< 1 + unaccounted[e]
    BY DEF SentAgainOnlyForALostAnswer
  <1>1. /\ Cardinality(Holders(e)) \in Nat /\ Cardinality(CopiesOf(e)) \in Nat /\ unaccounted[e] \in Nat
    BY CountsAre
  <1>2. Copies(e) = Cardinality(CopiesOf(e))
    BY DEF Copies, CopiesOf
  <1>3. Paid(e)
    BY DEF AllPaid
  <1> HIDE DEF CopiesOf, Holders, StillTried
  <1> QED
    BY <1>1, <1>2, <1>3 DEF Paid

(* A provider takes an email once, and once more for each answer that was lost, each lease that ran
   out and each worker that died with it - with any number of workers, on both roads, through every
   pause, retry and press, also where runs outlive their lease. *)
THEOREM SentAgainOnlyForALostAnswerHolds == Spec => []SentAgainOnlyForALostAnswer
  <1>1. Spec => []AllPaid
    <2>1. Spec => [](QueueInv /\ AllPaid)
      BY InitFits, StepFits, InitPaid, StepPaid, PTL DEF Spec
    <2> QED
      BY <2>1, PTL
  <1> QED
    BY <1>1, Inductive, PaidMeansFew, PTL

-----------------------------------------------------------------------------
(* What a worker knows of the roads. *)

\* What is knocked at or sent by Mailgun is a row of its road, in a batch nobody carries.
LEMMA CallSays ==
    ASSUME setting \in Settings, NEW b, NEW e, NEW call \in Calls(b, e)
    PROVE  /\ call.result.stop # "none" => call.result.outcome # "ratePaused"
           /\ call.result.knocked => b.carrying = "none"
           /\ call.result.outcome = "sent" /\ call.result.by = "mailgun" => call.result.knocked
           /\ Took(call) /\ call.gmail \notin {"taken", "lost"} /\ call.mailgun # "lost"
                => call.result.outcome = "sent" /\ call.result.by = "mailgun"
  <1>1. setting.refusals \subseteq {"paused", "allowance"}
    BY SettingIs
  <1>2. /\ [OfGmail("full", "none") EXCEPT !.knocked = FALSE].stop = "none"
        /\ [OfGmail("full", "none") EXCEPT !.knocked = FALSE].outcome = "full"
        /\ [OfGmail("full", "none") EXCEPT !.knocked = FALSE].by = "gmail"
        /\ [OfGmail("full", "none") EXCEPT !.knocked = FALSE].knocked = FALSE
    BY DEF OfGmail
  <1>3. \A g \in {"taken", "lost", "later", "paced", "refused"}, m \in {"none", "paused", "allowance"} :
          /\ OfGmail(g, m).by = "gmail" /\ OfGmail(g, m).outcome # "ratePaused"
          /\ OfGmail(g, m).knocked <=> m # "none"
    BY DEF OfGmail
  <1>4. \A m : OfMailgun(m).stop = "none" /\ OfMailgun(m).by = "mailgun" /\ OfMailgun(m).knocked
    BY DEF OfMailgun
  <1>5. OfMailgun("taken").outcome = "sent"
    BY DEF OfMailgun
  <1>6. Road(b, e) \in {"gmail", "mailgun"} => b.carrying = "none"
    BY DEF Road
  <1> DEFINE full == [OfGmail("full", "none") EXCEPT !.knocked = FALSE]
  <1> HIDE DEF full
  <1>7. CASE /\ Road(b, e) \in {"gmailOnly", "gmail"} /\ call.mailgun = "unasked" /\ call.gmail \in GmailAnswers
             /\ call.result = IF call.gmail \in {"full", "down"} THEN full ELSE OfGmail(call.gmail, "none")
    BY <1>2, <1>3, <1>7 DEF Took, GmailAnswers, full
  <1>8. CASE /\ Road(b, e) = "gmail" /\ call.gmail \in {"full", "down"} /\ call.mailgun \in MailgunAnswers
             /\ call.result = OfMailgun(call.mailgun)
    BY <1>4, <1>5, <1>6, <1>8 DEF Took
  <1>9. CASE /\ Road(b, e) = "mailgun" /\ call.gmail = "unasked" /\ call.mailgun \in MailgunAnswers
             /\ call.result = OfMailgun(call.mailgun)
    BY <1>4, <1>5, <1>6, <1>9 DEF Took
  <1>10. CASE /\ Road(b, e) = "mailgun" /\ call.gmail \in GmailAnswers /\ call.mailgun \in setting.refusals
              /\ call.result = IF call.gmail \in {"full", "down"} THEN OfMailgun(call.mailgun)
                                ELSE OfGmail(call.gmail, call.mailgun)
    <2>1. CASE call.gmail \in {"full", "down"}
      BY <1>1, <1>4, <1>6, <1>10, <2>1 DEF Took
    <2>2. CASE call.gmail \notin {"full", "down"}
      BY <1>1, <1>3, <1>6, <1>10, <2>2 DEF Took, GmailAnswers
    <2> QED
      BY <2>1, <2>2
  <1> QED
    BY <1>7, <1>8, <1>9, <1>10, CallShapes DEF full

\* A worker carries what Mailgun stopped only with the switch on; an answer that brings a stop of
\* its own is not the pause itself; and Mailgun sends nothing for a batch that is carried.
KnowsItsRoad(b) ==
  /\ b.carrying # "none" => setting.fallback
  /\ b.result.stop # "none" => b.result.outcome # "ratePaused"
  /\ b.row # Nothing /\ b.result.outcome = "sent" /\ b.result.by = "mailgun" => b.carrying = "none"

RoadsKnown == \A w \in Workers : KnowsItsRoad(batch[w])

LEMMA IdleKnows == KnowsItsRoad(Idle)
  BY IdleIs DEF KnowsItsRoad, NoResult

LEMMA WithoutKnows ==
    ASSUME NEW b \in Batch, NEW e, KnowsItsRoad(b)
    PROVE  KnowsItsRoad(Without(b, e))
  <1>1. CASE b.left = {e}
    BY <1>1, IdleKnows DEF Without
  <1>2. CASE b.left # {e}
    <2> DEFINE c == [b EXCEPT !.left = b.left \ {e}, !.tries = [b.tries EXCEPT ![e] = 0]]
    <2>1. Without(b, e) = c
      BY <1>2 DEF Without
    <2>2. c.carrying = b.carrying /\ c.result = b.result /\ c.row = b.row
      BY DEF Batch
    <2> HIDE DEF c
    <2> QED
      BY <2>1, <2>2 DEF KnowsItsRoad
  <1> QED
    BY <1>1, <1>2

\* After an outcome nothing is in hand, and what is carried is carried with the switch on.
LEMMA AfterRecordKnows ==
    ASSUME NEW b \in Batch, KnowsItsRoad(b)
    PROVE  KnowsItsRoad(AfterRecord(b))
  <1> DEFINE h == Heard(b, Announced(b))
             kept == h.kept \/ Relabels(b)
             behind == h.behind /\ ~AskedForAPause(b)
             c == [h EXCEPT !.row = Nothing, !.result = NoResult, !.kept = kept, !.behind = behind]
  <1>1. h \in Batch /\ (h.carrying # "none" => setting.fallback)
    <2>1. h \in Batch
      BY AfterRecordIs, HeardIs
    <2>2. h.carrying # b.carrying => setting.fallback
      BY DEF Heard, Batch
    <2> QED
      BY <2>1, <2>2 DEF KnowsItsRoad
  <1>2. AfterRecord(b) = c
    BY DEF AfterRecord
  <1> HIDE DEF h, kept, behind
  <1>3. c.row = Nothing /\ c.result = NoResult /\ c.carrying = h.carrying
    BY <1>1 DEF Batch
  <1> HIDE DEF c
  <1> QED
    BY <1>1, <1>2, <1>3 DEF KnowsItsRoad, NoResult

-----------------------------------------------------------------------------
(* What each step does to the batches. *)

LEMMA ClaimTakes ==
    ASSUME QueueInv, NEW w \in Workers, NEW wanted \in SUBSET Emails, NEW bulkRoom,
           Claim(w, wanted, bulkRoom)
    PROVE  LET stop == StopInForce
               mine == MailgunClaim(stop, wanted, bulkRoom) \cup GmailClaim(stop, wanted)
           IN /\ batch'[w].left = mine
              /\ batch'[w].carrying = IF mine # {} /\ Carried(stop) THEN stop.kind ELSE "none"
              /\ batch'[w].pause = Nothing /\ batch'[w].row = Nothing /\ batch'[w].result = NoResult
              /\ \A v \in Workers \ {w} : batch'[v] = batch[v]
              /\ told' = told /\ stopRecord' = stopRecord /\ setting' = setting /\ accepted' = accepted
  <1> DEFINE stop == StopInForce
             mine == MailgunClaim(stop, wanted, bulkRoom) \cup GmailClaim(stop, wanted)
             tries == [e \in Emails |-> IF e \in mine THEN rows[e].attempts + 1 ELSE 0]
             kind == IF Carried(stop) THEN stop.kind ELSE "none"
             until == IF Carried(stop) THEN stop.left ELSE 0
             taken == [Idle EXCEPT !.left = mine, !.tries = tries, !.carrying = kind, !.until = until]
  <1>1. /\ batch' = [batch EXCEPT ![w] = IF mine = {} THEN Idle ELSE taken]
        /\ told' = told /\ stopRecord' = stopRecord /\ setting' = setting /\ accepted' = accepted
    BY DEF Claim
  <1> HIDE DEF stop, mine, tries, kind, until
  <1>2. /\ taken.left = mine /\ taken.carrying = kind /\ taken.pause = Nothing
        /\ taken.row = Nothing /\ taken.result = NoResult
    BY DEF Idle
  <1> HIDE DEF taken
  <1>3. batch \in [Workers -> Batch]
    BY DEF QueueInv, TypeOK
  <1>4. CASE mine = {}
    <2>1. batch'[w] = Idle /\ \A v \in Workers \ {w} : batch'[v] = batch[v]
      BY <1>1, <1>3, <1>4
    <2> QED
      BY <1>1, <1>4, <2>1, IdleIs DEF mine, stop
  <1>5. CASE mine # {}
    <2>1. batch'[w] = taken /\ \A v \in Workers \ {w} : batch'[v] = batch[v]
      BY <1>1, <1>3, <1>5
    <2> QED
      BY <1>1, <1>2, <1>5, <2>1 DEF mine, stop, kind
  <1> QED
    BY <1>4, <1>5

LEMMA SendAsks ==
    ASSUME QueueInv, NEW w \in Workers, Send(w)
    PROVE  \E e \in batch[w].left : \E call \in Calls(batch[w], e) :
             /\ ~Waits(batch[w], e) /\ batch[w].row = Nothing
             /\ batch'[w].left = batch[w].left /\ batch'[w].carrying = batch[w].carrying
             /\ batch'[w].pause = batch[w].pause /\ batch'[w].behind = batch[w].behind
             /\ batch'[w].row = e /\ batch'[w].result = call.result
             /\ \A v \in Workers \ {w} : batch'[v] = batch[v]
             /\ accepted' = accepted \cup AcceptedBy(batch[w], e, call)
             /\ rows' = rows /\ told' = told /\ stopRecord' = stopRecord /\ setting' = setting
  <1> DEFINE b == batch[w]
             e == NextOf(b.left)
  <1>1. PICK call \in Calls(b, e) :
          /\ batch' = [batch EXCEPT ![w] = [b EXCEPT !.row = e, !.result = call.result,
                                             !.gmailDown = b.gmailDown \/ call.gmail \in {"down", "lost"}]]
          /\ accepted' = accepted \cup AcceptedBy(b, e, call)
          /\ rows' = rows /\ told' = told /\ stopRecord' = stopRecord /\ setting' = setting
    BY DEF Send
  <1>2. e \in b.left /\ ~Waits(b, e) /\ b.row = Nothing
    BY NextIsHeld DEF Send, Working
  <1>3. batch \in [Workers -> Batch] /\ b \in Batch
    BY DEF QueueInv, TypeOK
  <1> HIDE DEF e
  <1> DEFINE down == b.gmailDown \/ call.gmail \in {"down", "lost"}
             c == [b EXCEPT !.row = e, !.result = call.result, !.gmailDown = down]
  <1>4. c.left = b.left /\ c.carrying = b.carrying /\ c.pause = b.pause /\ c.behind = b.behind
        /\ c.row = e /\ c.result = call.result
    BY <1>3 DEF Batch
  <1>5. batch'[w] = c /\ \A v \in Workers \ {w} : batch'[v] = batch[v]
    BY <1>1, <1>3
  <1> HIDE DEF c
  <1> QED
    BY <1>1, <1>2, <1>4, <1>5

LEMMA RecordEnds ==
    ASSUME QueueInv, NEW w \in Workers, Record(w)
    PROVE  LET b == batch[w] IN
           /\ b \in Batch /\ b.row \in b.left
           /\ batch'[w] = Without(AfterRecord(b), b.row)
           /\ \A v \in Workers \ {w} :
                batch'[v] = IF AskedForAPause(b) /\ batch[v] # Idle
                            THEN [batch[v] EXCEPT !.behind = TRUE] ELSE batch[v]
  BY DEF Record, AfterRecord, QueueInv, TypeOK, BatchFits

LEMMA AllBulkIs == setting \in Settings => AllBulk \in Nat
  <1> SUFFICES ASSUME setting \in Settings PROVE AllBulk \in Nat
    OBVIOUS
  <1>1. IsFiniteSet(setting.bulk)
    BY NumbersAre, SettingIs, FS_Subset
  <1> QED
    BY <1>1, FS_CardinalityType DEF AllBulk

LEMMA LetsGo ==
    ASSUME QueueInv, NEW w \in Workers,
           HandBack(w) \/ \E status \in {"withdrawn", "FAILED"} : RenderEnds(w, status)
    PROVE  \E e \in batch[w].left :
             /\ batch'[w] = Without(batch[w], e) /\ batch[w].row = Nothing
             /\ \A v \in Workers \ {w} : batch'[v] = batch[v]
             /\ told' = told /\ stopRecord' = stopRecord /\ setting' = setting /\ accepted' = accepted
  <1> DEFINE e == NextOf(batch[w].left)
  <1>1. e \in batch[w].left /\ batch[w].row = Nothing
    BY NextIsHeld DEF HandBack, RenderEnds, Working
  <1>2. batch' = [batch EXCEPT ![w] = Without(batch[w], e)] /\ batch \in [Workers -> Batch]
    BY DEF HandBack, RenderEnds, QueueInv, TypeOK
  <1>3. told' = told /\ stopRecord' = stopRecord /\ setting' = setting /\ accepted' = accepted
    BY DEF HandBack, RenderEnds, ghosts
  <1> HIDE DEF e
  <1> QED
    BY <1>1, <1>2, <1>3

LEMMA CrashForgets ==
    ASSUME QueueInv, NEW w \in Workers, Crash(w)
    PROVE  /\ batch'[w] = Idle /\ \A v \in Workers \ {w} : batch'[v] = batch[v]
           /\ told' = told /\ stopRecord' = stopRecord /\ setting' = setting
  BY DEF Crash, QueueInv, TypeOK

LEMMA TickPasses ==
    ASSUME QueueInv, Tick
    PROVE  \A w \in Workers :
             /\ batch'[w].left = batch[w].left /\ batch'[w].carrying = batch[w].carrying
             /\ batch'[w].behind = batch[w].behind /\ batch'[w].pause = Less(batch[w].pause)
             /\ batch'[w].row = batch[w].row /\ batch'[w].result = batch[w].result
  <1> TAKE w \in Workers
  <1> DEFINE p == Less(batch[w].pause)
             u == Less(batch[w].until)
  <1>1. batch'[w] = [batch[w] EXCEPT !.pause = p, !.until = u] /\ batch[w] \in Batch
    BY DEF Tick, QueueInv, TypeOK
  <1> HIDE DEF p, u
  <1>2. /\ batch'[w].left = batch[w].left /\ batch'[w].carrying = batch[w].carrying
        /\ batch'[w].behind = batch[w].behind /\ batch'[w].pause = p
        /\ batch'[w].row = batch[w].row /\ batch'[w].result = batch[w].result
    BY <1>1 DEF Batch
  <1> QED
    BY <1>2 DEF p

\* The steps after which every worker knows what it knew.
LEMMA BatchesAreLeft ==
    ASSUME QueueInv, [Next]_vars,
           ~(\E w \in Workers : Work(w) \/ Crash(w)), ~Tick,
           ~(\E w \in Workers : \E wanted \in SUBSET Emails : \E bulkRoom \in 0..AllBulk : Claim(w, wanted, bulkRoom))
    PROVE  /\ batch' = batch /\ told' = told /\ stopRecord' = stopRecord /\ setting' = setting
           /\ accepted' = accepted
  <1>1. CASE \E e \in Emails : Enqueue(e) \/ ReplaceRow(e)
    BY <1>1 DEF Enqueue, ReplaceRow, ghosts
  <1>2. CASE RetryFailed
    BY <1>2 DEF RetryFailed, ghosts
  <1>3. CASE \E e \in Emails, v \in {"BOUNCED", "COMPLAINED"} : MailgunSays(e, v)
    BY <1>3 DEF MailgunSays, ghosts
  <1>4. CASE UNCHANGED vars
    BY <1>4 DEF vars, ghosts
  <1>5. \A w \in Workers, bulkRoom \in 0..AllBulk : ~ScheduledClaim(w, bulkRoom)
    BY DEF ScheduledClaim
  <1>6. \A w \in Workers, e \in Emails : ~PressClaim(w, e)
    <2>1. AllBulk \in 0..AllBulk
      BY AllBulkIs, RestStays
    <2> QED
      BY <2>1 DEF PressClaim
  <1> QED
    BY <1>1, <1>2, <1>3, <1>4, <1>5, <1>6 DEF Next

\* A worker's step, by what it does.
LEMMA WorkIs ==
    ASSUME NEW w \in Workers, Work(w)
    PROVE  \/ HandBack(w) \/ \E status \in {"withdrawn", "FAILED"} : RenderEnds(w, status)
           \/ Send(w)
           \/ Record(w)
  BY DEF Work, Withdraw, RenderFails

LEMMA SettingStays == QueueInv /\ [Next]_vars => setting' = setting
  BY DEF Next, Enqueue, ReplaceRow, RetryFailed, ScheduledClaim, PressClaim, Claim, Work, HandBack,
         Withdraw, RenderFails, RenderEnds, Send, Record, Crash, MailgunSays, Tick, vars

LEMMA StepKnows == QueueInv /\ RoadsKnown /\ [Next]_vars => RoadsKnown'
  <1> SUFFICES ASSUME QueueInv, RoadsKnown, [Next]_vars PROVE RoadsKnown'
    OBVIOUS
  <1>0. setting' = setting
    BY SettingStays
  <1>1. \A w \in Workers : batch[w] \in Batch /\ KnowsItsRoad(batch[w])
    BY DEF QueueInv, TypeOK, RoadsKnown
  \* It is enough to look at every batch by itself: what it must know depends on the setting alone.
  <1>2. SUFFICES \A v \in Workers : KnowsItsRoad(batch'[v])
    BY <1>0 DEF RoadsKnown, KnowsItsRoad
  <1>3. ASSUME NEW w \in Workers, KnowsItsRoad(batch'[w]), \A v \in Workers \ {w} : batch'[v] = batch[v]
        PROVE  \A v \in Workers : KnowsItsRoad(batch'[v])
    BY <1>1, <1>3
  <1>4. ASSUME NEW w \in Workers, HandBack(w) \/ \E status \in {"withdrawn", "FAILED"} : RenderEnds(w, status)
        PROVE  \A v \in Workers : KnowsItsRoad(batch'[v])
    <2>1. KnowsItsRoad(batch'[w]) /\ \A v \in Workers \ {w} : batch'[v] = batch[v]
      BY <1>1, <1>4, LetsGo, WithoutKnows
    <2> QED
      BY <1>3, <2>1
  <1>5. ASSUME NEW w \in Workers, Send(w)
        PROVE  \A v \in Workers : KnowsItsRoad(batch'[v])
    <2>1. PICK e \in batch[w].left : \E call \in Calls(batch[w], e) :
             /\ batch'[w].carrying = batch[w].carrying /\ batch'[w].result = call.result
             /\ \A v \in Workers \ {w} : batch'[v] = batch[v]
      BY <1>5, SendAsks
    <2>2. PICK call \in Calls(batch[w], e) :
             /\ batch'[w].carrying = batch[w].carrying /\ batch'[w].result = call.result
             /\ \A v \in Workers \ {w} : batch'[v] = batch[v]
      BY <2>1
    <2>3. KnowsItsRoad(batch'[w])
      BY <1>1, <2>2, CallSays, RestStays DEF KnowsItsRoad
    <2> QED
      BY <1>3, <2>2, <2>3
  <1>6. ASSUME NEW w \in Workers, Record(w)
        PROVE  \A v \in Workers : KnowsItsRoad(batch'[v])
    <2>1. KnowsItsRoad(batch'[w])
      <3>1. AfterRecord(batch[w]) \in Batch /\ KnowsItsRoad(AfterRecord(batch[w]))
        BY <1>1, AfterRecordIs, AfterRecordKnows
      <3> QED
        BY <1>6, <3>1, RecordEnds, WithoutKnows
    <2>2. ASSUME NEW v \in Workers \ {w} PROVE KnowsItsRoad(batch'[v])
      <3>1. batch'[v] = batch[v] \/ batch'[v] = [batch[v] EXCEPT !.behind = TRUE]
        BY <1>6, RecordEnds
      <3>2. \A b \in Batch : /\ [b EXCEPT !.behind = TRUE].carrying = b.carrying
                             /\ [b EXCEPT !.behind = TRUE].result = b.result
                             /\ [b EXCEPT !.behind = TRUE].row = b.row
        BY DEF Batch
      <3> DEFINE c == [batch[v] EXCEPT !.behind = TRUE]
      <3>3. c.carrying = batch[v].carrying /\ c.result = batch[v].result /\ c.row = batch[v].row
        BY <1>1, <3>2
      <3> HIDE DEF c
      <3>4. KnowsItsRoad(c)
        BY <1>1, <3>3 DEF KnowsItsRoad
      <3> QED
        BY <1>1, <3>1, <3>4 DEF c
    <2> QED
      BY <2>1, <2>2
  <1>7. ASSUME NEW w \in Workers, Crash(w)
        PROVE  \A v \in Workers : KnowsItsRoad(batch'[v])
    BY <1>3, <1>7, CrashForgets, IdleKnows
  <1>8. ASSUME NEW w \in Workers, NEW wanted \in SUBSET Emails, NEW bulkRoom, Claim(w, wanted, bulkRoom)
        PROVE  \A v \in Workers : KnowsItsRoad(batch'[v])
    <2>1. /\ batch'[w].row = Nothing /\ batch'[w].result = NoResult
          /\ batch'[w].carrying # "none" => Carried(StopInForce)
          /\ \A v \in Workers \ {w} : batch'[v] = batch[v]
      BY <1>8, ClaimTakes
    <2>2. KnowsItsRoad(batch'[w])
      BY <2>1 DEF KnowsItsRoad, NoResult, Carried
    <2> QED
      BY <1>3, <2>1, <2>2
  <1>9. CASE Tick
    BY <1>1, <1>9, TickPasses DEF KnowsItsRoad
  <1>10. CASE batch' = batch
    BY <1>1, <1>10
  <1> QED
    BY <1>4, <1>5, <1>6, <1>7, <1>8, <1>9, <1>10, WorkIs, BatchesAreLeft

LEMMA RoadsAreKnown == Spec => []RoadsKnown
  <1>1. Init => RoadsKnown
    BY IdleKnows DEF Init, RoadsKnown
  <1> QED
    BY <1>1, StepKnows, Inductive, PTL DEF Spec

-----------------------------------------------------------------------------
(* A pause. *)

\* The record remembers a pause, or an allowance that ends no sooner.
Remembered == told > 0 => stopRecord.kind # "none" /\ told =< stopRecord.left

\* A batch claimed since asks Mailgun for nothing that a pause holds back.
Keeps(b) ==
  \/ b.left = {} \/ b.behind
  \/ b.carrying # "none" \/ b.pause # Nothing
  \/ AllowanceTookItsPlace
  \/ b.left \subseteq setting.gmail

PauseKept == told > 0 => \A w \in Workers : Keeps(batch[w])

\* A later batch of the same worker that has learnt no less.
NoLess(b, c) ==
  \/ c.left = {}
  \/ /\ c.left \subseteq b.left /\ (b.behind => c.behind)
     /\ (b.carrying # "none" => c.carrying # "none") /\ (b.pause # Nothing => c.pause # Nothing)

LEMMA RememberedIs ==
    ASSUME QueueInv, Remembered, told > 0
    PROVE  /\ stopRecord.kind \in {"paused", "allowance"}
           /\ StopLeft(stopRecord.kind) > 0
           /\ stopRecord.kind = "paused" => StopInForce.kind = "paused"
           /\ StopInForce.kind \in {"paused", "allowance"}
  <1>1. stopRecord.kind \in {"paused", "allowance"} /\ stopRecord.left \in Nat /\ stopRecord.left > 0
    <2>1. stopRecord \in Recordeds /\ told \in Nat /\ AllowanceFor \in Nat
      BY RestStays, NumbersAre
    <2> QED
      BY <2>1 DEF Remembered, Recordeds, Kinds
  <1>2. StopLeft(stopRecord.kind) > 0
    <2>1. stopRecord.left =< StopLeft(stopRecord.kind) /\ StopLeft(stopRecord.kind) \in 0..AllowanceFor
      BY <1>1, StopLeftIs
    <2> QED
      BY <1>1, <2>1, NumbersAre
  <1>3. stopRecord.kind = "paused" => StopInForce.kind = "paused"
    BY <1>2 DEF StopInForce
  <1>4. StopInForce.kind \in {"paused", "allowance"}
    BY <1>1, <1>2 DEF StopInForce
  <1> QED
    BY <1>1, <1>2, <1>3, <1>4

LEMMA LesserIs ==
    ASSUME NEW m \in Nat, NEW n \in Nat
    PROVE  Min({m, n}) \in Nat /\ Min({m, n}) =< m
  <1>0. m \in Int /\ n \in Int
    OBVIOUS
  <1>1. IsFiniteSet({m, n}) /\ {m, n} \in SUBSET Int /\ {m, n} # {}
    BY <1>0, PairIsFinite
  <1>2. Min({m, n}) \in {m, n} /\ \A x \in {m, n} : Min({m, n}) =< x
    BY <1>1, LeastIsOne
  <1> QED
    BY <1>2

LEMMA UnionIsSmall ==
    ASSUME NEW A, NEW B, IsFiniteSet(A), IsFiniteSet(B)
    PROVE  /\ IsFiniteSet(A \cup B) /\ Cardinality(A \cup B) \in Nat
           /\ Cardinality(A \cup B) =< Cardinality(A) + Cardinality(B)
  <1>1. IsFiniteSet(A \cup B) /\ Cardinality(A \cup B) = Cardinality(A) + Cardinality(B) - Cardinality(A \cap B)
    BY FS_Union
  <1>2. IsFiniteSet(A \cap B)
    <2>1. A \cap B \in SUBSET A
      OBVIOUS
    <2> QED
      BY <2>1, FS_Subset
  <1>3. Cardinality(A) \in Nat /\ Cardinality(B) \in Nat /\ Cardinality(A \cap B) \in Nat
    BY <1>2, FS_CardinalityType
  <1> QED
    BY <1>1, <1>3, FS_CardinalityType

\* As many of a set as there is room for: each by the number of those before it.
LEMMA FewOfThem ==
    ASSUME NEW S \in SUBSET Emails, NEW room \in Nat
    PROVE  IsFiniteSet(Oldest(S, room)) /\ Cardinality(Oldest(S, room)) =< room
  <1> DEFINE before(e) == {x \in S : x < e}
             first == Oldest(S, room)
             rank == [e \in first |-> Cardinality(before(e))]
  <1>1. IsFiniteSet(S) /\ S \subseteq Nat
    BY NumbersAre, FS_Subset
  <1>2. \A e \in S : IsFiniteSet(before(e)) /\ Cardinality(before(e)) \in Nat
    <2> TAKE e \in S
    <2>1. before(e) \in SUBSET S
      OBVIOUS
    <2> QED
      BY <1>1, <2>1, FS_Subset, FS_CardinalityType
  <1>3. first = {e \in S : Cardinality(before(e)) < room}
    BY DEF Oldest
  <1>4. ASSUME NEW d \in S, NEW e \in S, d < e
        PROVE  Cardinality(before(d)) < Cardinality(before(e))
    <2>0. \A x \in S : x \in Nat
      BY <1>1
    <2>1. before(d) \in SUBSET before(e) /\ d \in before(e) /\ d \notin before(d)
      <3>1. ASSUME NEW x \in S, x < d PROVE x < e
        BY <1>4, <2>0, <3>1
      <3>2. ~(d < d)
        BY <2>0
      <3> QED
        BY <1>4, <3>1, <3>2
    <2>2. before(d) # before(e)
      BY <2>1
    <2> HIDE DEF before
    <2> QED
      BY <1>2, <2>1, <2>2, FS_Subset
  <1> HIDE DEF before
  <1>5. rank \in [first -> 0..(room - 1)]
    <2>1. ASSUME NEW e \in first PROVE Cardinality(before(e)) \in 0..(room - 1)
      <3>1. e \in S /\ Cardinality(before(e)) < room
        BY <1>3
      <3> QED
        BY <1>2, <3>1
    <2> HIDE DEF first
    <2> QED
      BY <2>1
  <1>6. ASSUME NEW d \in first, NEW e \in first, rank[d] = rank[e]
        PROVE  d = e
    <2>1. d \in S /\ e \in S /\ Cardinality(before(d)) = Cardinality(before(e))
      BY <1>3, <1>6
    <2>2. d \in Nat /\ e \in Nat
      BY <1>1, <2>1
    <2> QED
      BY <1>2, <1>4, <2>1, <2>2
  <1> HIDE DEF first
  <1>7. rank \in Injection(first, 0..(room - 1))
    BY <1>5, <1>6 DEF Injection, IsInjective
  <1>8. IsFiniteSet(0..(room - 1)) /\ Cardinality(0..(room - 1)) = room
    BY FS_Interval
  <1> HIDE DEF rank
  <1>9. IsFiniteSet(first) /\ Cardinality(first) =< room
    BY <1>7, <1>8, FS_Injection
  <1> QED
    BY <1>9 DEF first

\* A road's claim is within its room, the bulk of it included.
LEMMA RoadClaimFits ==
    ASSUME setting \in Settings, NEW S \in SUBSET Emails, NEW room \in Nat, NEW bulkRoom \in Nat
    PROVE  IsFiniteSet(RoadClaim(S, room, bulkRoom)) /\ Cardinality(RoadClaim(S, room, bulkRoom)) =< room
  <1> DEFINE first == Oldest(S \ setting.bulk, room)
             left == room - Cardinality(first)
             rest == Min({left, bulkRoom})
             bulk == Oldest(S \cap setting.bulk, rest)
  <1>1. IsFiniteSet(first) /\ Cardinality(first) =< room /\ Cardinality(first) \in Nat
    <2>1. S \ setting.bulk \in SUBSET Emails
      OBVIOUS
    <2>2. IsFiniteSet(first) /\ Cardinality(first) =< room
      BY <2>1, FewOfThem
    <2> HIDE DEF first
    <2> QED
      BY <2>2, FS_CardinalityType
  <1> HIDE DEF first
  <1>2. left \in Nat /\ room - left = Cardinality(first)
    BY <1>1
  <1>3. rest \in Nat /\ rest =< left
    BY <1>2, LesserIs
  <1> HIDE DEF left, rest
  <1>4. IsFiniteSet(bulk) /\ Cardinality(bulk) =< rest /\ Cardinality(bulk) \in Nat
    <2>1. S \cap setting.bulk \in SUBSET Emails
      OBVIOUS
    <2>2. IsFiniteSet(bulk) /\ Cardinality(bulk) =< rest
      BY <1>3, <2>1, FewOfThem
    <2> HIDE DEF bulk
    <2> QED
      BY <2>2, FS_CardinalityType
  <1>5. RoadClaim(S, room, bulkRoom) = first \cup bulk
    BY DEF RoadClaim, first, left, rest
  <1> HIDE DEF bulk
  <1>6. IsFiniteSet(first \cup bulk) /\ Cardinality(first \cup bulk) \in Nat
    BY <1>1, <1>4, FS_Union, FS_CardinalityType
  <1>7. Cardinality(first \cup bulk) =< Cardinality(first) + Cardinality(bulk)
    BY <1>1, <1>4, UnionIsSmall
  <1> QED
    BY <1>1, <1>2, <1>3, <1>4, <1>5, <1>6, <1>7

\* Under a stop that closes Mailgun's road nothing of it is claimed.
LEMMA ClosedRoad ==
    ASSUME QueueInv, NEW stop, NEW wanted \in SUBSET Emails, NEW bulkRoom \in Nat,
           Carried(stop) \/ stop.kind = "paused"
    PROVE  MailgunClaim(stop, wanted, bulkRoom) = {}
  <1> DEFINE due == {e \in wanted : Due(e) /\ OnMailgunRoad(e)}
  <1>1. MailgunClaim(stop, wanted, bulkRoom) = RoadClaim(due, 0, bulkRoom)
    BY DEF MailgunClaim
  <1>2. due \in SUBSET Emails /\ setting \in Settings
    BY RestStays
  <1> HIDE DEF due
  <1>3. IsFiniteSet(RoadClaim(due, 0, bulkRoom)) /\ Cardinality(RoadClaim(due, 0, bulkRoom)) =< 0
    BY <1>2, RoadClaimFits
  <1>4. Cardinality(RoadClaim(due, 0, bulkRoom)) = 0
    BY <1>3, FS_CardinalityType
  <1> QED
    BY <1>1, <1>3, <1>4, FS_EmptySet

LEMMA GmailsOwn ==
    ASSUME NEW stop, NEW wanted, ~Carried(stop)
    PROVE  GmailClaim(stop, wanted) \subseteq setting.gmail
  <1>1. GmailClaim(stop, wanted) \subseteq {e \in wanted : Due(e) /\ OnGmailRoad(e)}
    BY RoadClaimIsOf DEF GmailClaim
  <1> QED
    BY <1>1 DEF OnGmailRoad

\* A batch claimed during a pause: it is carried, or it is Gmail's own, or the record is an allowance's.
LEMMA ClaimedDuringAPause ==
    ASSUME QueueInv, Remembered, told > 0, NEW w \in Workers, NEW wanted \in SUBSET Emails,
           NEW bulkRoom \in Nat, Claim(w, wanted, bulkRoom)
    PROVE  Keeps(batch'[w])
  <1> DEFINE stop == StopInForce
             mine == MailgunClaim(stop, wanted, bulkRoom) \cup GmailClaim(stop, wanted)
  <1>1. /\ stopRecord.kind \in {"paused", "allowance"} /\ stop.kind \in {"paused", "allowance"}
        /\ stopRecord.kind = "paused" => stop.kind = "paused"
    BY RememberedIs
  <1>2. /\ batch'[w].left = mine
        /\ batch'[w].carrying = IF mine # {} /\ Carried(stop) THEN stop.kind ELSE "none"
    BY ClaimTakes
  <1> HIDE DEF stop
  <1>3. CASE setting.fallback
    <2>1. Carried(stop)
      BY <1>1, <1>3 DEF Carried
    <2> HIDE DEF mine
    <2> QED
      BY <1>1, <1>2, <2>1 DEF Keeps
  <1>4. CASE ~setting.fallback /\ stopRecord.kind = "allowance"
    BY <1>4 DEF Keeps, AllowanceTookItsPlace
  <1>5. CASE ~setting.fallback /\ stopRecord.kind = "paused"
    <2>1. MailgunClaim(stop, wanted, bulkRoom) = {}
      BY <1>1, <1>5, ClosedRoad
    <2>2. GmailClaim(stop, wanted) \subseteq setting.gmail
      BY <1>5, GmailsOwn DEF Carried
    <2> QED
      BY <1>2, <2>1, <2>2 DEF Keeps
  <1> QED
    BY <1>1, <1>3, <1>4, <1>5

\* Batches that learnt no less still keep the pause.
LEMMA StillKept ==
    ASSUME PauseKept, setting' = setting, told' > 0 => told > 0,
           told' > 0 /\ AllowanceTookItsPlace => AllowanceTookItsPlace',
           \A w \in Workers : NoLess(batch[w], batch'[w])
    PROVE  PauseKept'
  <1> SUFFICES ASSUME told' > 0, NEW w \in Workers PROVE Keeps(batch[w])'
    BY DEF PauseKept
  <1>1. Keeps(batch[w]) /\ NoLess(batch[w], batch'[w])
    BY DEF PauseKept
  <1>2. AllowanceTookItsPlace => AllowanceTookItsPlace'
    OBVIOUS
  <1> HIDE DEF AllowanceTookItsPlace
  <1>3. \/ batch'[w].left = {} \/ batch'[w].behind
        \/ batch'[w].carrying # "none" \/ batch'[w].pause # Nothing
        \/ AllowanceTookItsPlace'
        \/ batch'[w].left \subseteq setting.gmail
    BY <1>1, <1>2, ZenonT(40) DEF Keeps, NoLess
  <1> QED
    BY <1>3 DEF Keeps

LEMMA SameIsNoLess == \A b : NoLess(b, b)
  BY DEF NoLess

LEMMA WithoutIsNoLess ==
    ASSUME NEW b \in Batch, NEW c \in Batch, NEW e, NoLess(b, c)
    PROVE  NoLess(b, Without(c, e))
  <1>1. CASE c.left = {e}
    BY <1>1, IdleIs DEF Without, NoLess
  <1>2. CASE c.left # {e}
    <2> DEFINE d == [c EXCEPT !.left = c.left \ {e}, !.tries = [c.tries EXCEPT ![e] = 0]]
    <2>1. Without(c, e) = d
      BY <1>2 DEF Without
    <2>2. d.left \subseteq c.left /\ d.behind = c.behind /\ d.carrying = c.carrying /\ d.pause = c.pause
      BY DEF Batch
    <2> HIDE DEF d
    <2> QED
      BY <2>1, <2>2 DEF NoLess
  <1> QED
    BY <1>1, <1>2

\* What the worker knows after the outcome: no less than before, and of a pause it was asked for
\* that it is one.
LEMMA AfterRecordIsNoLess ==
    ASSUME NEW b \in Batch, KnowsItsRoad(b)
    PROVE  /\ AskedForAPause(b) => Announced(b) = "paused"
           /\ AskedForAPause(b) => AfterRecord(b).carrying # "none" \/ AfterRecord(b).pause # Nothing
           /\ ~AskedForAPause(b) => NoLess(b, AfterRecord(b))
  <1> DEFINE kind == Announced(b)
             h == Heard(b, kind)
             kept == h.kept \/ Relabels(b)
             behind == h.behind /\ ~AskedForAPause(b)
             c == [h EXCEPT !.row = Nothing, !.result = NoResult, !.kept = kept, !.behind = behind]
  <1>1. AskedForAPause(b) => kind = "paused"
    BY DEF AskedForAPause, Announced, KnowsItsRoad
  <1>2. kind \in Kinds /\ h \in Batch /\ h.left = b.left
    BY AfterRecordIs, HeardIs
  <1>3. h.behind = b.behind
    BY DEF Heard, Batch
  <1>4. b.carrying # "none" => h.carrying # "none"
    BY DEF Heard, Batch
  <1>5. b.pause # Nothing => h.pause # Nothing
    BY NumbersAre DEF Heard, Batch
  <1>6. kind = "paused" => h.carrying # "none" \/ h.pause # Nothing
    BY NumbersAre DEF Heard, Batch
  <1>7. AfterRecord(b) = c
    BY DEF AfterRecord
  <1> HIDE DEF kind, h, kept
  <1>8. c.left = h.left /\ c.carrying = h.carrying /\ c.pause = h.pause /\ c.behind = behind
    BY <1>2 DEF Batch
  <1> HIDE DEF c
  <1>9. ~AskedForAPause(b) => NoLess(b, c)
    BY <1>2, <1>3, <1>4, <1>5, <1>8 DEF NoLess
  <1> QED
    BY <1>1, <1>6, <1>7, <1>8, <1>9 DEF kind

LEMMA RecordedIs ==
    ASSUME stopRecord \in Recordeds, NEW kind \in {"paused", "allowance"}, NEW left \in 0..AllowanceFor
    PROVE  /\ Recorded(kind, left).kind # "none"
           /\ left =< Recorded(kind, left).left
           /\ stopRecord.kind # "none" => stopRecord.left =< Recorded(kind, left).left
           /\ stopRecord.kind = "allowance" /\ kind = "allowance" => Recorded(kind, left).kind = "allowance"
  <1>1. stopRecord.left \in Nat /\ left \in Nat
    BY NumbersAre DEF Recordeds
  <1> QED
    BY <1>1 DEF Recorded

LEMMA RecordPauses ==
    ASSUME QueueInv, RoadsKnown, Remembered, PauseKept, NEW w \in Workers, Record(w)
    PROVE  Remembered' /\ PauseKept'
  <1> DEFINE b == batch[w]
             kind == Announced(b)
  <1>1. b \in Batch /\ KnowsItsRoad(b) /\ \A v \in Workers : batch[v] \in Batch
    BY DEF QueueInv, TypeOK, RoadsKnown
  <1>2. /\ b.row \in b.left /\ batch'[w] = Without(AfterRecord(b), b.row)
        /\ \A v \in Workers \ {w} :
             batch'[v] = IF AskedForAPause(b) /\ batch[v] # Idle
                         THEN [batch[v] EXCEPT !.behind = TRUE] ELSE batch[v]
    BY RecordEnds
  <1>3. /\ setting' = setting
        /\ told' = IF AskedForAPause(b) THEN Max({told, PauseFor}) ELSE told
        /\ stopRecord' = IF kind # "none" THEN Recorded(kind, StopFor(kind))
                         ELSE IF Relabels(b) THEN Recorded(b.carrying, b.until)
                         ELSE stopRecord
    BY DEF Record
  <1>4. /\ stopRecord \in Recordeds /\ told \in 0..AllowanceFor /\ setting \in Settings
        /\ PauseFor \in 0..AllowanceFor /\ AllowanceFor \in 0..AllowanceFor
    BY RestStays, NumbersAre
  <1>5. AfterRecord(b) \in Batch /\ kind \in Kinds
    BY <1>1, AfterRecordIs
  <1>6. CASE AskedForAPause(b)
    <2>1. kind = "paused" /\ stopRecord' = Recorded("paused", PauseFor) /\ told' = Max({told, PauseFor})
      BY <1>1, <1>3, <1>6, AfterRecordIsNoLess DEF StopFor
    <2>2. told' \in {told, PauseFor} /\ told =< told' /\ PauseFor =< told'
      BY <1>4, <2>1, NumbersAre, OfTwo
    <2>3. stopRecord'.kind # "none" /\ PauseFor =< stopRecord'.left
          /\ (stopRecord.kind # "none" => stopRecord.left =< stopRecord'.left)
          /\ stopRecord'.left \in Nat /\ stopRecord.left \in Nat
      <3>1. Recorded("paused", PauseFor) \in Recordeds
        BY <1>4, RecordedFits DEF Kinds
      <3> QED
        BY <1>4, <2>1, <3>1, RecordedIs, NumbersAre DEF Recordeds
    <2>4. Remembered'
      <3>1. told \in Nat /\ PauseFor \in Nat
        BY <1>4, NumbersAre
      <3> QED
        BY <2>2, <2>3, <3>1 DEF Remembered
    <2>5. Keeps(batch[w])'
      <3> DEFINE a == AfterRecord(b)
      <3>1. a.carrying # "none" \/ a.pause # Nothing
        BY <1>1, <1>6, AfterRecordIsNoLess
      <3>2. NoLess(a, Without(a, b.row))
        BY <1>5, SameIsNoLess, WithoutIsNoLess
      <3> HIDE DEF a
      <3>3. batch'[w].left = {} \/ batch'[w].carrying # "none" \/ batch'[w].pause # Nothing
        BY <1>2, <3>1, <3>2 DEF NoLess, a
      <3> QED
        BY <3>3 DEF Keeps
    <2>6. ASSUME NEW v \in Workers \ {w} PROVE Keeps(batch[v])'
      <3>1. CASE batch[v] = Idle
        BY <1>2, <3>1, IdleIs DEF Keeps
      <3>2. CASE batch[v] # Idle
        <4>1. batch'[v] = [batch[v] EXCEPT !.behind = TRUE]
          BY <1>2, <1>6, <3>2
        <4>2. batch'[v].behind = TRUE
          BY <1>1, <4>1 DEF Batch
        <4> QED
          BY <4>2 DEF Keeps
      <3> QED
        BY <3>1, <3>2
    <2> QED
      BY <2>4, <2>5, <2>6 DEF PauseKept
  <1>7. CASE ~AskedForAPause(b)
    <2>1. told' = told /\ kind # "paused"
      BY <1>3, <1>7 DEF AskedForAPause, Announced
    <2>2. b.carrying \in Kinds /\ b.until \in 0..AllowanceFor /\ (Relabels(b) => b.carrying # "none" /\ setting.fallback)
      BY <1>1 DEF Batch, Relabels, KnowsItsRoad
    <2>3. \/ stopRecord' = stopRecord
          \/ \E k \in {"paused", "allowance"}, left \in 0..AllowanceFor :
               /\ stopRecord' = Recorded(k, left)
               /\ k = "paused" => setting.fallback
      <3>1. CASE kind # "none"
        <4>1. stopRecord' = Recorded("allowance", AllowanceFor)
          BY <1>3, <1>5, <2>1, <3>1 DEF StopFor, Kinds
        <4> QED
          BY <1>4, <4>1
      <3>2. CASE kind = "none" /\ Relabels(b)
        <4>1. stopRecord' = Recorded(b.carrying, b.until) /\ b.carrying \in {"paused", "allowance"}
          BY <1>3, <2>2, <3>2 DEF Kinds
        <4> QED
          BY <2>2, <3>2, <4>1
      <3>3. CASE kind = "none" /\ ~Relabels(b)
        BY <1>3, <3>3
      <3> QED
        BY <3>1, <3>2, <3>3
    <2>4. /\ stopRecord.kind # "none" => stopRecord'.kind # "none" /\ stopRecord.left =< stopRecord'.left
          /\ AllowanceTookItsPlace => stopRecord'.kind = "allowance"
          /\ stopRecord.left \in Nat /\ stopRecord'.left \in Nat
      <3>1. CASE stopRecord' = stopRecord
        BY <1>4, <3>1, NumbersAre DEF AllowanceTookItsPlace, Recordeds
      <3>2. CASE \E k \in {"paused", "allowance"}, left \in 0..AllowanceFor :
                   stopRecord' = Recorded(k, left) /\ (k = "paused" => setting.fallback)
        <4>1. PICK k \in {"paused", "allowance"}, left \in 0..AllowanceFor :
                stopRecord' = Recorded(k, left) /\ (k = "paused" => setting.fallback)
          BY <3>2
        <4>2. Recorded(k, left) \in Recordeds
          BY <4>1, RecordedFits DEF Kinds
        <4> QED
          BY <1>4, <4>1, <4>2, RecordedIs, NumbersAre DEF AllowanceTookItsPlace, Recordeds
      <3> QED
        BY <2>3, <3>1, <3>2
    <2>5. Remembered'
      <3>1. told \in Nat
        BY <1>4, NumbersAre
      <3> QED
        BY <2>1, <2>4, <3>1 DEF Remembered
    <2>6. \A v \in Workers : NoLess(batch[v], batch'[v])
      <3>1. NoLess(b, Without(AfterRecord(b), b.row))
        BY <1>1, <1>5, <1>7, AfterRecordIsNoLess, WithoutIsNoLess
      <3>2. \A v \in Workers \ {w} : batch'[v] = batch[v]
        BY <1>2, <1>7
      <3> QED
        BY <1>2, <3>1, <3>2, SameIsNoLess
    <2>7. AllowanceTookItsPlace => AllowanceTookItsPlace'
      BY <1>3, <2>4 DEF AllowanceTookItsPlace
    <2> QED
      BY <1>3, <2>1, <2>5, <2>6, <2>7, StillKept
  <1> QED
    BY <1>6, <1>7

\* An hour less for the pause is an hour less for its record, and a worker told of one stays told.
LEMMA TickPauses ==
    ASSUME QueueInv, Remembered, PauseKept, Tick
    PROVE  Remembered' /\ PauseKept'
  <1>1. /\ told' = Less(told) /\ setting' = setting
        /\ stopRecord' = IF stopRecord.left > 1 THEN [stopRecord EXCEPT !.left = stopRecord.left - 1]
                         ELSE [kind |-> "none", left |-> 0]
    BY DEF Tick
  <1>2. told \in Nat /\ stopRecord \in Recordeds /\ stopRecord.left \in Nat
    BY RestStays, NumbersAre DEF Recordeds
  <1>3. told' > 0 => /\ told > 0 /\ stopRecord'.kind = stopRecord.kind
                     /\ stopRecord.kind # "none" /\ told' =< stopRecord'.left
    <2> SUFFICES ASSUME told' > 0
                 PROVE  /\ told > 0 /\ stopRecord'.kind = stopRecord.kind
                        /\ stopRecord.kind # "none" /\ told' =< stopRecord'.left
      OBVIOUS
    <2>1. told > 1 /\ told' = told - 1
      BY <1>1, <1>2 DEF Less
    <2>2. stopRecord.kind # "none" /\ stopRecord.left > 1 /\ told =< stopRecord.left
      BY <1>2, <2>1 DEF Remembered
    <2>3. stopRecord' = [stopRecord EXCEPT !.left = stopRecord.left - 1]
      BY <1>1, <2>2
    <2>4. stopRecord'.kind = stopRecord.kind /\ stopRecord'.left = stopRecord.left - 1
      BY <1>2, <2>3 DEF Recordeds
    <2> QED
      BY <1>2, <2>1, <2>2, <2>4
  <1>4. \A w \in Workers : NoLess(batch[w], batch'[w])
    <2> TAKE w \in Workers
    <2>1. batch[w].pause \in Nat \cup {Nothing}
      BY NumbersAre DEF QueueInv, TypeOK, Batch
    <2>2. batch[w].pause # Nothing => Less(batch[w].pause) # Nothing
      BY <2>1 DEF Less, Nothing
    <2> QED
      BY <2>2, TickPasses DEF NoLess
  <1>5. told' > 0 /\ AllowanceTookItsPlace => AllowanceTookItsPlace'
    BY <1>1, <1>3 DEF AllowanceTookItsPlace
  <1>6. Remembered'
    BY <1>3 DEF Remembered
  <1>7. told' > 0 => told > 0
    BY <1>3
  <1> QED
    BY <1>1, <1>4, <1>5, <1>6, <1>7, StillKept

LEMMA StepPauses ==
    ASSUME QueueInv, RoadsKnown, Remembered, PauseKept, [Next]_vars
    PROVE  Remembered' /\ PauseKept'
  <1>1. \A v \in Workers : batch[v] \in Batch /\ NoLess(batch[v], batch[v])
    BY SameIsNoLess DEF QueueInv, TypeOK
  \* The clock and the stop as they were, and nobody knows less.
  <1>2. ASSUME told' = told, stopRecord' = stopRecord, setting' = setting,
               NEW w \in Workers, NoLess(batch[w], batch'[w]), \A v \in Workers \ {w} : batch'[v] = batch[v]
        PROVE  Remembered' /\ PauseKept'
    <2>1. \A v \in Workers : NoLess(batch[v], batch'[v])
      BY <1>1, <1>2
    <2>2. AllowanceTookItsPlace' <=> AllowanceTookItsPlace
      BY <1>2 DEF AllowanceTookItsPlace
    <2>3. Remembered'
      BY <1>2 DEF Remembered
    <2> QED
      BY <1>2, <2>1, <2>2, <2>3, StillKept
  <1>3. ASSUME NEW w \in Workers, HandBack(w) \/ \E status \in {"withdrawn", "FAILED"} : RenderEnds(w, status)
        PROVE  Remembered' /\ PauseKept'
    <2>1. PICK e \in batch[w].left :
             /\ batch'[w] = Without(batch[w], e)
             /\ \A v \in Workers \ {w} : batch'[v] = batch[v]
             /\ told' = told /\ stopRecord' = stopRecord /\ setting' = setting
      BY <1>3, LetsGo
    <2>2. NoLess(batch[w], batch'[w])
      BY <1>1, <2>1, WithoutIsNoLess
    <2> QED
      BY <1>2, <2>1, <2>2
  <1>4. ASSUME NEW w \in Workers, Send(w)
        PROVE  Remembered' /\ PauseKept'
    <2>1. /\ batch'[w].left = batch[w].left /\ batch'[w].carrying = batch[w].carrying
          /\ batch'[w].pause = batch[w].pause /\ batch'[w].behind = batch[w].behind
          /\ \A v \in Workers \ {w} : batch'[v] = batch[v]
          /\ told' = told /\ stopRecord' = stopRecord /\ setting' = setting
      BY <1>4, SendAsks
    <2>2. NoLess(batch[w], batch'[w])
      BY <2>1 DEF NoLess
    <2> QED
      BY <1>2, <2>1, <2>2
  <1>5. ASSUME NEW w \in Workers, Crash(w)
        PROVE  Remembered' /\ PauseKept'
    <2>1. NoLess(batch[w], batch'[w])
      BY <1>5, CrashForgets, IdleIs DEF NoLess
    <2> QED
      BY <1>2, <1>5, <2>1, CrashForgets
  <1>6. ASSUME NEW w \in Workers, NEW wanted \in SUBSET Emails, NEW bulkRoom \in Nat,
               Claim(w, wanted, bulkRoom)
        PROVE  Remembered' /\ PauseKept'
    <2>1. /\ \A v \in Workers \ {w} : batch'[v] = batch[v]
          /\ told' = told /\ stopRecord' = stopRecord /\ setting' = setting
      BY <1>6, ClaimTakes
    <2>2. Remembered'
      BY <2>1 DEF Remembered
    <2>3. AllowanceTookItsPlace' <=> AllowanceTookItsPlace
      BY <2>1 DEF AllowanceTookItsPlace
    <2>4. ASSUME told' > 0, NEW v \in Workers PROVE Keeps(batch'[v])
      <3>1. CASE v = w
        BY <1>6, <2>1, <2>4, <3>1, ClaimedDuringAPause
      <3>2. CASE v # w
        BY <2>1, <2>4, <3>2 DEF PauseKept
      <3> QED
        BY <3>1, <3>2
    <2>5. \A b : Keeps(b) => \/ b.left = {} \/ b.behind
                             \/ b.carrying # "none" \/ b.pause # Nothing
                             \/ AllowanceTookItsPlace'
                             \/ b.left \subseteq setting'.gmail
      BY <2>1, <2>3 DEF Keeps
    <2>6. ASSUME told' > 0, NEW v \in Workers PROVE Keeps(batch[v])'
      <3>1. \/ batch'[v].left = {} \/ batch'[v].behind
            \/ batch'[v].carrying # "none" \/ batch'[v].pause # Nothing
            \/ AllowanceTookItsPlace'
            \/ batch'[v].left \subseteq setting'.gmail
        BY <2>4, <2>5, <2>6
      <3> QED
        BY <3>1 DEF Keeps
    <2> QED
      BY <2>2, <2>6 DEF PauseKept
  <1>7. CASE batch' = batch /\ told' = told /\ stopRecord' = stopRecord /\ setting' = setting
    BY <1>7 DEF Remembered, PauseKept, Keeps, AllowanceTookItsPlace
  <1>8. 0..AllBulk \subseteq Nat
    OBVIOUS
  <1> QED
    BY <1>3, <1>4, <1>5, <1>6, <1>7, <1>8, WorkIs, BatchesAreLeft, TickPauses, RecordPauses

\* An invariant of the whole queue: what the roads know and what a pause has taught.
PauseInv == RoadsKnown /\ Remembered /\ PauseKept

LEMMA PausesAreKept == Spec => []PauseInv
  <1>1. Init => PauseInv
    <2> SUFFICES ASSUME Init PROVE PauseInv
      OBVIOUS
    <2>1. RoadsKnown
      BY IdleKnows DEF Init, RoadsKnown
    <2>2. told = 0
      BY DEF Init
    <2> QED
      BY <2>1, <2>2 DEF PauseInv, Remembered, PauseKept
  <1>2. QueueInv /\ PauseInv /\ [Next]_vars => PauseInv'
    BY StepKnows, StepPauses DEF PauseInv
  <1> QED
    BY <1>1, <1>2, Inductive, PTL DEF Spec

\* Nothing but an answer of a provider is ever a knock.
LEMMA KnocksBySending ==
    ASSUME QueueInv, [Next]_vars, NEW w \in Workers, Knocks(w)
    PROVE  Send(w)
  <1>1. \A v \in Workers : batch[v] \in Batch
    BY DEF QueueInv, TypeOK
  <1>2. ~NoResult.knocked /\ ~Idle.result.knocked
    BY IdleIs DEF NoResult
  <1>3. batch'[w].result # batch[w].result /\ batch'[w].result # NoResult
    BY <1>2 DEF Knocks
  <1>4. ASSUME NEW b \in Batch, NEW e PROVE Without(b, e).result \in {b.result, NoResult}
    <2>1. CASE b.left = {e}
      BY <2>1, IdleIs DEF Without
    <2>2. CASE b.left # {e}
      BY <2>2 DEF Without, Batch
    <2> QED
      BY <2>1, <2>2
  <1>5. ~(\E v \in Workers : HandBack(v) \/ \E status \in {"withdrawn", "FAILED"} : RenderEnds(v, status))
    <2> SUFFICES ASSUME NEW v \in Workers,
                        HandBack(v) \/ \E status \in {"withdrawn", "FAILED"} : RenderEnds(v, status)
                 PROVE  FALSE
      OBVIOUS
    <2>1. PICK e \in batch[v].left :
            batch'[v] = Without(batch[v], e) /\ \A u \in Workers \ {v} : batch'[u] = batch[u]
      BY LetsGo
    <2> QED
      BY <1>1, <1>3, <1>4, <2>1
  <1>6. ~(\E v \in Workers : Record(v))
    <2> SUFFICES ASSUME NEW v \in Workers, Record(v) PROVE FALSE
      OBVIOUS
    <2>1. /\ batch'[v] = Without(AfterRecord(batch[v]), batch[v].row)
          /\ \A u \in Workers \ {v} : \/ batch'[u] = batch[u]
                                      \/ batch'[u] = [batch[u] EXCEPT !.behind = TRUE]
      BY RecordEnds
    <2>2. AfterRecord(batch[v]) \in Batch /\ AfterRecord(batch[v]).result = NoResult
      <3> DEFINE b == batch[v]
                 h == Heard(b, Announced(b))
                 kept == h.kept \/ Relabels(b)
                 behind == h.behind /\ ~AskedForAPause(b)
                 c == [h EXCEPT !.row = Nothing, !.result = NoResult, !.kept = kept, !.behind = behind]
      <3>1. h \in Batch /\ AfterRecord(b) \in Batch
        BY <1>1, AfterRecordIs, HeardIs
      <3>2. AfterRecord(b) = c
        BY DEF AfterRecord
      <3> HIDE DEF h, kept, behind
      <3>3. c.result = NoResult
        BY <3>1 DEF Batch
      <3> QED
        BY <3>1, <3>2, <3>3
    <2>3. \A b \in Batch : [b EXCEPT !.behind = TRUE].result = b.result
      BY DEF Batch
    <2>4. batch'[v].result = NoResult
      BY <1>4, <2>1, <2>2
    <2>5. \A u \in Workers \ {v} : batch'[u].result = batch[u].result
      BY <1>1, <2>1, <2>3
    <2> QED
      BY <1>3, <2>4, <2>5
  <1>7. ~(\E v \in Workers : Crash(v))
    BY <1>3, CrashForgets, IdleIs
  <1>8. ~(\E v \in Workers : \E wanted \in SUBSET Emails : \E bulkRoom \in 0..AllBulk : Claim(v, wanted, bulkRoom))
    BY <1>3, ClaimTakes
  <1>9. ~Tick
    BY <1>3, TickPasses
  <1>10. batch' # batch
    BY <1>3
  <1>11. \E v \in Workers : Send(v)
    BY <1>5, <1>6, <1>7, <1>8, <1>9, <1>10, BatchesAreLeft, WorkIs
  <1>12. ASSUME NEW v \in Workers, Send(v), v # w PROVE FALSE
    BY <1>3, <1>12, SendAsks
  <1> QED
    BY <1>11, <1>12

\* A pause that is written down is kept by every batch claimed after it: on Mailgun's own road
\* nothing is asked until it ends, unless the record has become a spent allowance's.
THEOREM NoKnockDuringAPauseHolds == Spec => NoKnockDuringAPause
  <1>1. ASSUME QueueInv, PauseInv, [Next]_vars, NEW w \in Workers,
               Knocks(w), OnMailgunRoad(batch'[w].row)
        PROVE  told = 0 \/ batch[w].behind \/ AllowanceTookItsPlace
    <2> SUFFICES ASSUME told # 0 PROVE batch[w].behind \/ AllowanceTookItsPlace
      OBVIOUS
    <2>1. Keeps(batch[w])
      <3>1. told > 0
        BY <1>1, RestStays, NumbersAre
      <3> QED
        BY <1>1, <3>1 DEF PauseInv, PauseKept
    <2>2. Send(w)
      BY <1>1, KnocksBySending
    <2>3. PICK e \in batch[w].left : \E call \in Calls(batch[w], e) :
             /\ ~Waits(batch[w], e) /\ batch'[w].row = e /\ batch'[w].result = call.result
      BY <1>1, <2>2, SendAsks
    <2>4. PICK call \in Calls(batch[w], e) : batch'[w].result = call.result
      BY <2>3
    <2>5. call.result.knocked
      BY <1>1, <2>4 DEF Knocks
    <2>6. batch[w].carrying = "none"
      BY <1>1, <2>5, CallSays, RestStays
    <2>7. OnMailgunRoad(e) /\ e \notin setting.gmail
      BY <1>1, <2>3 DEF OnMailgunRoad
    <2>8. batch[w].pause = Nothing
      BY <2>3, <2>6, <2>7 DEF Waits
    <2> QED
      BY <2>1, <2>6, <2>7, <2>8 DEF Keeps
  <1>2. QueueInv /\ PauseInv /\ [Next]_vars
          => [\A w \in Workers :
                Knocks(w) /\ OnMailgunRoad(batch'[w].row)
                  => told = 0 \/ batch[w].behind \/ AllowanceTookItsPlace]_vars
    BY <1>1
  <1> QED
    BY <1>2, Inductive, PausesAreKept, PTL DEF Spec, NoKnockDuringAPause

-----------------------------------------------------------------------------
(* Mailgun's hour. *)

(* What Mailgun took on its own road and somebody is still to write down, or has. *)
ByMailgun == {a \in accepted : a.road = "mailgun"}

SaidSent(e) == \E w \in Workers : /\ batch[w].row = e
                                  /\ batch[w].result.outcome = "sent" /\ batch[w].result.by = "mailgun"

WrittenDown(a) == \/ rows[a.email].sent /\ a.age =< rows[a.email].fresh /\ ~rows[a.email].viaGmail
                  \/ SaidSent(a.email)

(* What the hour is charged with: the rows sent in the window, and the ones in the hands of a
   worker that may ask Mailgun. *)
InHand(e) == \E w \in Workers : e \in batch[w].left /\ batch[w].carrying = "none"
Counts(e) == e \notin setting.gmail /\ ((rows[e].fresh > 0 /\ ~rows[e].viaGmail) \/ InHand(e))
Counted == {e \in Emails : Counts(e)}

TakenOnce == \A a, b \in ByMailgun : a.email = b.email => a = b
AllWritten == \A a \in ByMailgun : a.email \notin setting.gmail /\ WrittenDown(a)
WithinTheHour == Cardinality(Counted) =< setting.hour

HourInv == ~setting.outlives => TakenOnce /\ AllWritten /\ WithinTheHour

\* A step that leaves a row's sending as it was.
SameSending == \A e \in Emails : /\ rows'[e].sent = rows[e].sent /\ rows'[e].fresh = rows[e].fresh
                                 /\ rows'[e].viaGmail = rows[e].viaGmail

LEMMA CountedIs ==
    /\ IsFiniteSet(Counted) /\ Cardinality(Counted) \in Nat
    /\ Counted' \subseteq Counted => Cardinality(Counted)' \in Nat /\ Cardinality(Counted)' =< Cardinality(Counted)
  <1>1. Counted \in SUBSET Emails
    BY DEF Counted
  <1>2. IsFiniteSet(Counted) /\ Cardinality(Counted) \in Nat
    BY <1>1, NumbersAre, FS_Subset, FS_CardinalityType
  <1>3. Counted' \subseteq Counted => Cardinality(Counted)' \in Nat /\ Cardinality(Counted)' =< Cardinality(Counted)
    <2> SUFFICES ASSUME Counted' \subseteq Counted
                 PROVE  Cardinality(Counted)' \in Nat /\ Cardinality(Counted)' =< Cardinality(Counted)
      OBVIOUS
    <2> DEFINE c == Counted'
    <2>1. IsFiniteSet(c) /\ Cardinality(c) =< Cardinality(Counted) /\ Cardinality(c) \in Nat
      <3>1. c \in SUBSET Counted
        OBVIOUS
      <3> HIDE DEF c
      <3> QED
        BY <1>2, <3>1, FS_Subset, FS_CardinalityType
    <2> QED
      BY <2>1
  <1> QED
    BY <1>2, <1>3

LEMMA AcceptedIs ==
    ASSUME QueueInv, NEW a \in accepted
    PROVE  a.email \in Emails /\ a.age \in 0..PaceWindow /\ a.age \in Nat
  BY NumbersAre DEF QueueInv, TypeOK

LEMMA FreshIs ==
    ASSUME QueueInv, NEW e \in Emails
    PROVE  rows[e].fresh \in 0..PaceWindow /\ rows[e].fresh \in Nat /\ rows[e].viaGmail \in BOOLEAN
  BY NumbersAre DEF QueueInv, TypeOK, Row

LEMMA HourIs == QueueInv => setting.hour \in Nat
  BY RestStays, SettingIs

\* Nothing sent, nothing forgotten, nothing taken in hand.
LEMMA HourStays ==
    ASSUME QueueInv, HourInv, setting' = setting, accepted' = accepted, SameSending,
           \A e \in Emails : SaidSent(e) => SaidSent(e)',
           \A e \in Emails : InHand(e)' => InHand(e)
    PROVE  HourInv'
  <1> SUFFICES ASSUME ~setting.outlives PROVE (TakenOnce /\ AllWritten /\ WithinTheHour)'
    BY DEF HourInv
  <1>1. TakenOnce /\ AllWritten /\ WithinTheHour
    BY DEF HourInv
  <1>2. ByMailgun' = ByMailgun
    BY DEF ByMailgun
  <1>3. TakenOnce'
    BY <1>1, <1>2 DEF TakenOnce
  <1>4. AllWritten'
    <2> SUFFICES ASSUME NEW a \in ByMailgun PROVE (a.email \notin setting.gmail /\ WrittenDown(a))'
      BY <1>2 DEF AllWritten
    <2>1. a.email \in Emails /\ a.email \notin setting.gmail /\ WrittenDown(a)
      BY <1>1, AcceptedIs DEF AllWritten, ByMailgun
    <2> QED
      BY <2>1 DEF WrittenDown, SameSending
  <1>5. Counted' \subseteq Counted
    <2> SUFFICES ASSUME NEW e \in Emails, Counts(e)' PROVE Counts(e)
      BY DEF Counted
    <2> QED
      BY DEF Counts, SameSending
  <1>6. WithinTheHour'
    BY <1>1, <1>5, CountedIs, HourIs DEF WithinTheHour
  <1> QED
    BY <1>3, <1>4, <1>6

\* A batch that loses a row, or is lost itself, takes nothing in hand; and what another worker
\* has to write down is still its own to write.
LEMMA HandsEmpty ==
    ASSUME NEW w \in Workers, batch'[w].left \subseteq batch[w].left,
           batch'[w].left # {} /\ batch'[w].carrying = "none" => batch[w].carrying = "none",
           \A v \in Workers \ {w} : /\ batch'[v].left = batch[v].left
                                    /\ batch'[v].carrying = batch[v].carrying
                                    /\ batch'[v].row = batch[v].row /\ batch'[v].result = batch[v].result
    PROVE  /\ \A e : InHand(e)' => InHand(e)
           /\ \A e : e # batch[w].row /\ SaidSent(e) => SaidSent(e)'
  <1>1. ASSUME NEW e, InHand(e)' PROVE InHand(e)
    <2>1. PICK v \in Workers : e \in batch'[v].left /\ batch'[v].carrying = "none"
      BY <1>1 DEF InHand
    <2>2. e \in batch[v].left /\ batch[v].carrying = "none"
      BY <2>1
    <2> QED
      BY <2>2 DEF InHand
  <1>2. ASSUME NEW e, e # batch[w].row, SaidSent(e) PROVE SaidSent(e)'
    <2>1. PICK v \in Workers : /\ batch[v].row = e
                               /\ batch[v].result.outcome = "sent" /\ batch[v].result.by = "mailgun"
      BY <1>2 DEF SaidSent
    <2>2. v # w
      BY <1>2, <2>1
    <2>3. batch'[v].row = e /\ batch'[v].result.outcome = "sent" /\ batch'[v].result.by = "mailgun"
      BY <2>1, <2>2
    <2> QED
      BY <2>3 DEF SaidSent
  <1> QED
    BY <1>1, <1>2

LEMMA RowOnlyHour ==
    ASSUME QueueInv, HourInv, SameSending, batch' = batch, setting' = setting, accepted' = accepted
    PROVE  HourInv'
  <1>1. \A e \in Emails : (SaidSent(e) => SaidSent(e)') /\ (InHand(e)' => InHand(e))
    BY DEF SaidSent, InHand
  <1> QED
    BY <1>1, HourStays

LEMMA WithoutSays ==
    ASSUME NEW b \in Batch, NEW e
    PROVE  /\ Without(b, e).left \subseteq b.left
           /\ Without(b, e).left # {} => Without(b, e).carrying = b.carrying
  <1>1. CASE b.left = {e}
    BY <1>1, IdleIs DEF Without
  <1>2. CASE b.left # {e}
    BY <1>2 DEF Without, Batch
  <1> QED
    BY <1>1, <1>2

LEMMA LetsGoHour ==
    ASSUME QueueInv, HourInv, NEW w \in Workers,
           HandBack(w) \/ \E status \in {"withdrawn", "FAILED"} : RenderEnds(w, status)
    PROVE  HourInv'
  <1>1. PICK e \in batch[w].left :
             /\ batch'[w] = Without(batch[w], e) /\ batch[w].row = Nothing
             /\ \A v \in Workers \ {w} : batch'[v] = batch[v]
             /\ setting' = setting /\ accepted' = accepted
    BY LetsGo
  <1>2. batch[w] \in Batch
    BY DEF QueueInv, TypeOK
  <1>3. /\ \A x : InHand(x)' => InHand(x)
        /\ \A x : x # batch[w].row /\ SaidSent(x) => SaidSent(x)'
    BY <1>1, <1>2, WithoutSays, HandsEmpty
  <1>4. \A x \in Emails : x # batch[w].row
    BY <1>1, NumbersAre
  <1>5. SameSending
    <2> DEFINE x == NextOf(batch[w].left)
    <2>0. rows \in [Emails -> Row] /\ x \in Emails /\ rows[x] \in Row
      <3>1. x \in batch[w].left
        BY <1>1, NextIsHeld
      <3> QED
        BY <1>2, <3>1 DEF QueueInv, TypeOK, Batch
    <2>1. CASE HandBack(w)
      <3> DEFINE r == GivenBack(rows[x], batch[w].tries[x], WaitOf(batch[w]))
      <3>1. rows' = [rows EXCEPT ![x] = r]
        BY <2>1 DEF HandBack, SetRow
      <3>2. r.sent = rows[x].sent /\ r.fresh = rows[x].fresh /\ r.viaGmail = rows[x].viaGmail
        BY <2>0 DEF GivenBack, Row
      <3> HIDE DEF r, x
      <3> QED
        BY <2>0, <3>1, <3>2 DEF SameSending
    <2>2. ASSUME NEW status, RenderEnds(w, status) PROVE SameSending
      <3> DEFINE r == [rows[x] EXCEPT !.status = status, !.lease = 0, !.wait = 0]
      <3>1. rows' = [rows EXCEPT ![x] = r]
        BY <2>2 DEF RenderEnds, SetRow
      <3>2. r.sent = rows[x].sent /\ r.fresh = rows[x].fresh /\ r.viaGmail = rows[x].viaGmail
        BY <2>0 DEF Row
      <3> HIDE DEF r, x
      <3> QED
        BY <2>0, <3>1, <3>2 DEF SameSending
    <2> QED
      BY <2>1, <2>2
  <1> QED
    BY <1>1, <1>3, <1>4, <1>5, HourStays

\* A worker that dies with its outcome unwritten: what it sent is nobody's to write any more, and
\* it is not counted with Mailgun's hour.
LEMMA CrashHour ==
    ASSUME QueueInv, HourInv, NEW w \in Workers, Crash(w)
    PROVE  HourInv'
  <1> SUFFICES ASSUME ~setting.outlives PROVE (TakenOnce /\ AllWritten /\ WithinTheHour)'
    BY CrashForgets DEF HourInv
  <1>1. TakenOnce /\ AllWritten /\ WithinTheHour
    BY DEF HourInv
  <1>2. /\ batch'[w] = Idle /\ \A v \in Workers \ {w} : batch'[v] = batch[v]
        /\ rows' = rows /\ setting' = setting
    BY CrashForgets DEF Crash
  <1>3. /\ \A e : InHand(e)' => InHand(e)
        /\ \A e : e # batch[w].row /\ SaidSent(e) => SaidSent(e)'
    BY <1>2, IdleIs, HandsEmpty
  <1> DEFINE unwritten(a) == batch[w].row = a.email /\ batch[w].result.outcome = "sent" /\ a.road = "mailgun"
  <1>4. accepted' = {IF unwritten(a) THEN [a EXCEPT !.road = "lost"] ELSE a : a \in accepted}
    BY DEF Crash
  <1>5. ASSUME NEW b \in ByMailgun' PROVE b \in ByMailgun /\ ~unwritten(b)
    <2>1. PICK a \in accepted : b = IF unwritten(a) THEN [a EXCEPT !.road = "lost"] ELSE a
      BY <1>4, <1>5 DEF ByMailgun
    <2>2. [a EXCEPT !.road = "lost"].road = "lost"
      BY DEF QueueInv, TypeOK
    <2>3. b.road = "mailgun"
      BY <1>5 DEF ByMailgun
    <2> QED
      BY <2>1, <2>2, <2>3 DEF ByMailgun
  <1>6. TakenOnce'
    BY <1>1, <1>5 DEF TakenOnce
  <1>7. AllWritten'
    <2> SUFFICES ASSUME NEW b \in ByMailgun' PROVE (b.email \notin setting.gmail /\ WrittenDown(b))'
      BY DEF AllWritten
    <2>1. b.email \notin setting.gmail /\ WrittenDown(b) /\ b.road = "mailgun"
      BY <1>1, <1>5 DEF AllWritten, ByMailgun
    <2>2. CASE rows[b.email].sent /\ b.age =< rows[b.email].fresh /\ ~rows[b.email].viaGmail
      BY <1>2, <2>1, <2>2 DEF WrittenDown
    <2>3. CASE SaidSent(b.email)
      <3>1. PICK v \in Workers : /\ batch[v].row = b.email
                                 /\ batch[v].result.outcome = "sent" /\ batch[v].result.by = "mailgun"
        BY <2>3 DEF SaidSent
      <3>2. v # w
        BY <1>5, <2>1, <3>1
      <3>3. SaidSent(b.email)'
        BY <1>2, <3>1, <3>2 DEF SaidSent
      <3> QED
        BY <1>2, <2>1, <3>3 DEF WrittenDown
    <2> QED
      BY <2>1, <2>2, <2>3 DEF WrittenDown
  <1>8. WithinTheHour'
    <2>1. Counted' \subseteq Counted
      BY <1>2, <1>3 DEF Counted, Counts
    <2> QED
      BY <1>1, <1>2, <2>1, CountedIs, HourIs DEF WithinTheHour
  <1> QED
    BY <1>6, <1>7, <1>8

\* An hour passes for what was sent and for what was written of it alike.
LEMMA TickHour ==
    ASSUME QueueInv, HourInv, Tick
    PROVE  HourInv'
  <1>0. setting' = setting /\ accepted' = {[a EXCEPT !.age = Less(a.age)] : a \in accepted}
    BY DEF Tick
  <1> SUFFICES ASSUME ~setting.outlives PROVE (TakenOnce /\ AllWritten /\ WithinTheHour)'
    BY <1>0 DEF HourInv
  <1>1. TakenOnce /\ AllWritten /\ WithinTheHour
    BY DEF HourInv
  <1>2. \A e \in Emails : rows'[e].sent = rows[e].sent /\ rows'[e].viaGmail = rows[e].viaGmail
                          /\ rows'[e].fresh = Less(rows[e].fresh)
    <2> TAKE e \in Emails
    <2> DEFINE r == rows[e]
               wait == Less(r.wait)
               lease == Less(r.lease)
               fresh == Less(r.fresh)
    <2>1. rows'[e] = [r EXCEPT !.wait = wait, !.lease = lease, !.fresh = fresh] /\ r \in Row
      BY DEF Tick, QueueInv, TypeOK
    <2> HIDE DEF wait, lease, fresh, r
    <2>2. rows'[e].sent = r.sent /\ rows'[e].viaGmail = r.viaGmail /\ rows'[e].fresh = fresh
      BY <2>1 DEF Row
    <2> QED
      BY <2>2 DEF r, fresh
  <1>3. \A e : (SaidSent(e)' <=> SaidSent(e)) /\ (InHand(e)' <=> InHand(e))
    BY TickPasses DEF SaidSent, InHand
  <1>4. ASSUME NEW b \in ByMailgun'
        PROVE  \E a \in ByMailgun : b = [a EXCEPT !.age = Less(a.age)] /\ b.email = a.email /\ b.age = Less(a.age)
    <2>1. PICK a \in accepted : b = [a EXCEPT !.age = Less(a.age)]
      BY <1>0, <1>4 DEF ByMailgun
    <2> DEFINE age == Less(a.age)
    <2>2. b = [a EXCEPT !.age = age]
      BY <2>1
    <2> HIDE DEF age
    <2>3. a \in Taken
      BY DEF QueueInv, TypeOK, Taken
    <2>4. b.email = a.email /\ b.road = a.road /\ b.age = age
      BY <2>2, <2>3 DEF Taken
    <2>5. b.road = "mailgun"
      BY <1>4 DEF ByMailgun
    <2> QED
      BY <2>1, <2>4, <2>5 DEF ByMailgun, age
  <1>5. TakenOnce'
    <2> SUFFICES ASSUME NEW b \in ByMailgun', NEW c \in ByMailgun', b.email = c.email PROVE b = c
      BY DEF TakenOnce
    <2>1. PICK a \in ByMailgun : b = [a EXCEPT !.age = Less(a.age)] /\ b.email = a.email
      BY <1>4
    <2>2. PICK d \in ByMailgun : c = [d EXCEPT !.age = Less(d.age)] /\ c.email = d.email
      BY <1>4
    <2>3. a = d
      BY <1>1, <2>1, <2>2 DEF TakenOnce
    <2> QED
      BY <2>1, <2>2, <2>3
  <1>6. AllWritten'
    <2> SUFFICES ASSUME NEW b \in ByMailgun' PROVE (b.email \notin setting.gmail /\ WrittenDown(b))'
      BY DEF AllWritten
    <2>1. PICK a \in ByMailgun : b.email = a.email /\ b.age = Less(a.age)
      BY <1>4
    <2>2. a.email \notin setting.gmail /\ WrittenDown(a) /\ a.email \in Emails /\ a.age \in Nat
      BY <1>1, AcceptedIs DEF AllWritten, ByMailgun
    <2>3. a.age =< rows[a.email].fresh => Less(a.age) =< Less(rows[a.email].fresh)
      BY <2>2, FreshIs DEF Less
    <2> QED
      BY <1>0, <1>2, <1>3, <2>1, <2>2, <2>3 DEF WrittenDown
  <1>7. WithinTheHour'
    <2>1. \A e \in Emails : Less(rows[e].fresh) > 0 => rows[e].fresh > 0
      BY FreshIs DEF Less
    <2>2. Counted' \subseteq Counted
      BY <1>0, <1>2, <1>3, <2>1 DEF Counted, Counts
    <2> QED
      BY <1>0, <1>1, <2>2, CountedIs, HourIs DEF WithinTheHour
  <1> QED
    BY <1>5, <1>6, <1>7

\* Nobody has written of a held row, or is about to, but the worker that holds it.
LEMMA OfAHeldRow ==
    ASSUME QueueInv, ~setting.outlives, AllWritten, NEW w \in Workers, NEW e \in batch[w].left,
           NEW a \in ByMailgun, a.email = e
    PROVE  batch[w].row = e /\ batch[w].result.outcome = "sent" /\ batch[w].result.by = "mailgun"
  <1>1. ~rows[e].sent
    BY HeldRowIs
  <1>2. SaidSent(e)
    BY <1>1 DEF AllWritten, WrittenDown
  <1>3. PICK v \in Workers : /\ batch[v].row = e
                             /\ batch[v].result.outcome = "sent" /\ batch[v].result.by = "mailgun"
    BY <1>2 DEF SaidSent
  <1>4. e \in Emails
    BY HeldRowIs
  <1>5. e \in batch[v].left
    BY <1>3, <1>4, NumbersAre DEF QueueInv, BatchFits
  <1>6. v = w
    BY <1>5 DEF QueueInv, OneWorkerPerRow
  <1> QED
    BY <1>3, <1>6

\* A provider takes a message: on Mailgun's road it is the row's first, and this worker's to write.
LEMMA SendHour ==
    ASSUME QueueInv, HourInv, NEW w \in Workers, Send(w)
    PROVE  HourInv'
  <1>0. PICK e \in batch[w].left : \E call \in Calls(batch[w], e) :
             /\ batch[w].row = Nothing
             /\ batch'[w].left = batch[w].left /\ batch'[w].carrying = batch[w].carrying
             /\ batch'[w].row = e /\ batch'[w].result = call.result
             /\ \A v \in Workers \ {w} : batch'[v] = batch[v]
             /\ accepted' = accepted \cup AcceptedBy(batch[w], e, call)
             /\ rows' = rows /\ setting' = setting
    BY SendAsks
  <1>1. PICK call \in Calls(batch[w], e) :
             /\ batch[w].row = Nothing
             /\ batch'[w].left = batch[w].left /\ batch'[w].carrying = batch[w].carrying
             /\ batch'[w].row = e /\ batch'[w].result = call.result
             /\ \A v \in Workers \ {w} : batch'[v] = batch[v]
             /\ accepted' = accepted \cup AcceptedBy(batch[w], e, call)
             /\ rows' = rows /\ setting' = setting
    BY <1>0
  <1> SUFFICES ASSUME ~setting.outlives PROVE (TakenOnce /\ AllWritten /\ WithinTheHour)'
    BY <1>1 DEF HourInv
  <1>2. TakenOnce /\ AllWritten /\ WithinTheHour
    BY DEF HourInv
  <1>3. /\ \A x : InHand(x)' => InHand(x)
        /\ \A x : x # batch[w].row /\ SaidSent(x) => SaidSent(x)'
    BY <1>1, HandsEmpty
  <1>4. e \in Emails /\ e # Nothing
    BY HeldRowIs, NumbersAre
  <1>5. \A a \in ByMailgun : a.email # e /\ a.email # Nothing
    BY <1>1, <1>2, <1>4, OfAHeldRow, AcceptedIs, NumbersAre DEF ByMailgun
  <1>6. ASSUME NEW b \in ByMailgun', b \notin ByMailgun
        PROVE  b.email = e /\ e \notin setting.gmail /\ SaidSent(e)' /\ AcceptedBy(batch[w], e, call) = {b}
    <2>1. b \in AcceptedBy(batch[w], e, call) /\ b.road = "mailgun"
      BY <1>1, <1>6 DEF ByMailgun
    <2>2. /\ Took(call) /\ b.email = e /\ AcceptedBy(batch[w], e, call) = {b}
          /\ b.road = IF call.gmail \in {"taken", "lost"} THEN "gmail"
                      ELSE IF call.mailgun = "lost" THEN "lost"
                      ELSE IF OnGmailRoad(e) THEN "spilled" ELSE "mailgun"
      BY <2>1 DEF AcceptedBy
    <2>3. call.gmail \notin {"taken", "lost"} /\ call.mailgun # "lost" /\ e \notin setting.gmail
      BY <2>1, <2>2 DEF OnGmailRoad
    <2>4. call.result.outcome = "sent" /\ call.result.by = "mailgun"
      BY <2>2, <2>3, CallSays, RestStays
    <2>5. SaidSent(e)'
      BY <1>1, <2>4 DEF SaidSent
    <2> QED
      BY <2>2, <2>3, <2>5
  <1>7. TakenOnce'
    <2> SUFFICES ASSUME NEW b \in ByMailgun', NEW c \in ByMailgun', b.email = c.email PROVE b = c
      BY DEF TakenOnce
    <2>1. CASE b \in ByMailgun /\ c \in ByMailgun
      BY <1>2, <2>1 DEF TakenOnce
    <2>2. CASE b \notin ByMailgun /\ c \in ByMailgun
      BY <1>5, <1>6, <2>2
    <2>3. CASE b \in ByMailgun /\ c \notin ByMailgun
      BY <1>5, <1>6, <2>3
    <2>4. CASE b \notin ByMailgun /\ c \notin ByMailgun
      <3>1. AcceptedBy(batch[w], e, call) = {b} /\ AcceptedBy(batch[w], e, call) = {c}
        BY <1>6, <2>4
      <3> QED
        BY <3>1
    <2> QED
      BY <2>1, <2>2, <2>3, <2>4
  <1>8. AllWritten'
    <2> SUFFICES ASSUME NEW b \in ByMailgun' PROVE (b.email \notin setting.gmail /\ WrittenDown(b))'
      BY DEF AllWritten
    <2>1. CASE b \in ByMailgun
      <3>1. b.email \notin setting.gmail /\ WrittenDown(b) /\ b.email # batch[w].row
        BY <1>1, <1>2, <1>5, <2>1 DEF AllWritten
      <3> QED
        BY <1>1, <1>3, <3>1 DEF WrittenDown
    <2>2. CASE b \notin ByMailgun
      BY <1>1, <1>6, <2>2 DEF WrittenDown
    <2> QED
      BY <2>1, <2>2
  <1>9. WithinTheHour'
    <2>1. Counted' \subseteq Counted
      BY <1>1, <1>3 DEF Counted, Counts
    <2> QED
      BY <1>1, <1>2, <2>1, CountedIs, HourIs DEF WithinTheHour
  <1> QED
    BY <1>7, <1>8, <1>9

\* What the hour is charged with is what a claim counts.
LEMMA CountedByAClaim ==
    ASSUME QueueInv, ~setting.outlives
    PROVE  Counted \subseteq SentInWindow \cup InFlight
  <1> SUFFICES ASSUME NEW e \in Emails, Counts(e) PROVE e \in SentInWindow \cup InFlight
    BY DEF Counted
  <1>1. CASE rows[e].fresh > 0 /\ ~rows[e].viaGmail
    BY <1>1 DEF SentInWindow
  <1>2. CASE e \notin setting.gmail /\ InHand(e)
    <2>1. rows[e].status = "PROCESSING" /\ rows[e].lease > 0
      BY <1>2 DEF InHand, QueueInv, Leased
    <2> QED
      BY <1>2, <2>1 DEF InFlight, OnMailgunRoad
  <1> QED
    BY <1>1, <1>2 DEF Counts

LEMMA ClaimFitsTheHour ==
    ASSUME QueueInv, ~setting.outlives, WithinTheHour,
           NEW stop, NEW wanted \in SUBSET Emails, NEW bulkRoom \in Nat
    PROVE  LET mine == MailgunClaim(stop, wanted, bulkRoom)
           IN IsFiniteSet(mine) /\ Cardinality(Counted \cup mine) =< setting.hour
  <1> DEFINE mine == MailgunClaim(stop, wanted, bulkRoom)
             spent == setting.hour - Cardinality(SentInWindow) - Cardinality(InFlight)
             open == ~Carried(stop) /\ stop.kind # "paused"
             room == IF open THEN HourRoom ELSE 0
             due == {e \in wanted : Due(e) /\ OnMailgunRoad(e)}
  <1>1. /\ IsFiniteSet(SentInWindow) /\ IsFiniteSet(InFlight)
        /\ Cardinality(SentInWindow) \in Nat /\ Cardinality(InFlight) \in Nat
    <2>1. SentInWindow \in SUBSET Emails /\ InFlight \in SUBSET Emails
      BY DEF SentInWindow, InFlight
    <2> QED
      BY <2>1, NumbersAre, FS_Subset, FS_CardinalityType
  <1>2. setting.hour \in Nat /\ spent \in Int
    BY <1>1, HourIs
  <1>3. HourRoom \in {0, spent} /\ 0 =< HourRoom
    <2>1. HourRoom = Max({0, spent})
      BY DEF HourRoom
    <2> HIDE DEF spent
    <2>2. {0, spent} \in SUBSET Int /\ {0, spent} # {}
      BY <1>2
    <2>3. IsFiniteSet({0, spent})
      BY PairIsFinite
    <2> QED
      BY <2>1, <2>2, <2>3, GreatestIsOne
  <1>4. room \in Nat /\ (room = 0 \/ room = spent)
    <2> HIDE DEF spent
    <2> QED
      BY <1>2, <1>3
  <1>5. IsFiniteSet(mine) /\ Cardinality(mine) =< room /\ Cardinality(mine) \in Nat
    <2>1. mine = RoadClaim(due, room, bulkRoom)
      BY DEF MailgunClaim
    <2>2. due \in SUBSET Emails /\ setting \in Settings
      BY RestStays
    <2> HIDE DEF due, room, mine
    <2> QED
      BY <1>4, <2>1, <2>2, RoadClaimFits, FS_CardinalityType
  <1> HIDE DEF mine, room
  <1>6. IsFiniteSet(Counted) /\ Cardinality(Counted) \in Nat
        /\ Cardinality(Counted) =< Cardinality(SentInWindow) + Cardinality(InFlight)
    <2> DEFINE both == SentInWindow \cup InFlight
    <2>1. IsFiniteSet(both) /\ Cardinality(both) \in Nat
          /\ Cardinality(both) =< Cardinality(SentInWindow) + Cardinality(InFlight)
      BY <1>1, UnionIsSmall
    <2>2. Counted \in SUBSET both
      BY CountedByAClaim
    <2> HIDE DEF both
    <2>3. IsFiniteSet(Counted) /\ Cardinality(Counted) \in Nat /\ Cardinality(Counted) =< Cardinality(both)
      BY <2>1, <2>2, FS_Subset, FS_CardinalityType
    <2> QED
      BY <1>1, <2>1, <2>3
  <1>7. /\ Cardinality(Counted \cup mine) =< Cardinality(Counted) + Cardinality(mine)
        /\ Cardinality(Counted \cup mine) \in Nat
    BY <1>5, <1>6, UnionIsSmall
  <1>8. ASSUME room = 0 PROVE Cardinality(Counted \cup mine) =< setting.hour
    BY <1>2, <1>5, <1>6, <1>7, <1>8 DEF WithinTheHour
  <1>9. ASSUME room = spent PROVE Cardinality(Counted \cup mine) =< setting.hour
    BY <1>1, <1>2, <1>5, <1>6, <1>7, <1>9
  <1> QED
    BY <1>4, <1>5, <1>8, <1>9 DEF mine

LEMMA ClaimHour ==
    ASSUME QueueInv, HourInv, NEW w \in Workers, NEW wanted \in SUBSET Emails, NEW bulkRoom \in Nat,
           Claim(w, wanted, bulkRoom)
    PROVE  HourInv'
  <1> DEFINE stop == StopInForce
             mail == MailgunClaim(stop, wanted, bulkRoom)
             mine == mail \cup GmailClaim(stop, wanted)
             ours == IF Carried(stop) THEN {} ELSE mail
  <1>0. batch[w] = Idle
    BY DEF Claim
  <1>1. /\ batch'[w].left = mine
        /\ batch'[w].carrying = IF mine # {} /\ Carried(stop) THEN stop.kind ELSE "none"
        /\ \A v \in Workers \ {w} : batch'[v] = batch[v]
        /\ setting' = setting /\ accepted' = accepted
    BY ClaimTakes
  <1>2. SameSending
    <2>1. \A x \in Emails : \/ rows'[x] = ClaimRow(rows[x])
                            \/ rows'[x] = [rows[x] EXCEPT !.wait = AllowanceFor]
                            \/ rows'[x] = rows[x]
      BY DEF Claim
    <2>2. \A x \in Emails : rows[x] \in Row
      BY RowIs
    <2> QED
      BY <2>1, <2>2 DEF SameSending, ClaimRow, Row
  <1>3. \A e \in Emails : SaidSent(e) => SaidSent(e)'
    <2> SUFFICES ASSUME NEW e \in Emails, SaidSent(e) PROVE SaidSent(e)'
      OBVIOUS
    <2>1. PICK v \in Workers : /\ batch[v].row = e
                               /\ batch[v].result.outcome = "sent" /\ batch[v].result.by = "mailgun"
      BY DEF SaidSent
    <2>2. v # w
      BY <1>0, <2>1, IdleIs, NumbersAre
    <2> QED
      BY <1>1, <2>1, <2>2 DEF SaidSent
  <1> HIDE DEF stop
  <1>4. ASSUME NEW e, InHand(e)', e \notin setting.gmail PROVE InHand(e) \/ e \in ours
    <2>1. PICK v \in Workers : e \in batch'[v].left /\ batch'[v].carrying = "none"
      BY <1>4 DEF InHand
    <2>2. CASE v # w
      BY <1>1, <2>1, <2>2 DEF InHand
    <2>3. CASE v = w
      <3>1. e \in mine
        BY <1>1, <2>1, <2>3
      <3>2. ~Carried(stop)
        <4> HIDE DEF mine
        <4> QED
          BY <1>1, <2>1, <2>3, <3>1 DEF Carried
      <3>3. GmailClaim(stop, wanted) \subseteq setting.gmail
        BY <3>2, GmailsOwn
      <3> QED
        BY <1>4, <3>1, <3>2, <3>3
    <2> QED
      BY <2>2, <2>3
  <1> SUFFICES ASSUME ~setting.outlives PROVE (TakenOnce /\ AllWritten /\ WithinTheHour)'
    BY <1>1 DEF HourInv
  <1>5. TakenOnce /\ AllWritten /\ WithinTheHour
    BY DEF HourInv
  <1>6. ByMailgun' = ByMailgun
    BY <1>1 DEF ByMailgun
  <1>7. TakenOnce'
    BY <1>5, <1>6 DEF TakenOnce
  <1>8. AllWritten'
    <2> SUFFICES ASSUME NEW a \in ByMailgun PROVE (a.email \notin setting.gmail /\ WrittenDown(a))'
      BY <1>6 DEF AllWritten
    <2>1. a.email \in Emails /\ a.email \notin setting.gmail /\ WrittenDown(a)
      BY <1>5, AcceptedIs DEF AllWritten, ByMailgun
    <2> QED
      BY <1>1, <1>2, <1>3, <2>1 DEF WrittenDown, SameSending
  <1>9. WithinTheHour'
    <2> DEFINE charged == Counted \cup mail
               after == Counted'
    <2>1. IsFiniteSet(mail) /\ Cardinality(charged) =< setting.hour
      BY <1>5, ClaimFitsTheHour
    <2>2. IsFiniteSet(charged) /\ Cardinality(charged) \in Nat
      BY <2>1, CountedIs, UnionIsSmall
    <2>3. after \in SUBSET charged
      <3> SUFFICES ASSUME NEW e \in Emails, Counts(e)' PROVE Counts(e) \/ e \in mail
        BY DEF Counted
      <3>1. e \notin setting.gmail /\ ((rows[e].fresh > 0 /\ ~rows[e].viaGmail) \/ InHand(e)')
        BY <1>1, <1>2 DEF Counts, SameSending
      <3> QED
        BY <1>4, <3>1 DEF Counts
    <2> HIDE DEF charged, after
    <2>4. Cardinality(after) =< Cardinality(charged) /\ Cardinality(after) \in Nat
      BY <2>2, <2>3, FS_Subset, FS_CardinalityType
    <2>5. Cardinality(after) =< setting.hour
      BY <2>1, <2>2, <2>4, HourIs
    <2> QED
      BY <1>1, <2>5 DEF WithinTheHour, after
  <1> QED
    BY <1>7, <1>8, <1>9

\* An outcome writes a row's sending only when the message was sent.
LEMMA OutcomeSends ==
    ASSUME NEW r \in Row, NEW b \in Batch, NEW e
    PROVE  LET o == Outcome(r, b, e)
           IN /\ b.result.outcome = "sent"
                   => o.sent /\ o.fresh = PaceWindow /\ o.viaGmail = (b.result.by = "gmail")
              /\ b.result.outcome # "sent"
                   => o.sent = r.sent /\ o.fresh = r.fresh /\ o.viaGmail = r.viaGmail
  <1> DEFINE out == b.result.outcome
             o == Outcome(r, b, e)
             same(c) == c.sent = r.sent /\ c.fresh = r.fresh /\ c.viaGmail = r.viaGmail
  <1>1. CASE out = "sent"
    <2>1. o = [r EXCEPT !.status = "SENT", !.lease = 0, !.wait = 0, !.mark = "none",
                        !.fresh = PaceWindow, !.sent = TRUE, !.viaGmail = (b.result.by = "gmail")]
      BY <1>1 DEF Outcome
    <2> QED
      BY <1>1, <2>1 DEF Row
  <1>2. ASSUME NEW t, NEW n PROVE same(GivenBack(r, t, n))
    BY DEF GivenBack, Row
  <1>3. ASSUME NEW t, NEW n, NEW m PROVE same([GivenBack(r, t, n) EXCEPT !.mark = m])
    BY DEF GivenBack, Row
  <1>4. ASSUME NEW n, NEW m PROVE same([[r EXCEPT !.status = "PENDING", !.lease = 0] EXCEPT !.wait = n, !.mark = m])
    BY DEF Row
  <1>5. ASSUME NEW status PROVE same([r EXCEPT !.status = status, !.lease = 0, !.wait = 0, !.mark = "none"])
    BY DEF Row
  <1>6. ASSUME out # "sent" PROVE same(o)
    <2>1. CASE out = "full" /\ b.carrying # "none"
      <3>1. o = [GivenBack(r, b.tries[e], Min({1, b.until})) EXCEPT !.mark = "waitsForGmail"]
        BY <2>1 DEF Outcome
      <3> QED
        BY <1>3, <3>1
    <2>2. CASE out = "full" /\ b.carrying = "none"
      <3>1. o = [[r EXCEPT !.status = "PENDING", !.lease = 0] EXCEPT !.wait = AllowanceFor, !.mark = "none"]
        BY <2>2 DEF Outcome
      <3> QED
        BY <1>4, <3>1
    <2>3. CASE out = "paced"
      <3>1. o = GivenBack(r, b.tries[e], 1)
        BY <2>3 DEF Outcome
      <3> QED
        BY <1>2, <3>1
    <2>4. CASE out = "ratePaused"
      <3>1. o = [GivenBack(r, b.tries[e], PauseFor) EXCEPT !.mark = "paused"]
        BY <2>4 DEF Outcome
      <3> QED
        BY <1>3, <3>1
    <2>5. CASE out = "allowance"
      <3>1. o = [[r EXCEPT !.status = "PENDING", !.lease = 0] EXCEPT !.wait = AllowanceFor, !.mark = "allowance"]
        BY <2>5 DEF Outcome
      <3> QED
        BY <1>4, <3>1
    <2>6. CASE out = "transient"
      <3>1. o = [[r EXCEPT !.status = "PENDING", !.lease = 0]
                   EXCEPT !.wait = Backoff(b.tries[e]), !.mark = "none"]
        BY <2>6 DEF Outcome
      <3> QED
        BY <1>4, <3>1
    <2>7. CASE out = "refused"
      <3>1. o = [r EXCEPT !.status = "BOUNCED", !.lease = 0, !.wait = 0, !.mark = "none"]
        BY <2>7 DEF Outcome
      <3> QED
        BY <1>5, <3>1
    <2>8. CASE out \notin {"sent", "full", "paced", "ratePaused", "allowance", "transient", "refused"}
      <3>1. o = [r EXCEPT !.status = "FAILED", !.lease = 0, !.wait = 0, !.mark = "none"]
        BY <2>8 DEF Outcome
      <3> QED
        BY <1>5, <3>1
    <2> QED
      BY <1>6, <2>1, <2>2, <2>3, <2>4, <2>5, <2>6, <2>7, <2>8
  <1> QED
    BY <1>1, <1>6

\* What a worker carried it goes on carrying.
LEMMA AfterRecordCarries ==
    ASSUME NEW b \in Batch
    PROVE  AfterRecord(b).carrying = "none" => b.carrying = "none"
  <1> DEFINE h == Heard(b, Announced(b))
             kept == h.kept \/ Relabels(b)
             behind == h.behind /\ ~AskedForAPause(b)
             c == [h EXCEPT !.row = Nothing, !.result = NoResult, !.kept = kept, !.behind = behind]
  <1>1. h \in Batch
    BY AfterRecordIs, HeardIs
  <1>2. h.carrying = "none" => b.carrying = "none"
    BY DEF Heard, Batch
  <1>3. AfterRecord(b) = c
    BY DEF AfterRecord
  <1> HIDE DEF h, kept, behind
  <1>4. c.carrying = h.carrying
    BY <1>1 DEF Batch
  <1> QED
    BY <1>2, <1>3, <1>4

\* The worker writes down what it sent, of a row the hour was charged with already.
LEMMA RecordHour ==
    ASSUME QueueInv, RoadsKnown, HourInv, NEW w \in Workers, Record(w)
    PROVE  HourInv'
  <1> DEFINE b == batch[w]
             e == b.row
             r == Written(rows[e], b, e)
             bySent == b.result.outcome = "sent"
  <1>1. /\ b \in Batch /\ e \in b.left /\ e \in Emails
        /\ batch'[w] = Without(AfterRecord(b), e)
        /\ \A v \in Workers \ {w} : \/ batch'[v] = batch[v]
                                    \/ batch'[v] = [batch[v] EXCEPT !.behind = TRUE]
    BY RecordEnds, HeldRowIs
  <1>2. setting' = setting /\ accepted' = accepted /\ rows' = [rows EXCEPT ![e] = r]
    BY DEF Record, SetRow
  <1> SUFFICES ASSUME ~setting.outlives PROVE (TakenOnce /\ AllWritten /\ WithinTheHour)'
    BY <1>2 DEF HourInv
  <1>3. TakenOnce /\ AllWritten /\ WithinTheHour
    BY DEF HourInv
  <1>4. rows \in [Emails -> Row] /\ rows[e] \in Row /\ rows[e].status = "PROCESSING"
    BY <1>1, HeldRowIs DEF QueueInv, TypeOK
  <1>5. r = Outcome(rows[e], b, e)
    BY <1>4 DEF Written
  <1>6. /\ bySent => r.sent /\ r.fresh = PaceWindow /\ r.viaGmail = (b.result.by = "gmail")
        /\ ~bySent => r.sent = rows[e].sent /\ r.fresh = rows[e].fresh /\ r.viaGmail = rows[e].viaGmail
    BY <1>1, <1>4, <1>5, OutcomeSends
  <1> HIDE DEF r
  <1>7. rows'[e] = r /\ \A x \in Emails \ {e} : rows'[x] = rows[x]
    BY <1>1, <1>2, <1>4
  <1>8. /\ \A x : InHand(x)' => InHand(x)
        /\ \A x : x # e /\ SaidSent(x) => SaidSent(x)'
    <2>1. AfterRecord(b) \in Batch /\ AfterRecord(b).left = b.left
      BY <1>1, AfterRecordIs
    <2>2. batch'[w].left \subseteq b.left
      BY <1>1, <2>1, WithoutSays
    <2>3. batch'[w].left # {} /\ batch'[w].carrying = "none" => b.carrying = "none"
      BY <1>1, <2>1, WithoutSays, AfterRecordCarries
    <2>4. \A c \in Batch : LET d == [c EXCEPT !.behind = TRUE]
                           IN d.left = c.left /\ d.carrying = c.carrying /\ d.row = c.row /\ d.result = c.result
      BY DEF Batch
    <2>5. \A v \in Workers \ {w} : /\ batch'[v].left = batch[v].left /\ batch'[v].carrying = batch[v].carrying
                                   /\ batch'[v].row = batch[v].row /\ batch'[v].result = batch[v].result
      BY <1>1, <2>4 DEF QueueInv, TypeOK
    <2> QED
      BY <2>2, <2>3, <2>5, HandsEmpty
  <1>9. ByMailgun' = ByMailgun
    BY <1>2 DEF ByMailgun
  <1>10. TakenOnce'
    BY <1>3, <1>9 DEF TakenOnce
  <1>11. AllWritten'
    <2> SUFFICES ASSUME NEW a \in ByMailgun PROVE (a.email \notin setting.gmail /\ WrittenDown(a))'
      BY <1>9 DEF AllWritten
    <2>1. /\ a.email \in Emails /\ a.email \notin setting.gmail /\ WrittenDown(a)
          /\ a.age \in 0..PaceWindow /\ a.age =< PaceWindow
      BY <1>3, AcceptedIs, NumbersAre DEF AllWritten, ByMailgun
    <2>2. CASE a.email = e
      <3>1. bySent /\ b.result.by = "mailgun"
        BY <1>1, <1>3, <2>2, OfAHeldRow
      <3>2. rows'[a.email].sent /\ a.age =< rows'[a.email].fresh /\ ~rows'[a.email].viaGmail
        BY <1>6, <1>7, <2>1, <2>2, <3>1
      <3> QED
        BY <1>2, <2>1, <3>2 DEF WrittenDown
    <2>3. CASE a.email # e
      <3>1. rows'[a.email] = rows[a.email]
        BY <1>7, <2>1, <2>3
      <3>2. SaidSent(a.email) => SaidSent(a.email)'
        BY <1>8, <2>3
      <3> QED
        BY <1>2, <2>1, <3>1, <3>2 DEF WrittenDown
    <2> QED
      BY <2>2, <2>3
  <1>12. WithinTheHour'
    <2>1. Counted' \subseteq Counted
      <3> SUFFICES ASSUME NEW x \in Emails, Counts(x)' PROVE Counts(x)
        BY DEF Counted
      <3>1. x \notin setting.gmail /\ ((rows'[x].fresh > 0 /\ ~rows'[x].viaGmail) \/ InHand(x))
        BY <1>2, <1>8 DEF Counts
      <3>2. CASE x # e \/ ~bySent
        <4>1. rows'[x].fresh = rows[x].fresh /\ rows'[x].viaGmail = rows[x].viaGmail
          BY <1>6, <1>7, <3>2
        <4> QED
          BY <3>1, <4>1 DEF Counts
      <3>3. CASE x = e /\ bySent /\ b.result.by = "gmail"
        <4>1. rows'[x].viaGmail = TRUE
          BY <1>6, <1>7, <3>3
        <4> QED
          BY <3>1, <4>1 DEF Counts
      <3>4. CASE x = e /\ bySent /\ b.result.by # "gmail"
        <4>1. b.result.by = "mailgun" /\ e # Nothing
          BY <1>1, <3>4, NumbersAre DEF Batch, Result
        <4>2. b.carrying = "none"
          BY <3>4, <4>1 DEF RoadsKnown, KnowsItsRoad
        <4>3. InHand(x)
          BY <1>1, <3>4, <4>2 DEF InHand
        <4> QED
          BY <3>1, <4>3 DEF Counts
      <3> QED
        BY <3>2, <3>3, <3>4
    <2> QED
      BY <1>2, <1>3, <2>1, CountedIs, HourIs DEF WithinTheHour
  <1> QED
    BY <1>10, <1>11, <1>12

LEMMA StepHour == QueueInv /\ RoadsKnown /\ HourInv /\ [Next]_vars => HourInv'
  <1> SUFFICES ASSUME QueueInv, RoadsKnown, HourInv, [Next]_vars PROVE HourInv'
    OBVIOUS
  <1>1. ASSUME ~(\E w \in Workers : Work(w) \/ Crash(w)), ~Tick,
               ~(\E w \in Workers : \E wanted \in SUBSET Emails : \E bulkRoom \in 0..AllBulk : Claim(w, wanted, bulkRoom))
        PROVE  HourInv'
    <2>1. batch' = batch /\ setting' = setting /\ accepted' = accepted
      BY <1>1, BatchesAreLeft
    <2>2. SameSending
      <3>1. \A e \in Emails : rows[e] \in Row
        BY RowIs
      <3>2. rows \in [Emails -> Row]
        BY DEF QueueInv, TypeOK
      <3>3. ASSUME NEW e \in Emails, NEW r, SetRow(e, r),
                   r.sent = rows[e].sent, r.fresh = rows[e].fresh, r.viaGmail = rows[e].viaGmail
            PROVE  SameSending
        BY <3>2, <3>3 DEF SetRow, SameSending
      <3>4. CASE \E e \in Emails : Enqueue(e) \/ ReplaceRow(e)
        BY <3>1, <3>3, <3>4 DEF Enqueue, ReplaceRow, Row
      <3>5. CASE RetryFailed
        BY <3>1, <3>5 DEF RetryFailed, SameSending, Row
      <3>6. CASE \E e \in Emails, v \in {"BOUNCED", "COMPLAINED"} : MailgunSays(e, v)
        BY <3>1, <3>3, <3>6 DEF MailgunSays, Row
      <3>7. CASE UNCHANGED vars
        BY <3>7 DEF vars, SameSending
      <3>8. \A w \in Workers, bulkRoom \in 0..AllBulk : ~ScheduledClaim(w, bulkRoom)
        BY <1>1 DEF ScheduledClaim
      <3>9. \A w \in Workers, e \in Emails : ~PressClaim(w, e)
        <4>1. AllBulk \in 0..AllBulk
          BY AllBulkIs, RestStays
        <4> QED
          BY <1>1, <4>1 DEF PressClaim
      <3> QED
        BY <1>1, <3>4, <3>5, <3>6, <3>7, <3>8, <3>9 DEF Next
    <2> QED
      BY <2>1, <2>2, RowOnlyHour
  <1>2. 0..AllBulk \subseteq Nat
    OBVIOUS
  <1> QED
    BY <1>1, <1>2, WorkIs, LetsGoHour, SendHour, RecordHour, CrashHour, ClaimHour, TickHour

\* Mailgun's own road stays within its hour, however many workers claim and whatever they hold,
\* as long as no run outlives its lease.
THEOREM HourNotOverrunHolds == Spec => []HourNotOverrun
  <1>1. Init => HourInv
    <2> SUFFICES ASSUME Init PROVE TakenOnce /\ AllWritten /\ WithinTheHour
      BY DEF HourInv
    <2>1. ByMailgun = {}
      BY DEF Init, ByMailgun
    <2>2. Counted = {}
      BY IdleIs DEF Init, Counted, Counts, InHand
    <2>3. setting.hour \in Nat
      BY InitFits, HourIs
    <2> QED
      BY <2>1, <2>2, <2>3, FS_EmptySet DEF TakenOnce, AllWritten, WithinTheHour
  <1>2. QueueInv /\ RoadsKnown /\ HourInv => HourNotOverrun
    <2> SUFFICES ASSUME QueueInv, RoadsKnown, HourInv, ~setting.outlives
                 PROVE  Cardinality({a \in accepted : a.age > 0 /\ a.road = "mailgun"}) =< setting.hour
      BY DEF HourNotOverrun
    <2>1. TakenOnce /\ AllWritten /\ WithinTheHour
      BY DEF HourInv
    <2> DEFINE inTheHour == {a \in accepted : a.age > 0 /\ a.road = "mailgun"}
               rowOf == [a \in inTheHour |-> a.email]
    <2>2. ASSUME NEW a \in inTheHour PROVE a \in ByMailgun /\ a.email \in Counted
      <3>1. a \in ByMailgun /\ a.age > 0 /\ a.email \in Emails /\ a.age \in Nat
        BY <2>2, AcceptedIs DEF ByMailgun
      <3>2. a.email \notin setting.gmail /\ WrittenDown(a)
        BY <2>1, <3>1 DEF AllWritten
      <3>3. CASE a.age =< rows[a.email].fresh /\ ~rows[a.email].viaGmail
        BY <3>1, <3>2, <3>3, FreshIs DEF Counted, Counts
      <3>4. CASE SaidSent(a.email)
        <4>1. PICK v \in Workers : /\ batch[v].row = a.email
                                   /\ batch[v].result.outcome = "sent" /\ batch[v].result.by = "mailgun"
          BY <3>4 DEF SaidSent
        <4>2. a.email \in batch[v].left /\ batch[v].carrying = "none"
          BY <3>1, <4>1, NumbersAre DEF QueueInv, BatchFits, RoadsKnown, KnowsItsRoad
        <4> QED
          BY <3>1, <3>2, <4>2 DEF Counted, Counts, InHand
      <3> QED
        BY <3>1, <3>2, <3>3, <3>4 DEF WrittenDown
    <2> HIDE DEF inTheHour
    <2>3. rowOf \in Injection(inTheHour, Counted)
      <3>1. \A a, b \in inTheHour : a.email = b.email => a = b
        BY <2>1, <2>2 DEF TakenOnce
      <3> QED
        BY <2>2, <3>1 DEF Injection, IsInjective
    <2> HIDE DEF rowOf
    <2>4. IsFiniteSet(inTheHour) /\ Cardinality(inTheHour) =< Cardinality(Counted)
      BY <2>3, CountedIs, FS_Injection
    <2>5. Cardinality(inTheHour) \in Nat
      BY <2>4, FS_CardinalityType
    <2> QED
      BY <2>1, <2>4, <2>5, CountedIs, HourIs DEF WithinTheHour, inTheHour
  <1> QED
    BY <1>1, <1>2, StepHour, Inductive, RoadsAreKnown, PTL DEF Spec

=============================================================================
