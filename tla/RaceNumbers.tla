----------------------------- MODULE RaceNumbers -----------------------------
(***************************************************************************)
(* The race numbers of one event.  Every number is given under the event   *)
(* row's lock, after two reads: the numbers rows and elite lines wear, and *)
(* the numbers the audit log retired.  An erasure takes no such lock: it   *)
(* writes its audit row, and later deletes the row.                        *)
(***************************************************************************)
EXTENDS Integers, Sequences

CONSTANTS Runners,          \* the registrations
          OutsideRunners,   \* those on the hidden list
          HiddenStart,   \* where the hidden list's own series begins; nought: it has none
          NumberMax,     \* bound: the ceiling of every series
          SparesMax      \* bound: SPARE_BIBS_MAX

ASSUME NumbersAssumption ==
  /\ HiddenStart \in Nat /\ NumberMax \in Nat /\ SparesMax \in Nat
  /\ 0 \notin Runners

VARIABLES row,       \* registrations: the status (ended: cancelled or expired), and the number each wears
          elite,     \* the numbers of the elite list
          retired,   \* the numbers of the audit log: erased with their row, or replaced by hand
          spare,     \* the desk's pre-printed numbers, and those a print stepped over
          giving,    \* the transaction that holds the event's lock
          erasing,   \* how far each erasure is, with the number its row had when it was read
          worn,      \* who ever wore each number
          lost       \* the numbers whose row changed under its erasure

numberVars == <<row, elite, retired, spare, giving, erasing, worn, lost>>

Numbers == 1..NumberMax
NoNumber == 0
RaceStart == 1
NotGiving == [kind |-> "none"]
NotErasing == [at |-> "none"]

NumbersTypeOK ==
  /\ row \in [Runners -> [status : {"entered", "CONFIRMED", "ended", "gone"}, bib : Numbers \cup {NoNumber}]]
  /\ elite \subseteq Numbers /\ retired \subseteq Numbers /\ lost \subseteq Numbers
  /\ spare.from \in 0..NumberMax /\ spare.to \in 0..NumberMax /\ spare.skipped \subseteq Numbers
  /\ giving.kind \in {"none", "draw", "hand", "set", "elite", "spares"}
  /\ \A r \in Runners : erasing[r].at \in {"none", "read", "recorded"}
  /\ worn \in [Numbers -> SUBSET Runners]

NumbersInit ==
  /\ row = [r \in Runners |-> [status |-> "entered", bib |-> NoNumber]]
  /\ elite = {} /\ retired = {} /\ spare = [from |-> 0, to |-> 0, skipped |-> {}]
  /\ giving = NotGiving /\ erasing = [r \in Runners |-> NotErasing]
  /\ worn = [n \in Numbers |-> {}] /\ lost = {}

-----------------------------------------------------------------------------
(* What is taken, and the next free number. *)

Band == IF spare.from = 0 THEN {} ELSE spare.from..spare.to

(* Mutant: the elite list is not read. *)
WornByRows(except) == {row[r].bib : r \in {q \in Runners \ except : row[q].status # "gone"}} \ {NoNumber}

WornNumbers(except) ==
  ({row[r].bib : r \in {q \in Runners \ except : row[q].status # "gone"}} \ {NoNumber}) \cup elite

(* Mutant: the audit log first. *)
AuditFirst == <<"audit", "rows">>

ReadOrder == <<"rows", "audit">>

SeriesBounds(r) ==
  LET hidden == HiddenStart # 0 /\ r \in OutsideRunners
  IN IF HiddenStart = 0 THEN [from |-> RaceStart, to |-> NumberMax]
     ELSE IF hidden THEN [from |-> HiddenStart, to |-> NumberMax]
     ELSE [from |-> RaceStart, to |-> HiddenStart - 1]

OpenNumbers(from, to, taken) == {n \in from..to : n \notin taken \cup Band}
Lowest(n, S) == n \in S /\ \A m \in S : n <= m

(* pickBibNumber: the lowest of the series, and past a full series the lowest beyond it. *)
PickBibNumber(r, taken, n) ==
  LET bounds == SeriesBounds(r)
      inSeries == OpenNumbers(bounds.from, bounds.to, taken)
  IN \/ Lowest(n, inSeries)
     \/ inSeries = {} /\ Lowest(n, OpenNumbers(bounds.to + 1, NumberMax, taken))

SpareStop == IF HiddenStart # 0 THEN HiddenStart - 1 ELSE NumberMax

(* nextSpareCandidates: after the highest number anybody has, then after the band's end. *)
NextSpare(taken, n) ==
  LET low == {m \in taken : m <= SpareStop}
      fresh == {m \in RaceStart..SpareStop : \A k \in low : k < m}
  IN Lowest(n, IF Band = {} THEN fresh ELSE {m \in (spare.to + 1)..SpareStop : m \notin taken})

-----------------------------------------------------------------------------
(* A transaction under the event's lock: it begins, reads twice, and commits or fails. *)

BeginGiving(kind, r, number) ==
  /\ giving = NotGiving
  /\ giving' = [kind |-> kind, row |-> r, number |-> number,
                seen |-> IF kind = "set" THEN row[r].bib ELSE NoNumber, taken |-> {}, reads |-> 0]
  /\ UNCHANGED <<row, elite, retired, spare, erasing, worn, lost>>

BeginDraw(r) == row[r].status = "entered" /\ row[r].bib = NoNumber /\ BeginGiving("draw", r, NoNumber)
BeginHand(r, n) == row[r].status = "entered" /\ row[r].bib = NoNumber /\ BeginGiving("hand", r, n)
BeginSet(r, n) == row[r].status = "CONFIRMED" /\ row[r].bib # n /\ BeginGiving("set", r, n)
BeginElite(n) == BeginGiving("elite", NoNumber, n)
BeginSpares == BeginGiving("spares", NoNumber, NoNumber)

Reads(what) ==
  IF what = "rows" THEN WornNumbers(IF giving.row = NoNumber THEN {} ELSE {giving.row})
  ELSE retired \cup (IF giving.kind = "spares" THEN spare.skipped ELSE {})

ReadNext ==
  /\ giving.kind # "none" /\ giving.reads < Len(ReadOrder)
  /\ giving' = [giving EXCEPT !.reads = @ + 1, !.taken = @ \cup Reads(ReadOrder[giving.reads + 1])]
  /\ UNCHANGED <<row, elite, retired, spare, erasing, worn, lost>>

Ready(kind) == giving.kind = kind /\ giving.reads = Len(ReadOrder)

Wears(r, n, status) ==
  /\ row' = [row EXCEPT ![r] = [status |-> status, bib |-> n]]
  /\ worn' = [worn EXCEPT ![n] = @ \cup {r}]

CommitDraw ==
  /\ Ready("draw") /\ row[giving.row].status = "entered"
  /\ \E n \in Numbers : PickBibNumber(giving.row, giving.taken, n) /\ Wears(giving.row, n, "CONFIRMED")
  /\ giving' = NotGiving /\ UNCHANGED <<elite, retired, spare, erasing, lost>>

CommitHand ==
  /\ Ready("hand") /\ row[giving.row].status = "entered"
  /\ giving.number \notin giving.taken
  /\ Wears(giving.row, giving.number, "CONFIRMED")
  /\ giving' = NotGiving /\ UNCHANGED <<elite, retired, spare, erasing, lost>>

(* The replaced number is retired by the same transaction's audit row. *)
CommitSet ==
  /\ Ready("set") /\ row[giving.row].status = "CONFIRMED" /\ row[giving.row].bib = giving.seen
  /\ giving.number \notin giving.taken \cup retired
  /\ Wears(giving.row, giving.number, "CONFIRMED")
  /\ retired' = retired \cup ({giving.seen} \ {NoNumber})
  /\ giving' = NotGiving /\ UNCHANGED <<elite, spare, erasing, lost>>

CommitElite ==
  /\ Ready("elite") /\ giving.number \notin giving.taken \cup Band
  /\ elite' = elite \cup {giving.number}
  /\ giving' = NotGiving /\ UNCHANGED <<row, retired, spare, erasing, worn, lost>>

CommitSpares ==
  /\ Ready("spares")
  /\ \E n \in Numbers :
       LET from == IF Band = {} THEN n ELSE spare.from
           stepped == IF Band = {} THEN {} ELSE (spare.to + 1)..(n - 1)
       IN /\ NextSpare(giving.taken, n) /\ n - from + 1 <= SparesMax
          /\ spare' = [from |-> from, to |-> n, skipped |-> spare.skipped \cup stepped]
  /\ giving' = NotGiving /\ UNCHANGED <<row, elite, retired, erasing, worn, lost>>

GivingFails ==
  /\ giving # NotGiving /\ giving' = NotGiving
  /\ UNCHANGED <<row, elite, retired, spare, erasing, worn, lost>>

-----------------------------------------------------------------------------
(* Around it. *)

CancelRow(r) ==
  /\ giving = NotGiving /\ row[r].status \in {"entered", "CONFIRMED"}
  /\ row' = [row EXCEPT ![r].status = "ended"]
  /\ UNCHANGED <<elite, retired, spare, giving, erasing, worn, lost>>

(* A row expires with what it waited for; an email's link lapses without the event's lock. *)
ExpireRow(r) ==
  /\ row[r].status = "entered" /\ (giving # NotGiving => giving.row # r)
  /\ row' = [row EXCEPT ![r].status = "ended"]
  /\ UNCHANGED <<elite, retired, spare, giving, erasing, worn, lost>>

(* A row that starts again keeps its number, and gets it back when it is confirmed. *)
RestartRow(r) ==
  /\ giving = NotGiving /\ row[r].status = "ended"
  /\ row' = [row EXCEPT ![r].status = "entered"]
  /\ UNCHANGED <<elite, retired, spare, giving, erasing, worn, lost>>

ConfirmKept(r) ==
  /\ giving = NotGiving /\ row[r].status = "entered" /\ row[r].bib # NoNumber
  /\ row' = [row EXCEPT ![r].status = "CONFIRMED"]
  /\ UNCHANGED <<elite, retired, spare, giving, erasing, worn, lost>>

DeleteEliteEntry(n) ==
  /\ n \in elite /\ elite' = elite \ {n}
  /\ UNCHANGED <<row, retired, spare, giving, erasing, worn, lost>>

(* eraseRegistration, from the row its caller read: cancelled unless it has ended already,
   recorded, deleted. *)
ReadForErasure(r) ==
  /\ erasing[r] = NotErasing /\ row[r].status # "gone"
  /\ erasing' = [erasing EXCEPT ![r] = [at |-> "read", bib |-> row[r].bib]]
  /\ UNCHANGED <<row, elite, retired, spare, giving, worn, lost>>

RecordErasure(r) ==
  /\ erasing[r].at = "read" /\ row[r].status = "ended"
  /\ retired' = retired \cup ({erasing[r].bib} \ {NoNumber})
  /\ erasing' = [erasing EXCEPT ![r].at = "recorded"]
  /\ UNCHANGED <<row, elite, spare, giving, worn, lost>>

DeleteErased(r) ==
  /\ erasing[r].at = "recorded"
  /\ row' = [row EXCEPT ![r] = [status |-> "gone", bib |-> NoNumber]]
  /\ lost' = lost \cup ({row[r].bib} \ {NoNumber, erasing[r].bib})
  /\ erasing' = [erasing EXCEPT ![r] = NotErasing]
  /\ UNCHANGED <<elite, retired, spare, giving, worn>>

-----------------------------------------------------------------------------
NumbersNext ==
  \/ \E r \in Runners : \/ BeginDraw(r) \/ CancelRow(r) \/ ExpireRow(r) \/ RestartRow(r) \/ ConfirmKept(r)
                     \/ ReadForErasure(r) \/ RecordErasure(r) \/ DeleteErased(r)
                     \/ \E n \in Numbers : BeginHand(r, n) \/ BeginSet(r, n)
  \/ \E n \in Numbers : BeginElite(n) \/ DeleteEliteEntry(n)
  \/ BeginSpares \/ ReadNext \/ GivingFails
  \/ CommitDraw \/ CommitHand \/ CommitSet \/ CommitElite \/ CommitSpares

NumbersSpec == NumbersInit /\ [][NumbersNext]_numberVars

-----------------------------------------------------------------------------
(* Properties. *)

(* At any moment a number is one runner's or one elite line's. *)
NoTwoWearOne ==
  /\ \A r, q \in Runners : r # q /\ row[r].bib = row[q].bib => row[r].bib = NoNumber
  /\ \A r \in Runners : row[r].bib \notin elite

(* A number somebody wore is never another's, erased or replaced though it may be; only where the
   row changed between its erasure's read and its end is the number forgotten. *)
NumberNeverReissued == \A n \in Numbers \ lost : \A r, q \in worn[n] : r = q
=============================================================================
