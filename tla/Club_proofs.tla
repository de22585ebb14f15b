------------------------------ MODULE Club_proofs ------------------------------
(***************************************************************************)
(* Three components that share no row: the links of an email, the race     *)
(* numbers, the members' shop.                                             *)
(*                                                                         *)
(* The links: the statements of their transactions, however they           *)
(* interleave, implement the ledger of links.  What an open transaction    *)
(* has locked is live and its own until it ends; once it has inserted its  *)
(* row, every other live link of the purpose is among what it replaces or  *)
(* has spent; and two of one purpose are never past their insert together. *)
(*                                                                         *)
(* The numbers: none is worn twice and none is given out again.  What      *)
(* others wear cannot grow while a transaction holds the lock, and         *)
(* whatever leaves the rows after its first read is in the audit log       *)
(* before its second.                                                      *)
(*                                                                         *)
(* The shop: its writers never wait in a circle.  Each holds the first     *)
(* rows of one common order, so whoever keeps another waiting is further   *)
(* along it.                                                               *)
(***************************************************************************)
EXTENDS ActionLinks, RaceNumbers, Shop, TLAPS

-----------------------------------------------------------------------------
(* The links of an email. *)

Issuing == {"replacing", "inserting", "inserted"}

\* What a session's open transaction has done, by the statement it is at.
TransactionFits ==
  \A s \in Sessions :
    /\ work[s].step = "idle" => work[s] = NoTransaction
    /\ work[s].step = "spent" => work[s].spent # NoToken
    /\ work[s].step \in Issuing => work[s].purpose \in AllPurposes
    /\ work[s].step \notin {"inserting", "inserted"} => work[s].old = {}
    /\ work[s].step = "inserted" <=> work[s].row # NoToken

\* A link that is spent is live until the transaction ends; only the list's switch issues after it.
SpentIsLive ==
  \A s \in Sessions :
    work[s].spent # NoToken =>
      /\ LiveLink(work[s].spent)
      /\ work[s].step \in Issuing =>
           work[s].purpose = Switching /\ token[work[s].spent].purpose = Switching

\* The purposes a transaction of this purpose may replace.
MayReplace(purpose) == Replaced(purpose, TRUE)

\* What is seen is issued; what is replaced is live, and not what was spent.
OldIsLive ==
  \A s \in Sessions :
    /\ \A t \in work[s].seen : Issued(t) /\ token[t].purpose \in MayReplace(work[s].purpose) /\ t # work[s].spent
    /\ \A t \in work[s].old : LiveLink(t) /\ token[t].purpose \in MayReplace(work[s].purpose) /\ t # work[s].spent

\* No link is locked by two transactions, no row inserted by two.
LocksAreApart ==
  \A s, q \in Sessions : s # q =>
    /\ \A t \in Tokens : t \in LockedBy(s) => t \notin LockedBy(q)
    /\ work[s].row # NoToken => work[s].row # work[q].row

RowIsNew == \A s \in Sessions : work[s].row # NoToken => ~Issued(work[s].row)

\* Past the insert, the purpose is this transaction's alone.
InsertedAlone ==
  \A s \in Sessions : work[s].step = "inserted" /\ work[s].purpose # Family =>
    /\ \A t \in Tokens : LiveLink(t) /\ token[t].purpose = work[s].purpose
                           => t \in work[s].old \cup {work[s].spent}
    /\ \A q \in Sessions \ {s} : work[q].step = "inserted" => work[q].purpose # work[s].purpose

OneLive ==
  \A t, k \in Tokens : LiveLink(t) /\ LiveLink(k) /\ token[t].purpose = token[k].purpose
                         /\ token[t].purpose # Family => t = k

LinkInv ==
  /\ LinkTypeOK /\ TransactionFits /\ SpentIsLive /\ OldIsLive /\ LocksAreApart /\ RowIsNew
  /\ InsertedAlone /\ OneLive

-----------------------------------------------------------------------------
LEMMA PurposesAre ==
    /\ NoToken \notin Tokens /\ "none" \notin AllPurposes
    /\ Declaring \in Purposes /\ Offering \in Purposes /\ Switching \in Purposes
    /\ Declaring # Switching /\ Family \notin Purposes
  BY LinksAssumption DEF NoToken, AllPurposes

LEMMA RowFits == NoRow \in Rows
  BY DEF NoRow, Rows

LEMMA NoTransactionFits ==
    /\ NoTransaction \in Transactions
    /\ NoTransaction.step = "idle" /\ NoTransaction.spent = NoToken /\ NoTransaction.seen = {}
    /\ NoTransaction.old = {} /\ NoTransaction.row = NoToken
  BY DEF NoTransaction, Transactions, Steps

\* What a purpose may replace: itself, and an offer beside a declaration.
LEMMA ReplacedIs ==
    ASSUME NEW p, NEW offersToo \in BOOLEAN
    PROVE  /\ Replaced(p, offersToo) \subseteq MayReplace(p)
           /\ p = Family => MayReplace(p) = {}
           /\ p # Family => MayReplace(p) \subseteq {p, Offering}
           /\ p # Family /\ p # Declaring => MayReplace(p) = {p}
  BY DEF Replaced, MayReplace

LEMMA LinkStart == LinkInit => LinkInv
  <1> SUFFICES ASSUME LinkInit PROVE LinkInv
    OBVIOUS
  <1>1. /\ \A t \in Tokens : token[t] = NoRow /\ ~Issued(t) /\ ~LiveLink(t)
        /\ \A s \in Sessions : work[s] = NoTransaction
    BY DEF LinkInit, NoRow, Issued, LiveLink
  <1>2. LinkTypeOK
    BY RowFits, NoTransactionFits DEF LinkInit, LinkTypeOK
  <1>3. TransactionFits /\ SpentIsLive /\ OldIsLive /\ RowIsNew
    BY <1>1, NoTransactionFits DEF TransactionFits, SpentIsLive, OldIsLive, RowIsNew, Issuing
  <1>4. LocksAreApart /\ InsertedAlone /\ OneLive
    BY <1>1, NoTransactionFits DEF LocksAreApart, LockedBy, InsertedAlone, OneLive
  <1> QED
    BY <1>2, <1>3, <1>4 DEF LinkInv

-----------------------------------------------------------------------------
(* A statement that writes nothing others see changes its session's transaction only. *)
LEMMA StatementKeeps ==
    ASSUME LinkInv, NEW s \in Sessions, NEW w \in Transactions,
           work' = [work EXCEPT ![s] = w], UNCHANGED token,
           w.step = "idle" => w = NoTransaction,
           w.step = "spent" => w.spent # NoToken,
           w.step \in Issuing => w.purpose \in AllPurposes,
           w.step \notin {"inserting", "inserted"} => w.old = {},
           w.step = "inserted" <=> w.row # NoToken,
           w.spent # NoToken => LiveLink(w.spent),
           w.spent # NoToken /\ w.step \in Issuing => w.purpose = Switching /\ token[w.spent].purpose = Switching,
           \A t \in w.seen : Issued(t) /\ token[t].purpose \in MayReplace(w.purpose) /\ t # w.spent,
           \A t \in w.old : LiveLink(t) /\ token[t].purpose \in MayReplace(w.purpose) /\ t # w.spent,
           \A t \in w.old \cup ({w.spent} \ {NoToken}) : Free(t, s),
           w.row # NoToken => ~Issued(w.row) /\ \A q \in Sessions \ {s} : work[q].row # w.row,
           w.step = "inserted" /\ w.purpose # Family =>
             /\ \A t \in Tokens : LiveLink(t) /\ token[t].purpose = w.purpose => t \in w.old \cup {w.spent}
             /\ \A q \in Sessions \ {s} : work[q].step = "inserted" => work[q].purpose # w.purpose
    PROVE  LinkInv'
  <1> USE DEF LinkInv
  <1>1. work'[s] = w /\ \A q \in Sessions \ {s} : work'[q] = work[q]
    BY DEF LinkTypeOK
  <1>2. LinkTypeOK'
    BY DEF LinkTypeOK
  <1>3. \A t : (LiveLink(t))' = LiveLink(t) /\ (Issued(t))' = Issued(t) /\ token'[t] = token[t]
    BY DEF LiveLink, Issued
  <1>4. TransactionFits'
    BY <1>1 DEF TransactionFits
  <1>5. SpentIsLive'
    BY <1>1, <1>3 DEF SpentIsLive
  <1>6. OldIsLive'
    BY <1>1, <1>3 DEF OldIsLive
  <1>7. LocksAreApart'
    <2>1. \A q \in Sessions \ {s} : (LockedBy(q))' = LockedBy(q)
      BY <1>1 DEF LockedBy
    <2>2. (LockedBy(s))' = w.old \cup ({w.spent} \ {NoToken})
      BY <1>1 DEF LockedBy
    <2>3. \A q \in Sessions \ {s} : \A t \in Tokens : t \in (LockedBy(s))' => t \notin LockedBy(q)
      BY <2>2 DEF Free
    <2> QED
      BY <1>1, <2>1, <2>3 DEF LocksAreApart
  <1>8. RowIsNew'
    BY <1>1, <1>3 DEF RowIsNew
  <1>9. InsertedAlone'
    BY <1>1, <1>3 DEF InsertedAlone
  <1>10. OneLive'
    BY <1>3 DEF OneLive
  <1> QED
    BY <1>2, <1>4, <1>5, <1>6, <1>7, <1>8, <1>9, <1>10

\* The facts of one session, and what its transaction is made of.
LEMMA SessionIs ==
    ASSUME LinkInv, NEW s \in Sessions
    PROVE  /\ work[s] \in Transactions
           /\ work[s].step \in Steps /\ work[s].purpose \in AllPurposes \cup {"none"}
           /\ work[s].spent \in Tokens \cup {NoToken} /\ work[s].row \in Tokens \cup {NoToken}
           /\ work[s].seen \in SUBSET Tokens /\ work[s].old \in SUBSET Tokens
           /\ work[s].step = "idle" => work[s] = NoTransaction
           /\ work[s].spent # NoToken => Free(work[s].spent, s)
  BY PurposesAre DEF LinkInv, LinkTypeOK, Transactions, TransactionFits, LocksAreApart, LockedBy, Free

LEMMA RollBackKeeps ==
    ASSUME LinkInv, NEW s \in Sessions, work' = [work EXCEPT ![s] = NoTransaction], UNCHANGED token
    PROVE  LinkInv'
  <1> DEFINE w == NoTransaction
  <1>1. w \in Transactions /\ w.step = "idle" /\ w.spent = NoToken /\ w.seen = {} /\ w.old = {} /\ w.row = NoToken
    BY NoTransactionFits
  <1>2. w = NoTransaction
    OBVIOUS
  <1>3. work' = [work EXCEPT ![s] = w]
    OBVIOUS
  <1> HIDE DEF w
  <1> QED
    BY <1>1, <1>2, <1>3, StatementKeeps DEF Issuing

LEMMA PressKeeps ==
    ASSUME LinkInv, NEW s \in Sessions, NEW t \in Tokens, Press(s, t)
    PROVE  LinkInv'
  <1> DEFINE w == [NoTransaction EXCEPT !.step = "spent", !.spent = t]
  <1>1. work' = [work EXCEPT ![s] = w] /\ UNCHANGED token
    BY SessionIs DEF Press
  <1>2. w \in Transactions /\ w.step = "spent" /\ w.spent = t /\ w.seen = {} /\ w.old = {} /\ w.row = NoToken
    BY DEF NoTransaction, Transactions, Steps
  <1> HIDE DEF w
  <1>3. t # NoToken /\ LiveLink(t) /\ Free(t, s)
    BY PurposesAre DEF Press
  <1> QED
    BY <1>1, <1>2, <1>3, StatementKeeps DEF Issuing

LEMMA StartKeeps ==
    ASSUME LinkInv, NEW s \in Sessions, NEW p \in AllPurposes, NEW offersToo \in BOOLEAN,
           StartIssue(s, p, offersToo)
    PROVE  LinkInv'
  <1> DEFINE visited == Visited(s, Replaced(p, offersToo))
             w == [work[s] EXCEPT !.step = "replacing", !.purpose = p, !.seen = visited]
  <1>1. work' = [work EXCEPT ![s] = w] /\ UNCHANGED token
    BY DEF StartIssue, LinkInv, LinkTypeOK
  <1>2. /\ visited \in SUBSET Tokens
        /\ \A t \in visited : LiveLink(t) /\ Issued(t) /\ token[t].purpose \in MayReplace(p) /\ t # work[s].spent
    BY ReplacedIs DEF Visited, LiveLink
  <1> HIDE DEF visited
  <1>3. w \in Transactions
    BY ZenonT(40), <1>2, SessionIs DEF Transactions, Steps
  <1>4. /\ w.step = "replacing" /\ w.purpose = p /\ w.seen = visited
        /\ w.spent = work[s].spent /\ w.old = work[s].old /\ w.row = work[s].row
    BY SessionIs DEF Transactions
  <1>5. work[s].old = {} /\ work[s].row = NoToken
    BY DEF StartIssue, LinkInv, TransactionFits
  <1>6. work[s].spent # NoToken =>
           LiveLink(work[s].spent) /\ p = Switching /\ token[work[s].spent].purpose = Switching /\ Free(work[s].spent, s)
    BY SessionIs, NoTransactionFits DEF StartIssue, LinkInv, SpentIsLive
  <1> HIDE DEF w
  <1> QED
    BY <1>1, <1>2, <1>3, <1>4, <1>5, <1>6, StatementKeeps DEF Issuing

LEMMA InvalidateKeeps ==
    ASSUME LinkInv, NEW s \in Sessions, Invalidate(s)
    PROVE  LinkInv'
  <1> DEFINE old == StillLive(s)
             w == [work[s] EXCEPT !.step = "inserting", !.seen = {}, !.old = old]
  <1>1. work' = [work EXCEPT ![s] = w] /\ UNCHANGED token
    BY DEF Invalidate, LinkInv, LinkTypeOK
  <1>2. /\ old \in SUBSET Tokens
        /\ \A t \in old : /\ LiveLink(t) /\ token[t].purpose \in MayReplace(work[s].purpose)
                          /\ t # work[s].spent /\ Free(t, s)
    BY SessionIs DEF StillLive, Invalidate, LinkInv, OldIsLive
  <1> HIDE DEF old
  <1>3. w \in Transactions
    BY ZenonT(40), <1>2, SessionIs DEF Transactions, Steps
  <1>4. /\ w.step = "inserting" /\ w.purpose = work[s].purpose /\ w.seen = {}
        /\ w.spent = work[s].spent /\ w.old = old /\ w.row = work[s].row
    BY SessionIs DEF Transactions
  <1>5. work[s].row = NoToken /\ work[s].purpose \in AllPurposes /\ work[s].step = "replacing"
    BY DEF Invalidate, LinkInv, TransactionFits, Issuing
  <1>6. work[s].spent # NoToken =>
           /\ LiveLink(work[s].spent) /\ Free(work[s].spent, s)
           /\ work[s].purpose = Switching /\ token[work[s].spent].purpose = Switching
    BY <1>5, SessionIs DEF LinkInv, SpentIsLive, Issuing
  <1> HIDE DEF w
  <1> QED
    BY <1>1, <1>2, <1>3, <1>4, <1>5, <1>6, StatementKeeps DEF Issuing

LEMMA InsertKeeps ==
    ASSUME LinkInv, NEW s \in Sessions, NEW n \in Tokens, Insert(s, n)
    PROVE  LinkInv'
  <1> DEFINE w == [work[s] EXCEPT !.step = "inserted", !.row = n]
  <1>1. work' = [work EXCEPT ![s] = w] /\ UNCHANGED token
    BY DEF Insert, LinkInv, LinkTypeOK
  <1>3. w \in Transactions
    BY SessionIs DEF Transactions, Steps
  <1>4. /\ w.step = "inserted" /\ w.purpose = work[s].purpose /\ w.seen = work[s].seen
        /\ w.spent = work[s].spent /\ w.old = work[s].old /\ w.row = n
    BY SessionIs DEF Transactions
  <1>5. n # NoToken /\ work[s].purpose \in AllPurposes /\ work[s].step = "inserting"
    BY PurposesAre DEF Insert, LinkInv, TransactionFits, Issuing
  <1>6. work[s].spent # NoToken =>
           /\ LiveLink(work[s].spent) /\ Free(work[s].spent, s)
           /\ work[s].purpose = Switching /\ token[work[s].spent].purpose = Switching
    BY <1>5, SessionIs DEF LinkInv, SpentIsLive, Issuing
  <1>7. /\ \A t \in work[s].seen : Issued(t) /\ token[t].purpose \in MayReplace(work[s].purpose) /\ t # work[s].spent
        /\ \A t \in work[s].old : LiveLink(t) /\ token[t].purpose \in MayReplace(work[s].purpose) /\ t # work[s].spent
    BY DEF LinkInv, OldIsLive
  <1>8. \A t \in work[s].old \cup ({work[s].spent} \ {NoToken}) : Free(t, s)
    BY SessionIs DEF LinkInv, LocksAreApart, LockedBy, Free
  <1>9. ~Issued(n) /\ \A q \in Sessions \ {s} : work[q].row # n
    BY DEF Insert, Unused
  <1>10. work[s].purpose # Family =>
           /\ \A t \in Tokens : LiveLink(t) /\ token[t].purpose = work[s].purpose
                                  => t \in work[s].old \cup {work[s].spent}
           /\ \A q \in Sessions \ {s} : work[q].step = "inserted" => work[q].purpose # work[s].purpose
    BY DEF Insert, Collides, WaitsForIndex
  <1> HIDE DEF w
  <1>11. /\ \A t \in w.seen : Issued(t) /\ token[t].purpose \in MayReplace(w.purpose) /\ t # w.spent
         /\ \A t \in w.old : LiveLink(t) /\ token[t].purpose \in MayReplace(w.purpose) /\ t # w.spent
         /\ \A t \in w.old \cup ({w.spent} \ {NoToken}) : Free(t, s)
    BY <1>4, <1>7, <1>8
  <1>12. /\ w.row # NoToken => ~Issued(w.row) /\ \A q \in Sessions \ {s} : work[q].row # w.row
         /\ w.step = "inserted" /\ w.purpose # Family =>
             /\ \A t \in Tokens : LiveLink(t) /\ token[t].purpose = w.purpose => t \in w.old \cup {w.spent}
             /\ \A q \in Sessions \ {s} : work[q].step = "inserted" => work[q].purpose # w.purpose
    BY <1>4, <1>9, <1>10
  <1>13. /\ w.step = "inserted" /\ w.purpose \in AllPurposes /\ w.row # NoToken
         /\ w.spent # NoToken => LiveLink(w.spent) /\ w.purpose = Switching /\ token[w.spent].purpose = Switching
    BY <1>4, <1>5, <1>6
  <1> QED
    BY <1>1, <1>3, <1>11, <1>12, <1>13, StatementKeeps

-----------------------------------------------------------------------------
(* A commit. *)
\* What a commit makes of each row.
LEMMA CommittedIs ==
    ASSUME LinkInv, NEW s \in Sessions, token' = Committed(s)
    PROVE  /\ \A t \in Tokens : t = work[s].row =>
                token'[t] = [purpose |-> work[s].purpose, used |-> FALSE, invalidated |-> FALSE, by |-> NoToken]
           /\ \A t \in Tokens : t # work[s].row /\ t \in work[s].old =>
                token'[t] = [token[t] EXCEPT !.invalidated = TRUE, !.by = work[s].row]
           /\ \A t \in Tokens : t # work[s].row /\ t \notin work[s].old /\ t = work[s].spent =>
                token'[t] = [token[t] EXCEPT !.used = TRUE]
           /\ \A t \in Tokens : t # work[s].row /\ t \notin work[s].old /\ t # work[s].spent =>
                token'[t] = token[t]
  BY DEF Committed

\* And of what is live and issued.
LEMMA CommittedLinks ==
    ASSUME LinkInv, NEW s \in Sessions, token' = Committed(s),
           work[s].row # NoToken => work[s].purpose \in AllPurposes
    PROVE  /\ token' \in [Tokens -> Rows]
           /\ \A t \in Tokens : t # work[s].row =>
                /\ token'[t].purpose = token[t].purpose
                /\ (Issued(t))' <=> Issued(t)
                /\ (LiveLink(t))' <=> LiveLink(t) /\ t \notin LockedBy(s)
           /\ \A t \in Tokens : t = work[s].row =>
                /\ token'[t].purpose = work[s].purpose /\ (Issued(t))' /\ (LiveLink(t))'
  <1> DEFINE r == work[s].row
             new == [purpose |-> work[s].purpose, used |-> FALSE, invalidated |-> FALSE, by |-> NoToken]
  <1>1. r \in Tokens \cup {NoToken} /\ \A t \in Tokens : token[t] \in Rows
    BY SessionIs DEF LinkInv, LinkTypeOK
  <1>2. ASSUME NEW t \in Tokens
        PROVE  /\ [token[t] EXCEPT !.invalidated = TRUE, !.by = r] \in Rows
               /\ [token[t] EXCEPT !.used = TRUE] \in Rows
    BY <1>1 DEF Rows
  <1>3. ASSUME NEW t \in Tokens, t = r PROVE new \in Rows /\ new.purpose # "none"
    BY <1>3, PurposesAre DEF Rows
  <1>4. ASSUME NEW t \in Tokens PROVE token'[t] \in Rows
    BY <1>1, <1>2, <1>3, <1>4, CommittedIs
  <1>5. token' \in [Tokens -> Rows]
    BY <1>4 DEF Committed
  <1>6. ASSUME NEW t \in Tokens, t # r
        PROVE  /\ token'[t].purpose = token[t].purpose
               /\ t \in work[s].old => token'[t].invalidated
               /\ t \notin work[s].old => token'[t].invalidated = token[t].invalidated
               /\ t \notin work[s].old /\ t = work[s].spent => token'[t].used
               /\ t \notin LockedBy(s) => token'[t] = token[t]
    <2>1. CASE t \in work[s].old
      <3>1. token'[t] = [token[t] EXCEPT !.invalidated = TRUE, !.by = r]
        BY <1>6, <2>1, CommittedIs
      <3> QED
        BY <1>1, <2>1, <3>1 DEF Rows, LockedBy
    <2>2. CASE t \notin work[s].old /\ t = work[s].spent
      <3>1. token'[t] = [token[t] EXCEPT !.used = TRUE]
        BY <1>6, <2>2, CommittedIs
      <3> QED
        BY <1>1, <2>2, <3>1, PurposesAre DEF Rows, LockedBy
    <2>3. CASE t \notin work[s].old /\ t # work[s].spent
      <3>1. token'[t] = token[t]
        BY <1>6, <2>3, CommittedIs
      <3> QED
        BY <2>3, <3>1
    <2> QED
      BY <2>1, <2>2, <2>3
  <1>7. ASSUME NEW t \in Tokens, t # r
        PROVE  /\ (Issued(t))' <=> Issued(t)
               /\ (LiveLink(t))' <=> LiveLink(t) /\ t \notin LockedBy(s)
    BY <1>1, <1>6, <1>7, PurposesAre DEF Issued, LiveLink, LockedBy
  <1>8. ASSUME NEW t \in Tokens, t = r
        PROVE  token'[t].purpose = work[s].purpose /\ (Issued(t))' /\ (LiveLink(t))'
    <2>1. token'[t] = new
      BY <1>8, CommittedIs
    <2> QED
      BY <2>1, <1>3, <1>8 DEF Issued, LiveLink
  <1> QED
    BY <1>5, <1>6, <1>7, <1>8

LEMMA CommitKeeps ==
    ASSUME LinkInv, NEW s \in Sessions, work[s].step \in {"spent", "inserted"},
           token' = Committed(s), work' = [work EXCEPT ![s] = NoTransaction]
    PROVE  LinkInv'
  <1> DEFINE r == work[s].row
             p == work[s].purpose
  <1>0. work[s].row # NoToken => work[s].step = "inserted" /\ work[s].purpose \in AllPurposes
    BY DEF LinkInv, TransactionFits, Issuing
  <1>1. /\ token' \in [Tokens -> Rows]
        /\ \A t \in Tokens : t # r =>
                /\ token'[t].purpose = token[t].purpose
                /\ (Issued(t))' <=> Issued(t)
                /\ (LiveLink(t))' <=> LiveLink(t) /\ t \notin LockedBy(s)
        /\ \A t \in Tokens : t = r =>
                /\ token'[t].purpose = p /\ (Issued(t))' /\ (LiveLink(t))'
    BY <1>0, CommittedLinks
  <1>2. work'[s] = NoTransaction /\ \A q \in Sessions \ {s} : work'[q] = work[q]
    BY DEF LinkInv, LinkTypeOK
  <1>3. LinkTypeOK'
    BY <1>1, NoTransactionFits DEF LinkInv, LinkTypeOK
  <1>4. TransactionFits'
    BY <1>2, NoTransactionFits DEF LinkInv, TransactionFits, Issuing
  <1>5. r # NoToken => ~Issued(r)
    BY DEF LinkInv, RowIsNew
  <1>6. \A q \in Sessions \ {s} : \A t \in LockedBy(q) : t \in Tokens /\ t # r /\ t \notin LockedBy(s)
    <2> SUFFICES ASSUME NEW q \in Sessions \ {s}, NEW t \in LockedBy(q)
                 PROVE  t \in Tokens /\ t # r /\ t \notin LockedBy(s)
      OBVIOUS
    <2>1. t \in Tokens
      BY SessionIs DEF LockedBy
    <2>2. Issued(t)
      BY DEF LinkInv, LockedBy, SpentIsLive, OldIsLive, LiveLink
    <2>3. t \notin LockedBy(s)
      BY <2>1 DEF LinkInv, LocksAreApart
    <2> QED
      BY <1>5, <2>1, <2>2, <2>3, PurposesAre
  <1>7. SpentIsLive'
    BY <1>1, <1>2, <1>6, NoTransactionFits DEF LinkInv, SpentIsLive, LockedBy
  <1>8. OldIsLive'
    <2>1. ASSUME NEW q \in Sessions \ {s}, NEW t \in work[q].seen PROVE t \in Tokens /\ t # r
      BY <1>5, <2>1, SessionIs, PurposesAre DEF LinkInv, OldIsLive
    <2>2. ASSUME NEW q \in Sessions \ {s}, NEW t \in work[q].old PROVE t \in LockedBy(q)
      BY <2>2 DEF LockedBy
    <2> QED
      BY <1>1, <1>2, <1>6, <2>1, <2>2, NoTransactionFits DEF LinkInv, OldIsLive
  <1>9. LocksAreApart'
    <2>1. (LockedBy(s))' = {} /\ \A q \in Sessions \ {s} : (LockedBy(q))' = LockedBy(q)
      BY <1>2, NoTransactionFits DEF LockedBy
    <2> QED
      BY <1>2, <2>1, NoTransactionFits DEF LinkInv, LocksAreApart
  <1>10. RowIsNew'
    <2>1. ASSUME NEW q \in Sessions \ {s}, work[q].row # NoToken PROVE work[q].row \in Tokens /\ work[q].row # r
      BY <2>1, SessionIs DEF LinkInv, LocksAreApart
    <2> QED
      BY <1>1, <1>2, <2>1, NoTransactionFits DEF LinkInv, RowIsNew
  <1>11. InsertedAlone'
    <2> SUFFICES ASSUME NEW q \in Sessions, work'[q].step = "inserted", work'[q].purpose # Family
                 PROVE  /\ \A t \in Tokens : (LiveLink(t))' /\ token'[t].purpose = work'[q].purpose
                                                => t \in work'[q].old \cup {work'[q].spent}
                        /\ \A k \in Sessions \ {q} : work'[k].step = "inserted" => work'[k].purpose # work'[q].purpose
      BY DEF InsertedAlone
    <2>1. q \in Sessions \ {s} /\ work'[q] = work[q]
      BY <1>2, NoTransactionFits
    <2>2. r # NoToken => p # work[q].purpose
      BY <1>0, <2>1 DEF LinkInv, InsertedAlone
    <2>3. ASSUME NEW t \in Tokens, (LiveLink(t))', token'[t].purpose = work[q].purpose
          PROVE  t # r /\ LiveLink(t) /\ token[t].purpose = work[q].purpose
      BY <1>1, <2>2, <2>3, PurposesAre
    <2> QED
      BY <1>2, <2>1, <2>3, NoTransactionFits DEF LinkInv, InsertedAlone
  <1>12. OneLive'
    <2> SUFFICES ASSUME NEW t \in Tokens, NEW k \in Tokens, (LiveLink(t))', (LiveLink(k))',
                        token'[t].purpose = token'[k].purpose, token'[t].purpose # Family
                 PROVE  t = k
      BY DEF OneLive
    <2>1. ASSUME NEW a \in Tokens, NEW b \in Tokens, a = r, (LiveLink(b))',
                 token'[a].purpose = token'[b].purpose, token'[a].purpose # Family
          PROVE  b = r
      <3>1. r # NoToken /\ p # Family
        BY <1>1, <2>1, PurposesAre
      <3>2. ASSUME b # r PROVE FALSE
        <4>1. LiveLink(b) /\ b \notin LockedBy(s) /\ token[b].purpose = p
          BY <1>1, <2>1, <3>2
        <4>2. b \in work[s].old \cup {work[s].spent}
          BY <1>0, <3>1, <4>1 DEF LinkInv, InsertedAlone
        <4> QED
          BY <4>1, <4>2, PurposesAre DEF LockedBy
      <3> QED
        BY <3>2
    <2>2. CASE t = r
      BY <2>1, <2>2
    <2>3. CASE k = r
      BY <2>1, <2>3
    <2>4. CASE t # r /\ k # r
      BY <1>1, <2>4 DEF LinkInv, OneLive
    <2> QED
      BY <2>2, <2>3, <2>4
  <1> QED
    BY <1>3, <1>4, <1>7, <1>8, <1>9, <1>10, <1>11, <1>12 DEF LinkInv

-----------------------------------------------------------------------------
LEMMA LinkStep == LinkInv /\ [LinkNext]_linkVars => LinkInv'
  <1> SUFFICES ASSUME LinkInv, [LinkNext]_linkVars PROVE LinkInv'
    OBVIOUS
  <1>1. ASSUME NEW s \in Sessions, InsertRefused(s) \/ RollBack(s) PROVE LinkInv'
    BY <1>1, RollBackKeeps DEF InsertRefused, RollBack
  <1>2. ASSUME NEW s \in Sessions, CommitIssue(s) \/ CommitPress(s) PROVE LinkInv'
    BY <1>2, CommitKeeps DEF CommitIssue, CommitPress
  <1>3. CASE UNCHANGED linkVars
    BY <1>3 DEF linkVars, LinkInv, LinkTypeOK, TransactionFits, SpentIsLive, OldIsLive, LocksAreApart, RowIsNew,
       InsertedAlone, OneLive, LiveLink, Issued, LockedBy
  <1> QED
    BY <1>1, <1>2, <1>3, StartKeeps, InvalidateKeeps, InsertKeeps, PressKeeps DEF LinkNext

LEMMA LinkInvariant == LinkSpec => []LinkInv
  BY LinkStart, LinkStep, PTL DEF LinkSpec

(* Every row and every open transaction of the links is well formed. *)
THEOREM LinkTypeCorrect == LinkSpec => []LinkTypeOK
  <1>1. LinkInv => LinkTypeOK
    BY DEF LinkInv
  <1> QED
    BY <1>1, LinkInvariant, PTL

-----------------------------------------------------------------------------
(* The ledger. *)
\* What the mapping makes of a link.
LEMMA StatesAre ==
    ASSUME NEW t \in Tokens
    PROVE  /\ StateOf(t) = "works" <=> LiveLink(t)
           /\ StateOf(t) = "unissued" <=> ~Issued(t)
           /\ Issued(t) => (StateOf(t) = "replaced" <=> token[t].invalidated)
  BY DEF StateOf, LiveLink, Issued

LEMMA LedgerStart == LinkInit => L!LedgerInit
  <1> SUFFICES ASSUME LinkInit PROVE L!LedgerInit
    OBVIOUS
  <1>1. \A t \in Tokens : token[t].purpose = "none" /\ StateOf(t) = "unissued"
    BY DEF LinkInit, NoRow, StateOf, Issued
  <1> QED
    BY <1>1 DEF L!LedgerInit

\* A commit of a new link is the ledger's, of a press its act, of the list's switch both.
LEMMA CommitIsLedger ==
    ASSUME LinkInv, NEW s \in Sessions, CommitIssue(s),
           NEW r, r = work[s].row, NEW p, p = work[s].purpose, NEW x, x = work[s].spent
    PROVE  L!LedgerNext
  <1> DEFINE u == [t \in Tokens |-> token[t].purpose]
             st == [t \in Tokens |-> StateOf(t)]
  <1>0. /\ r \in Tokens /\ p \in AllPurposes /\ ~Issued(r) /\ work[s].step = "inserted"
        /\ work[s].old \in SUBSET Tokens /\ x \in Tokens \cup {NoToken}
    BY SessionIs DEF CommitIssue, LinkInv, TransactionFits, RowIsNew, Issuing
  <1>1. /\ \A t \in Tokens : t # r =>
                /\ token'[t].purpose = token[t].purpose
                /\ (Issued(t))' <=> Issued(t)
                /\ (LiveLink(t))' <=> LiveLink(t) /\ t \notin LockedBy(s)
        /\ \A t \in Tokens : t = r =>
                /\ token'[t].purpose = p /\ (Issued(t))' /\ (LiveLink(t))'
    BY <1>0, CommittedLinks DEF CommitIssue
  <1>2. u' = [u EXCEPT ![r] = p]
    BY <1>0, <1>1
  <1>3. st[r] = "unissued" /\ st'[r] = "works"
    BY <1>0, <1>1 DEF StateOf, LiveLink
  <1>4. ASSUME NEW t \in Tokens, t # r, t \in work[s].old PROVE st[t] = "works" /\ st'[t] = "replaced"
    <2>1. token'[t] = [token[t] EXCEPT !.invalidated = TRUE, !.by = r]
      BY <1>4, CommittedIs DEF CommitIssue
    <2>2. LiveLink(t) /\ (Issued(t))' /\ token[t] \in Rows
      BY <1>1, <1>4 DEF LinkInv, OldIsLive, LiveLink, LinkTypeOK
    <2> QED
      BY <2>1, <2>2 DEF StateOf, LiveLink, Rows
  <1>5. ASSUME NEW t \in Tokens, t # r, t \notin work[s].old, t # x PROVE st'[t] = st[t]
    <2>1. token'[t] = token[t]
      BY <1>5, CommittedIs DEF CommitIssue
    <2> QED
      BY <2>1 DEF StateOf, Issued
  <1>6. ASSUME x = NoToken PROVE L!NewLink(r, p)
    <2>1. \A t \in work[s].old : t \in Tokens /\ t # r
      BY <1>0 DEF LinkInv, OldIsLive, LiveLink
    <2>2. st' = [t \in Tokens |-> IF t = r THEN "works" ELSE IF t \in work[s].old THEN "replaced" ELSE st[t]]
      BY <1>3, <1>4, <1>5, <1>6, PurposesAre
    <2>3. p # Family => \A t \in Tokens : st[t] = "works" /\ u[t] = p => t \in work[s].old
      <3> SUFFICES ASSUME p # Family, NEW t \in Tokens, st[t] = "works", u[t] = p
                   PROVE  t \in work[s].old
        OBVIOUS
      <3>1. LiveLink(t) /\ token[t].purpose = work[s].purpose
        BY StatesAre
      <3>2. t \in work[s].old \cup {work[s].spent}
        BY <1>0, <3>1 DEF LinkInv, InsertedAlone
      <3> QED
        BY <1>6, <3>2, PurposesAre
    <2>4. work[s].old \in SUBSET {k \in Tokens : st[k] = "works"}
      BY <1>4, <2>1
    <2> HIDE DEF u, st
    <2>5. /\ st[r] = "unissued" /\ u' = [u EXCEPT ![r] = p]
          /\ \E replaced \in SUBSET {k \in Tokens : st[k] = "works"} :
               /\ p \notin {Family} => {t \in Tokens : st[t] = "works" /\ u[t] = p} \subseteq replaced
               /\ st' = [k \in Tokens |-> IF k = r THEN "works" ELSE IF k \in replaced THEN "replaced" ELSE st[k]]
      BY <1>2, <1>3, <2>2, <2>3, <2>4
    <2> QED
      BY <2>5 DEF L!NewLink, L!Working, u, st
  <1>7. ASSUME x # NoToken PROVE L!ActAndRenew(x, r)
    <2>1. x \in Tokens /\ x # r /\ LiveLink(x) /\ p = Switching /\ token[x].purpose = Switching
      BY <1>0, <1>7 DEF LinkInv, SpentIsLive, Issuing, LiveLink
    <2>2. \A t \in Tokens : LiveLink(t) /\ token[t].purpose = Switching => t = x
      BY <2>1, PurposesAre DEF LinkInv, OneLive
    <2>3. work[s].old = {}
      <3>1. ASSUME NEW t \in work[s].old PROVE FALSE
        <4>1. t \in Tokens /\ LiveLink(t) /\ t # x /\ token[t].purpose \in MayReplace(Switching)
          BY <1>0, <2>1, <3>1 DEF LinkInv, OldIsLive
        <4>2. MayReplace(Switching) = {Switching}
          BY ReplacedIs, PurposesAre
        <4> QED
          BY <2>2, <4>1, <4>2
      <3> QED
        BY <3>1
    <2>4. st[x] = "works" /\ st'[x] = "acted"
      <3>1. token'[x] = [token[x] EXCEPT !.used = TRUE]
        BY <2>1, <2>3, CommittedIs DEF CommitIssue
      <3>2. token[x] \in Rows /\ Issued(x) /\ ~token[x].invalidated
        BY <2>1 DEF LinkInv, LinkTypeOK, LiveLink
      <3>3. token'[x].used /\ ~token'[x].invalidated /\ token'[x].purpose # "none"
        BY <3>1, <3>2 DEF Rows, Issued
      <3> QED
        BY <2>1, <3>3 DEF StateOf, LiveLink, Issued
    <2>5. st' = [st EXCEPT ![x] = "acted", ![r] = "works"]
      BY <1>0, <1>3, <1>5, <2>1, <2>3, <2>4
    <2>6. {t \in Tokens : st[t] = "works" /\ u[t] = Switching} = {x}
      BY <2>1, <2>2, StatesAre
    <2>7. u[x] = Switching
      BY <2>1
    <2> HIDE DEF u, st
    <2>8. /\ st[x] = "works" /\ st[r] = "unissued"
          /\ {t \in Tokens : st[t] = "works" /\ u[t] = u[x]} = {x}
          /\ u' = [u EXCEPT ![r] = u[x]]
          /\ st' = [st EXCEPT ![x] = "acted", ![r] = "works"]
      BY <1>2, <1>3, <2>1, <2>4, <2>5, <2>6, <2>7
    <2> QED
      BY <2>8 DEF L!ActAndRenew, L!Working, u, st
  <1>8. CASE x = NoToken
    <2>1. L!NewLink(r, p)
      BY <1>6, <1>8
    <2>2. \E l \in Tokens, v \in AllPurposes : L!NewLink(l, v)
      BY <1>0, <2>1
    <2> QED
      BY <2>2 DEF L!LedgerNext
  <1>9. CASE x # NoToken
    <2>1. x \in Tokens /\ L!ActAndRenew(x, r)
      BY <1>0, <1>7, <1>9
    <2>2. \E l, next \in Tokens : L!ActAndRenew(l, next)
      BY <1>0, <2>1
    <2> QED
      BY <2>2 DEF L!LedgerNext
  <1> QED
    BY <1>8, <1>9

LEMMA PressIsLedger ==
    ASSUME LinkInv, NEW s \in Sessions, CommitPress(s)
    PROVE  L!LedgerNext
  <1> DEFINE x == work[s].spent
             u == [t \in Tokens |-> token[t].purpose]
             st == [t \in Tokens |-> StateOf(t)]
  <1>1. /\ x \in Tokens /\ LiveLink(x) /\ token[x] \in Rows
        /\ work[s].old = {} /\ work[s].row = NoToken
    BY SessionIs DEF CommitPress, LinkInv, TransactionFits, SpentIsLive, LinkTypeOK
  <1>2. \A t \in Tokens \ {x} : token'[t] = token[t]
    BY <1>1, CommittedIs, PurposesAre DEF CommitPress
  <1>3. token'[x] = [token[x] EXCEPT !.used = TRUE]
    BY <1>1, CommittedIs, PurposesAre DEF CommitPress
  <1>4. token'[x].used /\ ~token'[x].invalidated /\ token'[x].purpose = token[x].purpose
    BY <1>1, <1>3 DEF Rows, LiveLink
  <1>5. u' = u
    BY <1>2, <1>4
  <1>6. st[x] = "works" /\ st'[x] = "acted" /\ \A t \in Tokens \ {x} : st'[t] = st[t]
    BY <1>1, <1>2, <1>4 DEF StateOf, LiveLink, Issued
  <1>7. st' = [st EXCEPT ![x] = "acted"]
    BY <1>1, <1>6
  <1>8. L!Act(x)
    BY <1>5, <1>6, <1>7 DEF L!Act
  <1> HIDE DEF x
  <1> QED
    BY <1>1, <1>8 DEF L!LedgerNext

LEMMA StepIsLedger == LinkInv /\ [LinkNext]_linkVars => [L!LedgerNext]_(L!ledger)
  <1> SUFFICES ASSUME LinkInv, [LinkNext]_linkVars PROVE L!LedgerNext \/ UNCHANGED L!ledger
    OBVIOUS
  <1>1. ASSUME UNCHANGED token PROVE UNCHANGED L!ledger
    BY <1>1 DEF L!ledger, StateOf, Issued
  <1> QED
    BY <1>1, CommitIsLedger, PressIsLedger
    DEF LinkNext, StartIssue, Invalidate, InsertRefused, Insert, Press, RollBack, linkVars

(* The links keep the ledger: the statements of renders and presses, interleaved in any way, implement
   the promise that a new link replaces every working one of its purpose and each is acted on once. *)
THEOREM LinksImplementTheLedger == LinkSpec => LinksKeepTheLedger
  BY LedgerStart, LinkInvariant, StepIsLedger, PTL DEF LinkSpec, LinksKeepTheLedger, L!Ledger

(* At any moment one link of each purpose works, the family's kept ones aside. *)
THEOREM OneLinkWorks == LinkSpec => []L!OneWorkingLink
  <1>1. LinkInv => L!OneWorkingLink
    BY StatesAre DEF LinkInv, OneLive, L!OneWorkingLink
  <1> QED
    BY <1>1, LinkInvariant, PTL

-----------------------------------------------------------------------------
(* The race numbers. *)

Bibs == Numbers \cup {NoNumber}

Gift == [kind : {"draw", "hand", "set", "elite", "spares"}, row : Runners \cup {NoNumber},
         number : Bibs, seen : Bibs, taken : SUBSET Numbers, reads : 0..2]

Erasure == [at : {"read", "recorded"}, bib : Bibs]

\* NumbersTypeOK, with the transactions' own records.
NumbersTyped ==
  /\ row \in [Runners -> [status : {"entered", "CONFIRMED", "ended", "gone"}, bib : Bibs]]
  /\ elite \subseteq Numbers /\ retired \subseteq Numbers /\ lost \subseteq Numbers
  /\ spare \in [from : 0..NumberMax, to : 0..NumberMax, skipped : SUBSET Numbers]
  /\ giving \in {NotGiving} \cup Gift
  /\ erasing \in [Runners -> {NotErasing} \cup Erasure]
  /\ worn \in [Numbers -> SUBSET Runners]

\* What a transaction was begun with.
GiftFits ==
  giving # NotGiving =>
    /\ giving.kind \in {"draw", "hand", "set"} => giving.row \in Runners
    /\ giving.kind \in {"elite", "spares"} => giving.row = NoNumber
    /\ giving.kind \in {"hand", "set", "elite"} => giving.number \in Numbers
    /\ giving.kind \in {"draw", "hand"} => row[giving.row].bib = NoNumber

GoneWearNothing == \A r \in Runners : row[r].status = "gone" => row[r].bib = NoNumber

\* After the first read, what others wear is among what was read.
WornIsRead ==
  giving # NotGiving /\ giving.reads >= 1 =>
    /\ elite \subseteq giving.taken
    /\ \A q \in Runners \ {giving.row} : row[q].bib \in giving.taken \cup {NoNumber}

\* A recorded erasure has retired the number it knows of.
RecordsRetire == \A r \in Runners : erasing[r].at = "recorded" => erasing[r].bib \in retired \cup {NoNumber}

\* A number once worn is worn still by the same runner, retired, or lost.
Accounted == \A n \in Numbers : \A q \in worn[n] : row[q].bib = n \/ n \in retired \/ n \in lost

\* What the reads leave out of a number others once wore.
EverWornIsRead ==
  giving # NotGiving =>
    \A n \in Numbers : \A q \in worn[n] \ {giving.row} :
      /\ giving.reads >= 1 => n \in giving.taken \cup retired \cup lost
      /\ giving.reads = 2 => n \in giving.taken \cup lost

NumbersInv ==
  /\ NumbersTyped /\ GiftFits /\ GoneWearNothing /\ WornIsRead /\ RecordsRetire /\ Accounted
  /\ EverWornIsRead /\ NoTwoWearOne /\ NumberNeverReissued

-----------------------------------------------------------------------------
\* Numbers begin after nought, and a runner is no number.
LEMMA NumbersAre == NoNumber \notin Numbers /\ NoNumber \notin Runners /\ Numbers \subseteq Int
  BY NumbersAssumption DEF Numbers, NoNumber

LEMMA TwoReads == Len(ReadOrder) = 2 /\ ReadOrder[1] = "rows" /\ ReadOrder[2] = "audit"
  BY DEF ReadOrder

\* pickBibNumber never answers a number it was told is taken.
LEMMA PickedIsFree ==
    ASSUME NEW r, NEW taken, NEW n, PickBibNumber(r, taken, n)
    PROVE  n \notin taken
  BY DEF PickBibNumber, Lowest, OpenNumbers

LEMMA TypedIsTypeOK == NumbersTyped => NumbersTypeOK
  BY DEF NumbersTyped, NumbersTypeOK, Gift, NotGiving, NotErasing, Erasure, Bibs

-----------------------------------------------------------------------------
(* The first state. *)
LEMMA NumbersStart == NumbersInit => NumbersInv
  <1> SUFFICES ASSUME NumbersInit PROVE NumbersInv
    OBVIOUS
  <1> USE NumbersAre
  <1>1. NumbersTyped
    BY NumbersAssumption DEF NumbersInit, NumbersTyped, Bibs
  <1>2. GiftFits /\ WornIsRead /\ EverWornIsRead
    BY DEF NumbersInit, GiftFits, WornIsRead, EverWornIsRead
  <1>3. GoneWearNothing /\ RecordsRetire
    BY DEF NumbersInit, GoneWearNothing, RecordsRetire, NotErasing
  <1>4. Accounted /\ NoTwoWearOne /\ NumberNeverReissued
    BY DEF NumbersInit, Accounted, NoTwoWearOne, NumberNeverReissued
  <1> QED
    BY <1>1, <1>2, <1>3, <1>4 DEF NumbersInv

-----------------------------------------------------------------------------
(* A transaction begins. *)
LEMMA BeginKeeps ==
    ASSUME NumbersInv, NEW kind \in {"draw", "hand", "set", "elite", "spares"},
           NEW r \in Runners \cup {NoNumber}, NEW n \in Bibs,
           kind \in {"draw", "hand", "set"} => r \in Runners,
           kind \in {"elite", "spares"} => r = NoNumber,
           kind \in {"hand", "set", "elite"} => n \in Numbers,
           kind \in {"draw", "hand"} => row[r].bib = NoNumber,
           BeginGiving(kind, r, n)
    PROVE  NumbersInv'
  <1> USE DEF NumbersInv
  <1>1. giving' \in Gift /\ giving'.reads = 0 /\ giving'.kind = kind /\ giving'.row = r /\ giving'.number = n
    BY DEF BeginGiving, Gift, NumbersTyped, Bibs
  <1>2. NumbersTyped'
    BY <1>1 DEF BeginGiving, NumbersTyped
  <1>3. GiftFits'
    BY <1>1 DEF BeginGiving, GiftFits
  <1>4. WornIsRead' /\ EverWornIsRead'
    BY <1>1 DEF WornIsRead, EverWornIsRead
  <1>5. GoneWearNothing' /\ RecordsRetire' /\ Accounted' /\ NoTwoWearOne' /\ NumberNeverReissued'
    BY DEF BeginGiving, GoneWearNothing, RecordsRetire, Accounted, NoTwoWearOne, NumberNeverReissued
  <1> QED
    BY <1>2, <1>3, <1>4, <1>5

(* It reads. *)
LEMMA ReadKeeps ==
    ASSUME NumbersInv, ReadNext
    PROVE  NumbersInv'
  <1> USE DEF NumbersInv
  <1> DEFINE what == ReadOrder[giving.reads + 1]
  <1>0. giving \in Gift /\ giving # NotGiving /\ giving.reads \in {0, 1}
    BY TwoReads DEF ReadNext, NumbersTyped, NotGiving, Gift
  <1>1. /\ giving' = [giving EXCEPT !.reads = @ + 1, !.taken = @ \cup Reads(what)]
        /\ UNCHANGED <<row, elite, retired, spare, erasing, worn, lost>>
    BY DEF ReadNext
  <1>2. Reads(what) \in SUBSET Numbers
    BY <1>0 DEF Reads, WornNumbers, NumbersTyped, Gift, Bibs
  <1> HIDE DEF what
  <1>3. /\ giving' \in Gift /\ giving'.reads = giving.reads + 1 /\ giving'.row = giving.row
        /\ giving'.kind = giving.kind /\ giving'.number = giving.number
        /\ giving'.taken = giving.taken \cup Reads(what)
    <2> DEFINE more == Reads(what)
               h == giving'
    <2>1. more \in SUBSET Numbers /\ h = [giving EXCEPT !.reads = giving.reads + 1, !.taken = giving.taken \cup more]
      BY <1>1, <1>2
    <2> HIDE DEF more, h, NumbersInv
    <2>2. /\ h.reads = giving.reads + 1 /\ h.taken = giving.taken \cup more /\ h.row = giving.row
          /\ h.kind = giving.kind /\ h.number = giving.number /\ h.seen = giving.seen
          /\ h = [kind |-> h.kind, row |-> h.row, number |-> h.number, seen |-> h.seen,
                  taken |-> h.taken, reads |-> h.reads]
      BY ONLY <1>0, <2>1 DEF Gift
    <2>3. h.reads \in 0..2 /\ h.taken \in SUBSET Numbers
      BY ONLY <1>0, <2>1, <2>2 DEF Gift
    <2>4. h \in Gift
      BY ONLY <1>0, <2>2, <2>3 DEF Gift
    <2> QED
      BY <2>2, <2>4 DEF more, h
  <1>4. NumbersTyped'
    BY <1>1, <1>3 DEF NumbersTyped
  <1>5. GiftFits'
    BY <1>0, <1>1, <1>3 DEF GiftFits
  <1>6. GoneWearNothing' /\ RecordsRetire' /\ Accounted' /\ NoTwoWearOne' /\ NumberNeverReissued'
    BY <1>1 DEF GoneWearNothing, RecordsRetire, Accounted, NoTwoWearOne, NumberNeverReissued
  <1>7. ASSUME giving.reads = 0 PROVE WornIsRead' /\ EverWornIsRead'
    <2>1. what = "rows"
      BY <1>7, TwoReads DEF what
    <2>2. elite \subseteq Reads(what)
      BY <2>1 DEF Reads, WornNumbers
    <2>3. \A q \in Runners \ {giving.row} : row[q].bib \in Reads(what) \cup {NoNumber}
      BY <2>1 DEF Reads, WornNumbers, GoneWearNothing
    <2>4. WornIsRead'
      BY <1>1, <1>3, <2>2, <2>3 DEF WornIsRead
    <2>5. giving'.reads = 1
      BY <1>3, <1>7
    <2>6. \A n \in Numbers : \A q \in worn[n] \ {giving.row} : n \in Reads(what) \cup retired \cup lost
      BY <2>3, NumbersAre DEF Accounted, NumbersTyped
    <2> QED
      BY <1>1, <1>3, <2>4, <2>5, <2>6 DEF EverWornIsRead
  <1>8. ASSUME giving.reads = 1 PROVE WornIsRead' /\ EverWornIsRead'
    <2>1. retired \subseteq Reads(what)
      BY <1>8, TwoReads DEF what, Reads
    <2>2. WornIsRead'
      BY <1>0, <1>1, <1>3, <1>8 DEF WornIsRead
    <2> QED
      BY <1>0, <1>1, <1>3, <1>8, <2>1, <2>2 DEF EverWornIsRead
  <1> QED
    BY <1>0, <1>4, <1>5, <1>6, <1>7, <1>8

(* It ends without a number. *)
LEMMA EndKeeps ==
    ASSUME NumbersInv, giving' = NotGiving, NEW more \in SUBSET Numbers,
           UNCHANGED <<row, retired, erasing, worn, lost>>,
           spare' \in [from : 0..NumberMax, to : 0..NumberMax, skipped : SUBSET Numbers],
           elite' = elite \cup more,
           \A r \in Runners : row[r].bib \notin more
    PROVE  NumbersInv'
  <1> USE DEF NumbersInv
  <1>1. NumbersTyped'
    BY DEF NumbersTyped
  <1>2. GiftFits' /\ WornIsRead' /\ EverWornIsRead'
    BY DEF GiftFits, WornIsRead, EverWornIsRead
  <1>3. GoneWearNothing' /\ RecordsRetire' /\ Accounted' /\ NoTwoWearOne' /\ NumberNeverReissued'
    BY DEF GoneWearNothing, RecordsRetire, Accounted, NoTwoWearOne, NumberNeverReissued
  <1> QED
    BY <1>1, <1>2, <1>3

(* It gives a number to its runner, whose replaced one - if any - is retired. *)
LEMMA WearKeeps ==
    ASSUME NumbersInv, giving \in Gift, giving.reads = 2, giving.row \in Runners,
           NEW n \in Numbers, n \notin giving.taken,
           Wears(giving.row, n, "CONFIRMED"), giving' = NotGiving,
           UNCHANGED <<elite, spare, erasing, lost>>,
           retired' = retired \cup ({row[giving.row].bib} \ {NoNumber})
    PROVE  NumbersInv'
  <1> USE DEF NumbersInv
  <1> DEFINE r == giving.row
  <1>0. giving # NotGiving
    BY DEF Gift, NotGiving
  <1>1. /\ row' = [row EXCEPT ![r] = [status |-> "CONFIRMED", bib |-> n]]
        /\ worn' = [worn EXCEPT ![n] = worn[n] \cup {r}]
    BY DEF Wears
  <1>2. /\ r \in Runners /\ row'[r] = [status |-> "CONFIRMED", bib |-> n]
        /\ \A q \in Runners \ {r} : row'[q] = row[q]
        /\ worn'[n] = worn[n] \cup {r}
        /\ \A m \in Numbers \ {n} : worn'[m] = worn[m]
    BY <1>1 DEF NumbersTyped
  <1>3. /\ \A q \in Runners \ {r} : row[q].bib # n
        /\ n \notin elite
    BY <1>0, NumbersAre DEF WornIsRead
  <1>4. n \notin lost => \A q \in worn[n] : q = r
    BY <1>0 DEF EverWornIsRead
  <1>5. NumbersTyped'
    <2>1. row' \in [Runners -> [status : {"entered", "CONFIRMED", "ended", "gone"}, bib : Bibs]]
      BY <1>1 DEF NumbersTyped, Bibs
    <2>2. worn' \in [Numbers -> SUBSET Runners]
      BY <1>1 DEF NumbersTyped
    <2>3. retired' \subseteq Numbers
      BY DEF NumbersTyped, Bibs
    <2> QED
      BY <2>1, <2>2, <2>3 DEF NumbersTyped
  <1>6. GiftFits' /\ WornIsRead' /\ EverWornIsRead'
    BY DEF GiftFits, WornIsRead, EverWornIsRead
  <1> HIDE DEF r
  <1>7. GoneWearNothing' /\ RecordsRetire'
    BY <1>2 DEF GoneWearNothing, RecordsRetire
  <1>8. Accounted'
    <2> SUFFICES ASSUME NEW m \in Numbers, NEW q \in worn'[m]
                 PROVE  row'[q].bib = m \/ m \in retired' \/ m \in lost'
      BY DEF Accounted
    <2>1. CASE q = r /\ m = n
      BY <2>1, <1>2
    <2>2. CASE q # r \/ m # n
      <3>1. q \in worn[m] /\ q \in Runners
        BY <2>2, <1>2 DEF NumbersTyped
      <3>2. row[q].bib = m \/ m \in retired \/ m \in lost
        BY <3>1 DEF Accounted
      <3>3. CASE q = r /\ row[q].bib = m
        BY <3>3, NumbersAre DEF r
      <3>4. CASE q # r
        BY <3>1, <3>2, <3>4, <1>2
      <3> QED
        BY <3>2, <3>3, <3>4
    <2> QED
      BY <2>1, <2>2
  <1>9. NoTwoWearOne'
    BY <1>2, <1>3, NumbersAre DEF NoTwoWearOne
  <1>10. NumberNeverReissued'
    BY <1>2, <1>4 DEF NumberNeverReissued
  <1> QED
    BY <1>5, <1>6, <1>7, <1>8, <1>9, <1>10

-----------------------------------------------------------------------------
(* The transactions under the lock. *)
LEMMA CommitsKeep ==
    ASSUME NumbersInv, CommitDraw \/ CommitHand \/ CommitSet \/ CommitElite \/ CommitSpares \/ GivingFails
    PROVE  NumbersInv'
  <1> USE DEF NumbersInv
  <1>0. ASSUME NEW kind, Ready(kind), kind # "none"
        PROVE  giving \in Gift /\ giving # NotGiving /\ giving.kind = kind /\ giving.reads = 2
    BY <1>0, TwoReads DEF Ready, NumbersTyped, NotGiving
  <1>1. CASE CommitDraw
    <2>1. giving \in Gift /\ giving.reads = 2 /\ giving.kind = "draw" /\ giving.row \in Runners
          /\ row[giving.row].bib = NoNumber
      BY <1>1, <1>0 DEF CommitDraw, GiftFits
    <2>2. PICK n \in Numbers : PickBibNumber(giving.row, giving.taken, n) /\ Wears(giving.row, n, "CONFIRMED")
      BY <1>1 DEF CommitDraw
    <2> QED
      BY <1>1, <2>1, <2>2, PickedIsFree, WearKeeps DEF CommitDraw
  <1>2. CASE CommitHand
    <2>1. giving \in Gift /\ giving.reads = 2 /\ giving.kind = "hand" /\ giving.row \in Runners
          /\ row[giving.row].bib = NoNumber /\ giving.number \in Numbers
      BY <1>2, <1>0 DEF CommitHand, GiftFits
    <2> QED
      BY <1>2, <2>1, WearKeeps DEF CommitHand
  <1>3. CASE CommitSet
    <2>1. giving \in Gift /\ giving.reads = 2 /\ giving.kind = "set" /\ giving.row \in Runners
          /\ giving.number \in Numbers
      BY <1>3, <1>0 DEF CommitSet, GiftFits
    <2>2. retired' = retired \cup ({row[giving.row].bib} \ {NoNumber})
      BY <1>3 DEF CommitSet
    <2> QED
      BY <1>3, <2>1, <2>2, WearKeeps DEF CommitSet
  <1>4. CASE CommitElite
    <2>1. giving \in Gift /\ giving # NotGiving /\ giving.reads = 2 /\ giving.row = NoNumber /\ giving.number \in Numbers
      BY <1>4, <1>0 DEF CommitElite, GiftFits
    <2>2. \A r \in Runners : row[r].bib \notin {giving.number}
      BY <1>4, <2>1, NumbersAre DEF CommitElite, WornIsRead
    <2> QED
      BY <1>4, <2>1, <2>2, EndKeeps DEF CommitElite, NumbersTyped
  <1>7. elite = elite \cup {} /\ {} \in SUBSET Numbers /\ \A r \in Runners : row[r].bib \notin {}
    OBVIOUS
  <1>5. CASE CommitSpares
    <2>1. spare' \in [from : 0..NumberMax, to : 0..NumberMax, skipped : SUBSET Numbers]
      BY <1>5, NumbersAssumption DEF CommitSpares, NumbersTyped, Numbers, RaceStart
    <2> QED
      BY <1>5, <2>1, <1>7, EndKeeps DEF CommitSpares
  <1>6. CASE GivingFails
    BY <1>6, <1>7, EndKeeps DEF GivingFails, NumbersTyped
  <1> QED
    BY <1>1, <1>2, <1>3, <1>4, <1>5, <1>6

(* Around it. *)
\* A row that keeps its number, or is free of it, may take another status.
LEMMA StatusKeeps ==
    ASSUME NumbersInv, NEW r \in Runners, row[r].status # "gone",
           NEW status \in {"entered", "CONFIRMED", "ended"},
           row' = [row EXCEPT ![r].status = status],
           UNCHANGED <<elite, retired, spare, giving, erasing, worn, lost>>
    PROVE  NumbersInv'
  <1> USE DEF NumbersInv
  <1>1. row' \in [Runners -> [status : {"entered", "CONFIRMED", "ended", "gone"}, bib : Bibs]]
    BY DEF NumbersTyped
  <1>2. \A q \in Runners : row'[q].bib = row[q].bib /\ (row'[q].status = "gone" => row[q].status = "gone")
    BY DEF NumbersTyped
  <1>3. NumbersTyped'
    BY <1>1 DEF NumbersTyped
  <1>4. GiftFits' /\ WornIsRead' /\ EverWornIsRead'
    BY <1>2 DEF GiftFits, WornIsRead, EverWornIsRead
  <1>5. GoneWearNothing' /\ RecordsRetire' /\ NumberNeverReissued'
    BY <1>2 DEF GoneWearNothing, RecordsRetire, NumberNeverReissued
  <1>6. Accounted'
    BY <1>2 DEF Accounted, NumbersTyped
  <1>7. NoTwoWearOne'
    BY <1>2 DEF NoTwoWearOne
  <1> QED
    BY <1>3, <1>4, <1>5, <1>6, <1>7

LEMMA EliteLeavesKeeps ==
    ASSUME NumbersInv, NEW n \in Numbers, DeleteEliteEntry(n)
    PROVE  NumbersInv'
  <1> USE DEF NumbersInv, DeleteEliteEntry
  <1>1. NumbersTyped' /\ GiftFits' /\ WornIsRead' /\ EverWornIsRead'
    BY DEF NumbersTyped, GiftFits, WornIsRead, EverWornIsRead
  <1>2. GoneWearNothing' /\ RecordsRetire' /\ Accounted' /\ NoTwoWearOne' /\ NumberNeverReissued'
    BY DEF GoneWearNothing, RecordsRetire, Accounted, NoTwoWearOne, NumberNeverReissued
  <1> QED
    BY <1>1, <1>2

(* An erasure reads its row. *)
LEMMA ErasureReadsKeeps ==
    ASSUME NumbersInv, NEW r \in Runners, ReadForErasure(r)
    PROVE  NumbersInv'
  <1> USE DEF NumbersInv, ReadForErasure
  <1>1. erasing' \in [Runners -> {NotErasing} \cup Erasure]
    BY DEF NumbersTyped, Erasure
  <1>2. RecordsRetire'
    BY DEF RecordsRetire, NumbersTyped
  <1>3. NumbersTyped' /\ GiftFits' /\ WornIsRead' /\ EverWornIsRead'
    BY <1>1 DEF NumbersTyped, GiftFits, WornIsRead, EverWornIsRead
  <1>4. GoneWearNothing' /\ Accounted' /\ NoTwoWearOne' /\ NumberNeverReissued'
    BY DEF GoneWearNothing, Accounted, NoTwoWearOne, NumberNeverReissued
  <1> QED
    BY <1>2, <1>3, <1>4

(* It retires the number it read. *)
LEMMA ErasureRecordsKeeps ==
    ASSUME NumbersInv, NEW r \in Runners, RecordErasure(r)
    PROVE  NumbersInv'
  <1> USE DEF NumbersInv, RecordErasure
  <1>0. erasing[r] \in Erasure
    BY DEF NumbersTyped, NotErasing
  <1>1. erasing' \in [Runners -> {NotErasing} \cup Erasure]
        /\ erasing'[r].bib = erasing[r].bib /\ \A q \in Runners \ {r} : erasing'[q] = erasing[q]
    BY <1>0 DEF NumbersTyped, Erasure
  <1>2. retired' \subseteq Numbers /\ retired \subseteq retired' /\ erasing[r].bib \in retired' \cup {NoNumber}
    BY <1>0 DEF NumbersTyped, Erasure, Bibs
  <1>3. RecordsRetire'
    BY <1>1, <1>2 DEF RecordsRetire
  <1>4. NumbersTyped' /\ GiftFits' /\ WornIsRead'
    BY <1>1, <1>2 DEF NumbersTyped, GiftFits, WornIsRead
  <1>5. Accounted' /\ EverWornIsRead'
    BY <1>2 DEF Accounted, EverWornIsRead
  <1>6. GoneWearNothing' /\ NoTwoWearOne' /\ NumberNeverReissued'
    BY DEF GoneWearNothing, NoTwoWearOne, NumberNeverReissued
  <1> QED
    BY <1>3, <1>4, <1>5, <1>6

(* It deletes the row, with whatever number it has by then. *)
LEMMA ErasureDeletesKeeps ==
    ASSUME NumbersInv, NEW r \in Runners, DeleteErased(r)
    PROVE  NumbersInv'
  <1> USE DEF NumbersInv, DeleteErased
  <1>0. erasing[r].bib \in retired \cup {NoNumber} /\ row[r].bib \in Bibs
    BY DEF RecordsRetire, NumbersTyped
  <1>1. /\ row' \in [Runners -> [status : {"entered", "CONFIRMED", "ended", "gone"}, bib : Bibs]]
        /\ row'[r].bib = NoNumber
        /\ \A q \in Runners \ {r} : row'[q] = row[q]
    BY DEF NumbersTyped, Bibs
  <1>2. lost' \subseteq Numbers /\ lost \subseteq lost' /\ row[r].bib \in lost' \cup retired \cup {NoNumber}
    BY <1>0 DEF NumbersTyped, Bibs
  <1>3. erasing' \in [Runners -> {NotErasing} \cup Erasure] /\ RecordsRetire'
    BY DEF NumbersTyped, RecordsRetire, NotErasing
  <1>4. NumbersTyped'
    BY <1>1, <1>2, <1>3 DEF NumbersTyped
  <1>5. GiftFits' /\ WornIsRead'
    BY <1>1 DEF GiftFits, WornIsRead
  <1>6. Accounted'
    BY <1>1, <1>2, NumbersAre DEF Accounted, NumbersTyped
  <1>7. EverWornIsRead'
    BY <1>2 DEF EverWornIsRead
  <1>8. GoneWearNothing' /\ NoTwoWearOne'
    BY ZenonT(40), <1>1, NumbersAre DEF GoneWearNothing, NoTwoWearOne, NumbersTyped
  <1>9. NumberNeverReissued'
    BY <1>2 DEF NumberNeverReissued
  <1> QED
    BY <1>3, <1>4, <1>5, <1>6, <1>7, <1>8, <1>9

-----------------------------------------------------------------------------
(* Every step. *)
LEMMA NumbersStep == NumbersInv /\ [NumbersNext]_numberVars => NumbersInv'
  <1> SUFFICES ASSUME NumbersInv, [NumbersNext]_numberVars PROVE NumbersInv'
    OBVIOUS
  <1>1. ASSUME NEW r \in Runners, BeginDraw(r) PROVE NumbersInv'
    BY <1>1, BeginKeeps DEF BeginDraw, Bibs
  <1>2. ASSUME NEW r \in Runners, NEW n \in Numbers, BeginHand(r, n) PROVE NumbersInv'
    BY <1>2, BeginKeeps DEF BeginHand, Bibs
  <1>3. ASSUME NEW r \in Runners, NEW n \in Numbers, BeginSet(r, n) PROVE NumbersInv'
    BY <1>3, BeginKeeps DEF BeginSet, Bibs
  <1>4. ASSUME NEW n \in Numbers, BeginElite(n) PROVE NumbersInv'
    BY <1>4, BeginKeeps DEF BeginElite, Bibs
  <1>5. CASE BeginSpares
    BY <1>5, BeginKeeps DEF BeginSpares, Bibs
  <1>6. ASSUME NEW r \in Runners, CancelRow(r) \/ ExpireRow(r) PROVE NumbersInv'
    BY <1>6, StatusKeeps DEF CancelRow, ExpireRow
  <1>7. ASSUME NEW r \in Runners, RestartRow(r) PROVE NumbersInv'
    BY <1>7, StatusKeeps DEF RestartRow
  <1>8. ASSUME NEW r \in Runners, ConfirmKept(r) PROVE NumbersInv'
    BY <1>8, StatusKeeps DEF ConfirmKept
  <1>9. CASE UNCHANGED numberVars
    BY <1>9 DEF numberVars, NumbersInv, NumbersTyped, GiftFits, GoneWearNothing, WornIsRead, RecordsRetire,
       Accounted, EverWornIsRead, NoTwoWearOne, NumberNeverReissued
  <1> QED
    BY <1>1, <1>2, <1>3, <1>4, <1>5, <1>6, <1>7, <1>8, <1>9, ReadKeeps, CommitsKeep, EliteLeavesKeeps,
       ErasureReadsKeeps, ErasureRecordsKeeps, ErasureDeletesKeeps DEF NumbersNext

LEMMA NumbersInvariant == NumbersSpec => []NumbersInv
  BY NumbersStart, NumbersStep, PTL DEF NumbersSpec

(* Every row, number list and transaction of the race numbers is well formed. *)
THEOREM NumbersTypeCorrect == NumbersSpec => []NumbersTypeOK
  <1>1. NumbersInv => NumbersTypeOK
    BY TypedIsTypeOK DEF NumbersInv
  <1> QED
    BY <1>1, NumbersInvariant, PTL

(* Whoever draws, hands, sets, reserves or erases at once, no number is on two people's chests. *)
THEOREM NoTwoWearOneHolds == NumbersSpec => []NoTwoWearOne
  <1>1. NumbersInv => NoTwoWearOne
    BY DEF NumbersInv
  <1> QED
    BY <1>1, NumbersInvariant, PTL

(* A number once given is not given to anybody else, erased or replaced though it may be, unless
   its row changed under its own erasure. *)
THEOREM NeverReissuedHolds == NumbersSpec => []NumberNeverReissued
  <1>1. NumbersInv => NumberNeverReissued
    BY DEF NumbersInv
  <1> QED
    BY <1>1, NumbersInvariant, PTL

-----------------------------------------------------------------------------
(* The members' shop. *)

Kinds == {"none", "place", "move", "save", "delete"}

(* How far each writer is along the rows it locks. *)
WritersFit ==
  /\ DOMAIN writer = Writers
  /\ \A w \in Writers :
       /\ writer[w].kind \in Kinds
       /\ writer[w].kind # "none" => writer[w].locks \in 0..Len(LocksOf(writer[w].kind))

-----------------------------------------------------------------------------
(* The order of the locks. *)

LEMMA LocksAre ==
    /\ LocksOf("move") = <<"product", "size", "order">> /\ Len(LocksOf("move")) = 3
    /\ \A kind \in Kinds \ {"move"} : LocksOf(kind) = <<"product", "size">> /\ Len(LocksOf(kind)) = 2
  BY DEF LocksOf, Kinds

LEMMA OneOrder ==
    ASSUME NEW k \in Kinds, NEW l \in Kinds, NEW i \in 1..Len(LocksOf(k)), NEW j \in 1..Len(LocksOf(l)),
           LocksOf(k)[i] = LocksOf(l)[j]
    PROVE  i = j
  <1>1. /\ i \in 1..3 /\ j \in 1..3
        /\ k # "move" => i \in 1..2
        /\ l # "move" => j \in 1..2
    BY LocksAre
  <1>2. /\ i = 1 => LocksOf(k)[i] = "product"
        /\ i = 2 => LocksOf(k)[i] = "size"
        /\ i = 3 => LocksOf(k)[i] = "order"
    BY <1>1, LocksAre
  <1>3. /\ j = 1 => LocksOf(l)[j] = "product"
        /\ j = 2 => LocksOf(l)[j] = "size"
        /\ j = 3 => LocksOf(l)[j] = "order"
    BY <1>1, LocksAre
  <1>4. i = 1 \/ i = 2 \/ i = 3
    BY <1>1
  <1>5. j = 1 \/ j = 2 \/ j = 3
    BY <1>1
  <1> QED
    BY <1>2, <1>3, <1>4, <1>5

\* Whoever keeps a writer waiting holds more locks than it does.
LEMMA BlockerIsFurther ==
    ASSUME WritersFit, NEW w \in Writers, NEW v \in BlockedBy(w)
    PROVE  /\ writer[w].locks \in 0..3 /\ writer[v].locks \in 0..3
           /\ writer[v].locks > writer[w].locks
  <1>1. /\ v \in Writers /\ Writing(w) /\ ~HasAllLocks(w) /\ Holds(v, Wants(w))
    BY DEF BlockedBy
  <1>2. /\ writer[w].kind \in Kinds /\ writer[v].kind \in Kinds
        /\ writer[w].locks \in 0..Len(LocksOf(writer[w].kind))
        /\ writer[v].locks \in 0..Len(LocksOf(writer[v].kind))
        /\ Len(LocksOf(writer[w].kind)) \in {2, 3} /\ Len(LocksOf(writer[v].kind)) \in {2, 3}
    BY <1>1, LocksAre DEF WritersFit, Writing, Holds
  <1>3. writer[w].locks + 1 \in 1..Len(LocksOf(writer[w].kind))
    BY <1>1, <1>2 DEF HasAllLocks
  <1>4. PICK i \in 1..writer[v].locks : LocksOf(writer[v].kind)[i] = LocksOf(writer[w].kind)[writer[w].locks + 1]
    BY <1>1 DEF Holds, Wants
  <1>5. i \in 1..Len(LocksOf(writer[v].kind))
    BY <1>2
  <1>6. i = writer[w].locks + 1
    BY <1>2, <1>3, <1>4, <1>5, OneOrder
  <1>7. writer[v].locks \in Nat /\ writer[w].locks \in Nat /\ writer[v].locks <= 3 /\ writer[w].locks <= 3
    <2>1. \A n \in {2, 3} : n \in Nat /\ n <= 3
      OBVIOUS
    <2>2. \A n \in {2, 3} : \A k \in 0..n : k \in Nat /\ k <= 3
      OBVIOUS
    <2> QED
      BY <1>2, <2>2
  <1>8. i \in Nat /\ i <= writer[v].locks
    BY <1>7
  <1> QED
    BY <1>6, <1>7, <1>8

-----------------------------------------------------------------------------
(* The invariant. *)

LEMMA WritersBeginFit == ShopInit => WritersFit
  BY DEF ShopInit, WritersFit, NoWrite, Kinds

LEMMA BeginFits ==
    ASSUME WritersFit, NEW w \in Writers, NEW what, BeginWrite(w, what),
           what.kind \in Kinds \ {"none"}, what.locks = 0
    PROVE  WritersFit'
  <1>1. Len(LocksOf(what.kind)) \in Nat
    BY LocksAre
  <1> QED
    BY <1>1 DEF WritersFit, BeginWrite

LEMMA DoneFits ==
    ASSUME WritersFit, NEW w \in Writers, WriteDone(w)
    PROVE  WritersFit'
  BY DEF WritersFit, WriteDone, NoWrite, Kinds

LEMMA TakeLockFits ==
    ASSUME WritersFit, NEW w \in Writers, TakeLock(w)
    PROVE  WritersFit'
  <1>1. writer[w].kind \in Kinds \ {"none"} /\ writer[w].locks \in 0..Len(LocksOf(writer[w].kind))
        /\ writer[w].locks # Len(LocksOf(writer[w].kind)) /\ Len(LocksOf(writer[w].kind)) \in {2, 3}
    BY LocksAre DEF WritersFit, TakeLock, Writing, HasAllLocks
  <1>2. writer' = [writer EXCEPT ![w] = [writer[w] EXCEPT !.locks = writer[w].locks + 1]]
    BY DEF TakeLock
  <1>3. [writer[w] EXCEPT !.locks = writer[w].locks + 1].kind = writer[w].kind
    OBVIOUS
  <1>4. \/ "locks" \notin DOMAIN writer[w]
        \/ [writer[w] EXCEPT !.locks = writer[w].locks + 1].locks = writer[w].locks + 1
    OBVIOUS
  <1> QED
    BY <1>1, <1>2, <1>3, <1>4 DEF WritersFit

LEMMA WritersStayFit == WritersFit /\ [ShopNext]_shopVars => WritersFit'
  <1> SUFFICES ASSUME WritersFit, [ShopNext]_shopVars PROVE WritersFit'
    OBVIOUS
  <1>1. CASE UNCHANGED shopVars
    BY <1>1 DEF shopVars, WritersFit
  <1>2. ASSUME NEW w \in Writers,
               \/ BeginPlace(w) \/ BeginSave(w) \/ BeginDelete(w) \/ \E o \in Orders : BeginMove(w, o)
        PROVE WritersFit'
    BY <1>2, BeginFits DEF BeginPlace, BeginSave, BeginDelete, BeginMove, Kinds
  <1>3. ASSUME NEW w \in Writers, TakeLock(w) PROVE WritersFit'
    BY <1>3, TakeLockFits
  <1>4. ASSUME NEW w \in Writers,
               \/ GiveUp(w) \/ DeleteProduct(w)
               \/ \E verb \in Verbs, actor \in {"CLUB", "MEMBER"} : MoveOrder(w, verb, actor)
               \/ \E typed \in Typed, listsSize \in BOOLEAN : SaveProduct(w, typed, listsSize)
               \/ \E o \in Orders, asked \in Quantities, paid \in BOOLEAN : PlaceOrder(w, o, asked, paid)
        PROVE WritersFit'
    <2>1. WriteDone(w)
      BY <1>4 DEF GiveUp, DeleteProduct, MoveOrder, SaveProduct, PlaceOrder
    <2> QED
      BY <2>1, DoneFits
  <1>5. ASSUME NEW o \in Orders, WindowEnds(o) PROVE WritersFit'
    BY <1>5 DEF WindowEnds, WritersFit
  <1> QED
    BY <1>1, <1>2, <1>3, <1>4, <1>5 DEF ShopNext, Verbs

\* Of those that wait for one of the set, each leads to one further along the rows, and there are
\* three rows.
LEMMA NoCircle == WritersFit => NoCircularWait
  <1> SUFFICES ASSUME WritersFit, NEW S \in (SUBSET Writers) \ {{}},
                      \A w \in S : BlockedBy(w) \cap S # {}
               PROVE  FALSE
    BY DEF NoCircularWait
  <1>1. \A w \in S : \E v \in S : v \in BlockedBy(w)
    OBVIOUS
  <1>2. PICK w1 \in S : TRUE
    OBVIOUS
  <1>3. PICK w2 \in S : w2 \in BlockedBy(w1)
    BY <1>1
  <1>4. PICK w3 \in S : w3 \in BlockedBy(w2)
    BY <1>1
  <1>5. PICK w4 \in S : w4 \in BlockedBy(w3)
    BY <1>1
  <1>6. PICK w5 \in S : w5 \in BlockedBy(w4)
    BY <1>1
  <1>7. /\ writer[w1].locks \in 0..3 /\ writer[w2].locks \in 0..3 /\ writer[w3].locks \in 0..3
        /\ writer[w4].locks \in 0..3 /\ writer[w5].locks \in 0..3
        /\ writer[w2].locks > writer[w1].locks /\ writer[w3].locks > writer[w2].locks
        /\ writer[w4].locks > writer[w3].locks /\ writer[w5].locks > writer[w4].locks
    BY <1>3, <1>4, <1>5, <1>6, BlockerIsFurther
  <1> QED
    BY <1>7

(* However many orders are placed, moved and cancelled at once, beside saves and deletions of the
   product, no set of these transactions waits in a circle for the rows the others hold: the
   product, then its size, then the order. *)
THEOREM NoCircularWaitHolds == ShopSpec => []NoCircularWait
  BY WritersBeginFit, WritersStayFit, NoCircle, PTL DEF ShopSpec

=============================================================================
