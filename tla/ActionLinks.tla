---------------------------- MODULE ActionLinks ----------------------------
(***************************************************************************)
(* The links of one registration's emails, statement by statement under    *)
(* READ COMMITTED.  Issuing is three statements of one transaction: the    *)
(* live links of the purpose are invalidated, the new one is inserted (one *)
(* live row per purpose, by a unique index) and the old ones are told      *)
(* which link replaced them.  Spending is one conditional UPDATE in the    *)
(* transaction that acts, committed or rolled back with it.                *)
(***************************************************************************)
EXTENDS Integers, FiniteSets

CONSTANTS Tokens,      \* rows that may be inserted, numbered as they are created
          Sessions,    \* the workers that render and the people who press
          Purposes,    \* purposes whose new link replaces the old
          Declaring,   \* COMPLETE_DECLARATION: its new link may replace an offer's too
          Offering,    \* WAITLIST_OFFER
          Switching,   \* LIST_CONSENT: the press that spends it issues the next
          Family       \* REGISTER_ANOTHER_PERSON: its earlier links stay live

ASSUME LinksAssumption ==
  /\ Tokens \subseteq Nat \ {0}
  /\ {Declaring, Offering, Switching} \subseteq Purposes
  /\ Declaring # Offering /\ Declaring # Switching
  /\ Family \notin Purposes /\ "none" \notin Purposes \cup {Family}

VARIABLES token,    \* email_action_tokens
          work      \* what each session's open transaction has done

linkVars == <<token, work>>

AllPurposes == Purposes \cup {Family}
NoToken == 0
Rows == [purpose : AllPurposes \cup {"none"}, used : BOOLEAN, invalidated : BOOLEAN,
         by : Tokens \cup {NoToken}]
NoRow == [purpose |-> "none", used |-> FALSE, invalidated |-> FALSE, by |-> NoToken]

Steps == {"idle", "spent", "replacing", "inserting", "inserted"}
Transactions == [step : Steps, purpose : AllPurposes \cup {"none"}, spent : Tokens \cup {NoToken},
                 seen : SUBSET Tokens, old : SUBSET Tokens, row : Tokens \cup {NoToken}]
NoTransaction == [step |-> "idle", purpose |-> "none", spent |-> NoToken, seen |-> {}, old |-> {},
                  row |-> NoToken]

LinkTypeOK == token \in [Tokens -> Rows] /\ work \in [Sessions -> Transactions]

LinkInit == token = [t \in Tokens |-> NoRow] /\ work = [s \in Sessions |-> NoTransaction]

Issued(t) == token[t].purpose # "none"
LiveLink(t) == Issued(t) /\ ~token[t].used /\ ~token[t].invalidated

(* The row locks an open transaction holds: the link it spent and the ones it invalidated. *)
LockedBy(s) == work[s].old \cup ({work[s].spent} \ {NoToken})
Free(t, s) == \A q \in Sessions \ {s} : t \notin LockedBy(q)

-----------------------------------------------------------------------------
(* Issuing a link. *)

(* The purposes whose live links the new one replaces. *)
Replaced(purpose, offersToo) ==
  IF purpose = Family THEN {}
  ELSE {purpose} \cup (IF purpose = Declaring /\ offersToo THEN {Offering} ELSE {})

(* The UPDATE begins: the rows it will visit are the ones it sees live, its own spent one not. *)
Visited(s, purposes) == {t \in Tokens : LiveLink(t) /\ token[t].purpose \in purposes /\ t # work[s].spent}

StartIssue(s, purpose, offersToo) ==
  /\ \/ work[s].step = "idle"
     \/ work[s].step = "spent" /\ purpose = Switching /\ token[work[s].spent].purpose = Switching
  /\ work' = [work EXCEPT ![s].step = "replacing", ![s].purpose = purpose,
                          ![s].seen = Visited(s, Replaced(purpose, offersToo))]
  /\ UNCHANGED token

(* Mutant: a row that changed while the UPDATE waited for it is written all the same. *)
StillAsSeen(s) == work[s].seen

(* A row another transaction held is looked at again once it is free. *)
StillLive(s) == {t \in work[s].seen : LiveLink(t)}

Invalidate(s) ==
  /\ work[s].step = "replacing"
  /\ \A t \in work[s].seen : Free(t, s)
  /\ work' = [work EXCEPT ![s].step = "inserting", ![s].seen = {}, ![s].old = StillLive(s)]
  /\ UNCHANGED token

(* Mutant: no unique index. *)
NeverCollides(s) == FALSE

(* The unique index: a live row of the purpose this transaction has neither spent nor replaced. *)
Collides(s) ==
  /\ work[s].purpose # Family
  /\ \E t \in Tokens : LiveLink(t) /\ token[t].purpose = work[s].purpose
                       /\ t \notin work[s].old /\ t # work[s].spent

(* The index makes an INSERT wait for another transaction's row of the same purpose. *)
WaitsForIndex(s) ==
  /\ work[s].purpose # Family
  /\ \E q \in Sessions \ {s} : work[q].step = "inserted" /\ work[q].purpose = work[s].purpose

Unused(t) == ~Issued(t) /\ \A q \in Sessions : work[q].row # t

Insert(s, t) ==
  /\ work[s].step = "inserting" /\ ~WaitsForIndex(s) /\ ~Collides(s)
  /\ Unused(t) /\ \A k \in Tokens : k < t => ~Unused(k)
  /\ work' = [work EXCEPT ![s].step = "inserted", ![s].row = t]
  /\ UNCHANGED token

(* The insert is refused: the transaction rolls back, its render fails. *)
InsertRefused(s) ==
  /\ work[s].step = "inserting" /\ ~WaitsForIndex(s) /\ Collides(s)
  /\ work' = [work EXCEPT ![s] = NoTransaction]
  /\ UNCHANGED token

Committed(s) ==
  [t \in Tokens |->
     IF t = work[s].row
     THEN [purpose |-> work[s].purpose, used |-> FALSE, invalidated |-> FALSE, by |-> NoToken]
     ELSE IF t \in work[s].old
     THEN [token[t] EXCEPT !.invalidated = TRUE, !.by = work[s].row]
     ELSE IF t = work[s].spent THEN [token[t] EXCEPT !.used = TRUE]
     ELSE token[t]]

(* The old links are told which one replaced them, and the transaction commits. *)
CommitIssue(s) ==
  /\ work[s].step = "inserted"
  /\ token' = Committed(s)
  /\ work' = [work EXCEPT ![s] = NoTransaction]

-----------------------------------------------------------------------------
(* Spending one. *)

(* consumeActionToken: every condition in the WHERE of one UPDATE, evaluated on the row once
   nobody else holds it.  A link past its expiry is one that nobody presses any more. *)
Press(s, t) ==
  /\ work[s].step = "idle" /\ Free(t, s) /\ LiveLink(t)
  /\ work' = [work EXCEPT ![s].step = "spent", ![s].spent = t]
  /\ UNCHANGED token

CommitPress(s) ==
  /\ work[s].step = "spent" /\ token[work[s].spent].purpose # Switching
  /\ token' = Committed(s)
  /\ work' = [work EXCEPT ![s] = NoTransaction]

(* The act is refused, or the process dies: the transaction rolls back and the link is as it was. *)
RollBack(s) ==
  /\ work[s].step # "idle"
  /\ work' = [work EXCEPT ![s] = NoTransaction]
  /\ UNCHANGED token

LinkNext ==
  \/ \E s \in Sessions : \E p \in AllPurposes, offersToo \in BOOLEAN : StartIssue(s, p, offersToo)
  \/ \E s \in Sessions : Invalidate(s) \/ InsertRefused(s) \/ CommitIssue(s) \/ CommitPress(s) \/ RollBack(s)
  \/ \E s \in Sessions, t \in Tokens : Insert(s, t) \/ Press(s, t)

LinkSpec == LinkInit /\ [][LinkNext]_linkVars

-----------------------------------------------------------------------------
(* Properties. *)

(* evaluateActionToken, in its order. *)
StateOf(t) == IF ~Issued(t) THEN "unissued"
              ELSE IF token[t].invalidated THEN "replaced"
              ELSE IF token[t].used THEN "acted" ELSE "works"

L == INSTANCE LinkLedger WITH
       Links <- Tokens, Uses <- AllPurposes, KeptUses <- {Family},
       use <- [t \in Tokens |-> token[t].purpose], state <- [t \in Tokens |-> StateOf(t)]

(* However the statements of renders and presses interleave, what is committed is a ledger of
   links: a new one replaces every working one of its purpose, each is acted on once. *)
LinksKeepTheLedger == L!Ledger
=============================================================================
