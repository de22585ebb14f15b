----------------------------- MODULE LinkLedger -----------------------------
(***************************************************************************)
(* What the emails promise of their links, said without transactions: one  *)
(* working link for each use of a registration, acted on once, and the     *)
(* newest one issued is the one that works.                                *)
(***************************************************************************)
CONSTANTS Links,     \* the links that may ever be issued
          Uses,      \* what a link is for
          KeptUses   \* the uses whose earlier links stay alive

VARIABLES use,       \* what each link is for; "none" before it is issued
          state      \* "unissued", "works", "acted" or "replaced"

ledger == <<use, state>>

Working(u) == {l \in Links : state[l] = "works" /\ use[l] = u}

LedgerInit ==
  /\ use = [l \in Links |-> "none"]
  /\ state = [l \in Links |-> "unissued"]

(* A new link of one use: every earlier working link of the use is replaced by it, and links
   of other uses may be. *)
NewLink(l, u) ==
  /\ state[l] = "unissued"
  /\ use' = [use EXCEPT ![l] = u]
  /\ \E replaced \in SUBSET {k \in Links : state[k] = "works"} :
       /\ u \notin KeptUses => Working(u) \subseteq replaced
       /\ state' = [k \in Links |-> IF k = l THEN "works"
                                    ELSE IF k \in replaced THEN "replaced" ELSE state[k]]

Act(l) ==
  /\ state[l] = "works"
  /\ state' = [state EXCEPT ![l] = "acted"]
  /\ UNCHANGED use

(* The list's switch: the press spends its link and is answered with the next. *)
ActAndRenew(l, next) ==
  /\ state[l] = "works" /\ state[next] = "unissued"
  /\ use[l] \in KeptUses \/ Working(use[l]) = {l}
  /\ use' = [use EXCEPT ![next] = use[l]]
  /\ state' = [state EXCEPT ![l] = "acted", ![next] = "works"]

LedgerNext ==
  \/ \E l \in Links, u \in Uses : NewLink(l, u)
  \/ \E l \in Links : Act(l)
  \/ \E l, next \in Links : ActAndRenew(l, next)

Ledger == LedgerInit /\ [][LedgerNext]_ledger

(* Two working links of one use are the same link, except of the uses that keep theirs. *)
OneWorkingLink ==
  \A k, l \in Links :
    state[k] = "works" /\ state[l] = "works" /\ use[k] = use[l] /\ use[k] \notin KeptUses => k = l
=============================================================================
