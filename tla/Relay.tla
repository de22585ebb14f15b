-------------------------------- MODULE Relay --------------------------------
(***************************************************************************)
(* A visitor's message on its two roads, Gmail and Mailgun: claimed by a   *)
(* worker, handed to one road at a time, and answered, refused or lost on  *)
(* the way.  A worker may stop anywhere; what a service has taken stays    *)
(* taken, whether or not anybody wrote it down.                            *)
(***************************************************************************)
EXTENDS Integers, FiniteSets

CONSTANTS FailoverAfter,    \* RELAY_FAILOVER_AFTER
          PinReleaseAfter,  \* RELAY_PIN_RELEASE_AFTER
          TriesInADay,      \* bound: the attempts the backoff leaves room for in a day
          StopsMax          \* bound: how often a worker stops halfway

ASSUME RelayAssumption ==
  FailoverAfter \in Nat /\ PinReleaseAfter \in Nat /\ TriesInADay \in Nat /\ StopsMax \in Nat

Roads == {"gmail", "mailgun"}
OtherRoad(road) == IF road = "gmail" THEN "mailgun" ELSE "gmail"

VARIABLES message,   \* the row: its status, whether it is due, what each road failed, its words
          hand,      \* the worker that holds it, with what it read at its claim
          taken,     \* the roads whose service has the message
          dayOver,   \* RELAY_GIVE_UP_MS has passed since it was queued
          stops,     \* how many workers stopped
          unwritten  \* a worker stopped after a service took the message and before it said so

relayVars == <<message, hand, taken, dayOver, stops, unwritten>>

NoFailure == [count |-> 0, ambiguous |-> FALSE]
Nobody == [at |-> "none"]
Ended == {"SENT", "BOUNCED", "FAILED"}
Counts == 0..(TriesInADay + FailoverAfter + 1)

RelayTypeOK ==
  /\ message \in [status : {"PENDING", "PROCESSING"} \cup Ended, due : BOOLEAN, words : BOOLEAN,
                  chosen : Roads, fallback : BOOLEAN,
                  failures : [Roads -> [count : Counts, ambiguous : BOOLEAN]]]
  /\ hand.at \in {"none", "claimed", "asked"}
  /\ taken \subseteq Roads /\ dayOver \in BOOLEAN /\ stops \in 0..StopsMax /\ unwritten \in BOOLEAN

RelayInit ==
  /\ \E road \in Roads, fallback \in BOOLEAN :
       message = [status |-> "PENDING", due |-> TRUE, words |-> TRUE, chosen |-> road,
                  fallback |-> fallback, failures |-> [r \in Roads |-> NoFailure]]
  /\ hand = Nobody /\ taken = {} /\ dayOver = FALSE /\ stops = 0 /\ unwritten = FALSE

Count(failures, road) == failures[road].count
TriesSoFar == Count(message.failures, "gmail") + Count(message.failures, "mailgun")

-----------------------------------------------------------------------------
(* Which road next. *)

MayUse(road) == road = message.chosen \/ message.fallback

Pins(failures) ==
  LET pinned == IF failures[message.chosen].ambiguous THEN {message.chosen}
                ELSE {r \in Roads : failures[r].ambiguous}
  IN {r \in pinned : Count(failures, r) < PinReleaseAfter}

(* The chosen road until it has failed twice; then the one that failed less, the chosen on a tie. *)
InTurn(failures, available) ==
  LET chosen == message.chosen
      other == OtherRoad(chosen)
  IN IF ~available[other] \/ ~MayUse(other) THEN {r \in {chosen} : available[r]}
     ELSE IF ~available[chosen] THEN {other}
     ELSE IF \/ Count(failures, chosen) < FailoverAfter
             \/ Count(failures, chosen) <= Count(failures, other) THEN {chosen}
     ELSE {other}

(* planRoad: the road to send by now; none when it must wait. *)
PlanRoad(failures, available) ==
  LET stopped == {r \in Pins(failures) : ~available[r]}
      kept == Pins(failures) \ stopped
      stuck == {r \in stopped : ~available[OtherRoad(r)] \/ ~MayUse(OtherRoad(r))}
  IN IF kept # {} THEN kept ELSE IF stuck # {} THEN {} ELSE InTurn(failures, available)

(* Mutant: the latest failure decides whether the road may have the message. *)
LatestFailure(failures, road, ambiguous, atOnce) ==
  [failures EXCEPT ![road].count = IF atOnce /\ @ + 1 < FailoverAfter THEN FailoverAfter ELSE @ + 1,
                   ![road].ambiguous = ambiguous]

WithFailure(failures, road, ambiguous, atOnce) ==
  [failures EXCEPT ![road].count = IF atOnce /\ @ + 1 < FailoverAfter THEN FailoverAfter ELSE @ + 1,
                   ![road].ambiguous = @ \/ ambiguous]

-----------------------------------------------------------------------------
(* The worker. *)

(* The roads' state is read once, after the claim. *)
TakeMessage ==
  /\ hand = Nobody
  /\ \/ message.status = "PENDING" /\ message.due
     \/ message.status = "PROCESSING"    \* its worker stopped, and the lease ran out
  /\ TriesSoFar < TriesInADay \/ dayOver
  /\ message' = [message EXCEPT !.status = "PROCESSING", !.due = FALSE]
  /\ \E available \in [Roads -> BOOLEAN] :
       hand' = [at |-> "claimed", failures |-> message.failures, available |-> available]
  /\ UNCHANGED <<taken, dayOver, stops, unwritten>>

PlannedRoad == PlanRoad(hand.failures, hand.available)

Ends(status) == [message EXCEPT !.status = status, !.words = FALSE]

(* Mutant: a message no road can carry waits however old it is. *)
WaitsForever == message' = [message EXCEPT !.status = "PENDING"]

(* No road can carry it now: it waits, and past its day it is given up. *)
WaitsOrEnds ==
  message' = IF dayOver THEN Ends("FAILED") ELSE [message EXCEPT !.status = "PENDING"]

NoRoad ==
  /\ hand.at = "claimed" /\ PlannedRoad = {}
  /\ WaitsOrEnds
  /\ hand' = Nobody
  /\ UNCHANGED <<taken, dayOver, stops, unwritten>>

RoadAnswers == {"sent", "recipient", "service", "stop", "ambiguous"}

(* The call: the service takes the message or not, and says something or nothing. *)
Ask(answers) ==
  /\ hand.at = "claimed"
  /\ \E road \in PlannedRoad, answer \in answers :
       /\ hand' = [at |-> "asked", failures |-> hand.failures, available |-> hand.available,
                   road |-> road, answer |-> answer]
       /\ \/ answer = "sent" /\ taken' = taken \cup {road}
          \/ answer = "ambiguous" /\ taken' \in {taken, taken \cup {road}}
          \/ answer \notin {"sent", "ambiguous"} /\ taken' = taken
  /\ UNCHANGED <<message, dayOver, stops, unwritten>>

Answered(next) == hand' = Nobody /\ message' = next /\ UNCHANGED <<taken, dayOver, stops, unwritten>>

Sent == hand.at = "asked" /\ hand.answer = "sent" /\ Answered(Ends("SENT"))
Refused == hand.at = "asked" /\ hand.answer = "recipient" /\ Answered(Ends("BOUNCED"))
HeldForThePace ==
  hand.at = "asked" /\ hand.answer = "paced" /\ Answered([message EXCEPT !.status = "PENDING"])

(* The service's failure: counted against its road, and the end of a message past its day. *)
Failed ==
  /\ hand.at = "asked" /\ hand.answer \in {"service", "stop", "ambiguous"}
  /\ LET failures == WithFailure(hand.failures, hand.road, hand.answer = "ambiguous",
                                 hand.answer = "stop")
     IN Answered([(IF dayOver THEN Ends("FAILED") ELSE [message EXCEPT !.status = "PENDING"])
                    EXCEPT !.failures = failures])

-----------------------------------------------------------------------------
(* Around the worker. *)

WorkerStops ==
  /\ hand # Nobody /\ stops < StopsMax
  /\ stops' = stops + 1 /\ hand' = Nobody
  /\ unwritten' = (unwritten \/ (hand.at = "asked" /\ hand.road \in taken))
  /\ UNCHANGED <<message, taken, dayOver>>

ComesDue ==
  /\ message.status = "PENDING" /\ ~message.due
  /\ message' = [message EXCEPT !.due = TRUE]
  /\ UNCHANGED <<hand, taken, dayOver, stops, unwritten>>

DayPasses ==
  /\ ~dayOver /\ dayOver' = TRUE
  /\ UNCHANGED <<message, hand, taken, stops, unwritten>>

Try == Ask(RoadAnswers)
RelayWorks == TakeMessage \/ NoRoad \/ Try \/ Ask({"paced"}) \/ Sent \/ Refused \/ HeldForThePace \/ Failed

RelayNext == RelayWorks \/ WorkerStops \/ ComesDue \/ DayPasses

(* Gmail's pace spaces the sends out: it does not hold the same message back every time. *)
RelayFairness ==
  /\ WF_relayVars(RelayWorks) /\ SF_relayVars(Try)
  /\ WF_relayVars(ComesDue) /\ WF_relayVars(DayPasses)

RelaySpec == RelayInit /\ [][RelayNext]_relayVars /\ RelayFairness

(* A message that has not ended, or whose words are still kept. *)
StillOurs == message.status \notin Ended \/ message.words

-----------------------------------------------------------------------------
(* Properties. *)

(* A second road takes a message the first already has only once the first has failed it
   PinReleaseAfter times or is stopped, or when this road may have it already too, or when a
   worker stopped before it could write down that the first had taken it; and a road the club did
   not allow never has it. *)
SecondRoadOnlyWhenReleased ==
  [][\A road \in taken' \ taken :
       /\ MayUse(road)
       /\ OtherRoad(road) \in taken =>
            \/ unwritten \/ hand.failures[road].ambiguous
            \/ Count(hand.failures, OtherRoad(road)) >= PinReleaseAfter
            \/ ~hand.available[OtherRoad(road)]]_relayVars
=============================================================================
