---------------------------- MODULE MCAllocation ----------------------------
(***************************************************************************)
(* The small instances TLC checks the allocator on: who there is, and the  *)
(* settings the editor posts.  A .cfg picks from these.                    *)
(***************************************************************************)
EXTENDS AllocationProperties

Nobody == {}
One == {1}
JustTwo == {2}
Two == {1, 2}
Three == {1, 2, 3}

\* One place, an endless line served on its own.
OnePlace == [status |-> "SCHEDULED", capacity |-> 1, kept |-> 0,
             auto |-> TRUE, offerOnly |-> FALSE, waitCap |-> None]
TwoPlaces == [OnePlace EXCEPT !.capacity = 2]
KeptShortLine == [TwoPlaces EXCEPT !.kept = 1, !.waitCap = 1]

\* The line served by hand, and the cap lifted while people wait in it.
ByHand == [OnePlace EXCEPT !.auto = FALSE]
UncappedByHand == [ByHand EXCEPT !.capacity = None]
Uncapped == [OnePlace EXCEPT !.capacity = None]

NoForms == {}
OneOrTwoPlaces == {OnePlace, TwoPlaces}
EveryCap == {OnePlace, TwoPlaces, ByHand, Uncapped}
CapAndLineByHand == {ByHand, UncappedByHand, Uncapped}
=============================================================================
