--------------------------- MODULE MCEventSystem ----------------------------
(* Model-checking instances of EventSystem: two streams, two pooled      *)
(* events for three tasks (so an event is recycled while a handle still   *)
(* names its old task), two caller-held handles, one level of             *)
(* transactions.                                                          *)
EXTENDS EventSystem, TLC

CONSTANTS q1, q2, e1, e2, e3, h1, h2

MCQueues == {q1, q2}
MCEventSlots == {e1, e2}
MCHandles == {h1, h2}

(* Three events, enough for the three tasks of one CallUpdate.           *)
MCEventSlots3 == {e1, e2, e3}
MCSymmetry3 == Permutations(MCQueues) \cup Permutations(MCEventSlots3)
                 \cup Permutations(MCHandles)
MCMaxTasks == 3

(* One handle: the liveness run checks progress of the queues, not the    *)
(* caller's bookkeeping.                                                  *)
MCOneHandle == {h1}
MCMaxTxDepth == 1

(* Streams, pooled events and handles are interchangeable names.          *)
MCSymmetry == Permutations(MCQueues) \cup Permutations(MCEventSlots)
                \cup Permutations(MCHandles)
=============================================================================
