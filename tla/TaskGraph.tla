----------------------------- MODULE TaskGraph ------------------------------
(***************************************************************************)
(* What the libPMacc event system promises its callers (spec.md sections   *)
(* 4 and 8), without streams, pooled events or the task registry: the host *)
(* issues tasks, each depending on tasks issued before it; a task          *)
(* completes only after everything it depends on has completed; a caller  *)
(* blocked in waitForFinished on an EventTask returns only once every task *)
(* of it has completed.  Every issued task eventually completes and a     *)
(* blocked wait eventually returns.                                       *)
(*                                                                         *)
(* EventSystem implements this specification; MCEventSystemLive checks *)
(* it under a refinement mapping (TaskGraphRefined).                       *)
(***************************************************************************)
EXTENDS Integers

CONSTANTS
  Ids,          (* task ids, issued in increasing order                    *)
  Handles,      (* EventTask variables held by the caller                  *)
  None          (* no wait in progress                                     *)

VARIABLES
  created,      (* tasks issued so far                                     *)
  dep,          (* task -> tasks it depends on                             *)
  done,         (* tasks that have completed                               *)
  handles,      (* handle -> the tasks it names                            *)
  waiting       (* handle the host blocks on, or None                      *)

vars == <<created, dep, done, handles, waiting>>

Init ==
  /\ created = {} /\ done = {}
  /\ dep = [i \in Ids |-> {}]
  /\ handles = [h \in Handles |-> {}]
  /\ waiting = None

(* The host issues new tasks (one or several in one call), each depending *)
(* on tasks issued before it, and rearranges its handles over the issued  *)
(* tasks; it does so only while it is not blocked in a wait.              *)
Issue ==
  /\ waiting = None
  /\ created \subseteq created'
  /\ created' \subseteq Ids
  /\ dep' \in [Ids -> SUBSET Ids]
  /\ \A i \in created : dep'[i] = dep[i]
  /\ \A i \in created' \ created : \A j \in dep'[i] : j \in created' /\ j < i
  /\ handles' \in [Handles -> SUBSET created']
  /\ UNCHANGED <<done, waiting>>

(* A task whose dependencies have all completed completes.                *)
Complete(id) ==
  /\ id \in created \ done
  /\ dep[id] \subseteq done
  /\ done' = done \cup {id}
  /\ UNCHANGED <<created, dep, handles, waiting>>

(* The host blocks in waitForFinished on handle h ...                     *)
Wait(h) ==
  /\ waiting = None
  /\ waiting' = h
  /\ UNCHANGED <<created, dep, done, handles>>

(* ... and returns once every task of it has completed.                   *)
WaitReturn ==
  /\ waiting # None
  /\ handles[waiting] \subseteq done
  /\ waiting' = None
  /\ UNCHANGED <<created, dep, done, handles>>

Next ==
  \/ Issue
  \/ \E id \in Ids : Complete(id)
  \/ \E h \in Handles : Wait(h)
  \/ WaitReturn

Spec ==
  /\ Init /\ [][Next]_vars
  /\ \A id \in Ids : WF_vars(Complete(id))
  /\ WF_vars(WaitReturn)

=============================================================================
