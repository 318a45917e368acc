------------------------------- MODULE YeeStep -------------------------------
(***************************************************************************)
(* The field update of one time step (YeeSolver::update_beforeCurrent and  *)
(* update_afterCurrent, fields/MaxwellSolver/Yee/YeeSolver.hpp) issued     *)
(* through the transaction mechanism of the event system, with the device  *)
(* running every task as soon as the tasks it depends on have finished.    *)
(*                                                                         *)
(* A task touches regions of the two fields: the cells of the CORE, the    *)
(* BORDER (sent to the neighbours) and the GUARD (received from them).     *)
(* A kernel over an AREA writes its field there and reads the other field  *)
(* in the AREA and its stencil neighbours; a field's asyncCommunication    *)
(* reads its BORDER (send) and writes its GUARD (receive).                 *)
(*                                                                         *)
(* Transactions (spec.md 4.4): a kernel depends on the accumulated event   *)
(* of the current transaction and is added to it; asyncCommunication runs  *)
(* its receive and send in transactions of their own on the event passed  *)
(* in and returns their union with that event, which the caller adds to   *)
(* the current transaction later (__setTransactionEvent).                  *)
(***************************************************************************)
EXTENDS Integers, FiniteSets, Sequences

CONSTANTS
  Steps,       (* time steps issued                                       *)
  LaserOn      (* laserProfile::INIT_TIME > 0: laserManipulation is called *)

ASSUME Steps \in Nat \ {0} /\ LaserOn \in BOOLEAN

Fields == {"E", "B"}
Areas  == {"CORE", "BORDER", "GUARD"}
Regions == Fields \X Areas

Other(f) == IF f = "E" THEN "B" ELSE "E"

(* The cells a stencil over `area` reads: the neighbours of CORE cells    *)
(* are CORE or BORDER cells, those of BORDER cells reach into the GUARD.  *)
Reach(area) ==
  UNION { CASE a = "CORE" -> {"CORE", "BORDER"}
            [] a = "BORDER" -> Areas
            [] a = "GUARD" -> {"GUARD"} : a \in area }

(* A kernel launch of the program, or a step of the transaction context.  *)
Kernel(name, r, w) == [kind |-> "kernel", name |-> name, reads |-> r, writes |-> w]
Comm(f, h) == [kind |-> "comm", field |-> f, handle |-> h]
SetTx(h) == [kind |-> "settx", handle |-> h]

(* Lines 64-107: updateE<AREA> computes curl B, updateBHalf<AREA> curl E. *)
Curl(name, f, area) ==
  Kernel(name, ({Other(f)} \X Reach(area)) \cup ({f} \X area), {f} \X area)
UpdateE(area) == Curl("updateE", "E", area)
UpdateBHalf(area) == Curl("updateBHalf", "B", area)

(* FieldManipulator::absorbBorder and laserManipulation rewrite cells of  *)
(* the simulation volume of one field.                                    *)
Absorb(f) == Kernel("absorbBorder", {f} \X {"CORE", "BORDER"}, {f} \X {"CORE", "BORDER"})
Laser == Kernel("laser", {}, {"E"} \X {"CORE", "BORDER"})

(* Mutation: the border of E is updated before the received guard of B  *)
(* has been added to the transaction.                                     *)
BeforeCurrentLateSetTx ==
  << UpdateBHalf({"CORE", "BORDER"}),
     Comm("B", "eRfieldB"),
     UpdateE({"CORE"}),
     UpdateE({"BORDER"}),
     SetTx("eRfieldB") >>

(* Lines 119-127.                                                         *)
BeforeCurrent ==
  << UpdateBHalf({"CORE", "BORDER"}),
     Comm("B", "eRfieldB"),
     UpdateE({"CORE"}),
     SetTx("eRfieldB"),
     UpdateE({"BORDER"}) >>

(* Lines 129-145.                                                         *)
AfterCurrent ==
  << Absorb("E") >>
  \o (IF LaserOn THEN << Laser >> ELSE << >>)
  \o << Comm("E", "eRfieldE"),
        UpdateBHalf({"CORE"}),
        SetTx("eRfieldE"),
        UpdateBHalf({"BORDER"}),
        Absorb("B"),
        Comm("B", "eRfieldB"),
        SetTx("eRfieldB") >>

RECURSIVE Repeat(_, _)
Repeat(s, n) == IF n = 0 THEN << >> ELSE s \o Repeat(s, n - 1)

Program == Repeat(BeforeCurrent \o AfterCurrent, Steps)

(* Tasks a program creates: one per kernel, a receive and a send per     *)
(* communication.                                                         *)
TaskCount == LET k(op) == IF op.kind = "kernel" THEN 1
                          ELSE IF op.kind = "comm" THEN 2 ELSE 0
                 RECURSIVE S(_)
                 S(i) == IF i = 0 THEN 0 ELSE k(Program[i]) + S(i - 1)
             IN  S(Len(Program))

Ids == 1 .. TaskCount
Handles == {"eRfieldB", "eRfieldE"}

VARIABLES
  ip,          (* host: next operation of the program                     *)
  txEvent,     (* host: accumulated event of the current transaction      *)
  handle,      (* host: EventTask locals eRfieldB, eRfieldE               *)
  nextId,      (* host: next task id                                      *)
  deps,        (* task -> tasks it waits for                              *)
  reads,       (* task -> regions it reads                                *)
  writes,      (* task -> regions it writes                               *)
  started,     (* device: tasks whose work has begun                      *)
  finished     (* device: tasks whose event has been reached              *)

vars == <<ip, txEvent, handle, nextId, deps, reads, writes, started, finished>>
host == <<ip, txEvent, handle, nextId, deps, reads, writes>>

Created == 1 .. nextId - 1

(* Register task id with its dependency and its accesses.                 *)
Create(id, dep, r, w) ==
  /\ deps' = [deps EXCEPT ![id] = dep]
  /\ reads' = [reads EXCEPT ![id] = r]
  /\ writes' = [writes EXCEPT ![id] = w]

-----------------------------------------------------------------------------
(* A kernel launch inside the current transaction.                        *)
LaunchKernel ==
  LET op == Program[ip] IN
  /\ ip <= Len(Program) /\ op.kind = "kernel"
  /\ Create(nextId, txEvent, op.reads, op.writes)
  /\ txEvent' = txEvent \cup {nextId}
  /\ nextId' = nextId + 1
  /\ ip' = ip + 1
  /\ UNCHANGED <<handle, started, finished>>

(* FieldB/FieldE::asyncCommunication(__getTransactionEvent()) (FieldB.tpp *)
(* lines 129-134): receive and send on the transaction event, their union *)
(* with it kept in the caller's handle.                                   *)
AsyncCommunication ==
  LET op == Program[ip]
      recv == nextId
      send == nextId + 1
  IN
  /\ ip <= Len(Program) /\ op.kind = "comm"
  /\ deps' = [deps EXCEPT ![recv] = txEvent, ![send] = txEvent]
  /\ reads' = [reads EXCEPT ![recv] = {}, ![send] = {<<op.field, "BORDER">>}]
  /\ writes' = [writes EXCEPT ![recv] = {<<op.field, "GUARD">>}, ![send] = {}]
  /\ handle' = [handle EXCEPT ![op.handle] = txEvent \cup {recv, send}]
  /\ nextId' = nextId + 2
  /\ ip' = ip + 1
  /\ UNCHANGED <<txEvent, started, finished>>

(* __setTransactionEvent(h): the transaction accumulates h.               *)
SetTransactionEvent ==
  LET op == Program[ip] IN
  /\ ip <= Len(Program) /\ op.kind = "settx"
  /\ txEvent' = txEvent \cup handle[op.handle]
  /\ ip' = ip + 1
  /\ UNCHANGED <<handle, nextId, deps, reads, writes, started, finished>>

(* Device: a task begins once everything it depends on has finished.      *)
Start(id) ==
  /\ id \in Created \ started
  /\ deps[id] \subseteq finished
  /\ started' = started \cup {id}
  /\ UNCHANGED <<host, finished>>

(* Device: a running task completes and its event is reached.             *)
Finish(id) ==
  /\ id \in started \ finished
  /\ finished' = finished \cup {id}
  /\ UNCHANGED <<host, started>>

Done == ip > Len(Program) /\ finished = Created

Init ==
  /\ ip = 1
  /\ txEvent = {}
  /\ handle = [h \in Handles |-> {}]
  /\ nextId = 1
  /\ deps = [i \in Ids |-> {}]
  /\ reads = [i \in Ids |-> {}]
  /\ writes = [i \in Ids |-> {}]
  /\ started = {} /\ finished = {}

Next ==
  \/ LaunchKernel \/ AsyncCommunication \/ SetTransactionEvent
  \/ \E id \in Ids : Start(id) \/ Finish(id)
  \/ Done /\ UNCHANGED vars

Spec == Init /\ [][Next]_vars

-----------------------------------------------------------------------------
(* Two tasks conflict when one writes a region the other reads or writes. *)
Conflict(a, b) ==
  \/ writes[a] \cap (reads[b] \cup writes[b]) # {}
  \/ writes[b] \cap reads[a] # {}

(* Every task that conflicts with an earlier one starts only after that   *)
(* one has finished: the overlap of the halo exchange with the CORE       *)
(* updates (YeeSolver.hpp lines 122-126 and 135-139) never lets a kernel  *)
(* read a guard before it is received, a send read a border before it is  *)
(* written, or two writers of a region run together.                     *)
ConflictsOrdered ==
  \A a, b \in Created :
     a < b /\ Conflict(a, b) /\ b \in started => a \in finished

=============================================================================
