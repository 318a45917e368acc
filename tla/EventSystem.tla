---------------------------- MODULE EventSystem -----------------------------
(***************************************************************************)
(* The asynchronous task/event scheduler of libPMacc: one host thread      *)
(* creates stream tasks, each bound to an accelerator queue (EventStream), *)
(* records a pooled device event behind its work (StreamTask::activate),   *)
(* and tracks completion through the task registry (TaskManager) and the   *)
(* copyable EventTask handles.  Transactions make every task created in    *)
(* their scope depend on the transaction's event and add the task to it.   *)
(*                                                                         *)
(* The queues run concurrently with the host and with each other: each     *)
(* queue executes its submissions in order, a cross-queue dependency is a  *)
(* wait item that blocks the queue until the awaited task's event has been *)
(* recorded.                                                               *)
(*                                                                         *)
(* The host-side composite calls ParticlesBase::asyncCommunication and     *)
(* CallUpdate run on the single host thread without any other host call   *)
(* in between, so each is one action that creates all of its tasks.        *)
(***************************************************************************)
EXTENDS Integers, FiniteSets, SequencesExt, Functions

CONSTANTS
  Queues,       (* the EventStreams of the StreamController               *)
  EventSlots,   (* the events of the pool; fewer than tasks, so reused    *)
  Handles,      (* EventTask variables held by the caller                 *)
  MaxTasks,     (* bound on task ids created in one behaviour             *)
  MaxTxDepth    (* bound on nested transactions                           *)

ASSUME MaxTasks \in Nat \ {0} /\ MaxTxDepth \in Nat
ASSUME Queues # {} /\ EventSlots # {} /\ Handles # {}

Ids == 1 .. MaxTasks
NoQueue == "NoQueue"
NoSlot  == "NoSlot"

VARIABLES
  nextId,       (* next task id; ids are never reused                     *)
  tstate,       (* task id -> "None" | "Active" (registered) | "Done"     *)
  task,         (* task id -> [q: its stream, slot: its event, dep: ...]  *)
  notified,     (* task id -> observer notifications sent on destruction  *)
  handles,      (* handle -> EventTask (set of task ids)                  *)
  txStack,      (* transaction stack; each entry is its EventTask         *)
  waiting,      (* handle the host blocks on in waitForFinished, or None  *)
  queue,        (* queue -> pending submissions, executed head first      *)
  freeSlots,    (* events back in the pool                                *)
  slotReached,  (* event -> has its last record been reached              *)
  workDone,     (* device: tasks whose work has executed                  *)
  recorded      (* device: tasks whose event record has executed          *)

hostVars   == <<nextId, tstate, task, notified, handles, txStack, waiting>>
deviceVars == <<queue, freeSlots, slotReached, workDone, recorded>>
vars == <<hostVars, deviceVars>>

None == "None"
Modes == {"assign", "add"}   (* ev = ... or ev += ...                      *)

NoTask == [q |-> NoQueue, slot |-> NoSlot, dep |-> {}]

-----------------------------------------------------------------------------
(* StreamTask::isFinished: query the task's own (pooled) event.            *)
TaskFinished(id) == slotReached[task[id].slot]

(* Mutation: a member is judged by its event alone, also after it has    *)
(* been collected and its event recycled.                                 *)
IsFinishedByEvent(E) == \A d \in E : TaskFinished(d)

(* EventTask::isFinished: every member is finished; a member that has     *)
(* been removed from the registry is a tombstone and counts as finished.  *)
IsFinished(E) == \A d \in E : tstate[d] = "Done" \/ TaskFinished(d)

(* ev = x  or  ev += x  on a caller-held EventTask.                       *)
Store(h, mode, E) ==
  [handles EXCEPT ![h] = IF mode = "add" THEN @ \cup E ELSE E]

(* The transaction event new tasks depend on: the top of the stack.       *)
TxEvent == IF txStack = <<>> THEN {} ELSE Last(txStack)

(* setTransactionEvent: the top transaction accumulates the new tasks.    *)
AddToTx(E) ==
  IF txStack = <<>> THEN txStack
  ELSE [txStack EXCEPT ![Len(txStack)] = @ \cup E]

(* Queue a task is (or will be) bound to while it is live, given the      *)
(* tasks `new` being created in the same call.                            *)
LiveQueue(d, new) ==
  IF d \in DOMAIN new THEN new[d].q
  ELSE IF tstate[d] = "Active" THEN task[d].q ELSE NoQueue

(* Mutation: the waits are inserted for the members on the same stream.  *)
WaitItemsSameQueue(q, dep, new) ==
  LET far == {d \in dep : LiveQueue(d, new) = q}
  IN  [k \in 1 .. Cardinality(far) |->
         [op |-> "wait", on |-> SetToSortSeq(far, <)[k]]]

(* Before a task's own work, its stream waits on every live member of the *)
(* dependency that runs on another stream; the same stream is in order.   *)
WaitItems(q, dep, new) ==
  LET far == {d \in dep : LiveQueue(d, new) \notin {q, NoQueue}}
  IN  [k \in 1 .. Cardinality(far) |->
         [op |-> "wait", on |-> SetToSortSeq(far, <)[k]]]

(* Mutation: init() issues the copy but never calls activate().          *)
InitTaskNoActivate(id, slot) == << [op |-> "work", task |-> id] >>

(* Mutation: activate() before the copy is issued on the stream.          *)
InitTaskActivateFirst(id, slot) ==
  << [op |-> "record", task |-> id, slot |-> slot], [op |-> "work", task |-> id] >>

(* TaskCopyDeviceToHost::init: issue the copy on the task's stream, then  *)
(* activate(): record the task's event behind it.                         *)
InitTask(id, slot) ==
  << [op |-> "work", task |-> id], [op |-> "record", task |-> id, slot |-> slot] >>

(* Mutation: the pool hands out an event without resetting it.           *)
AcquireEventsNoReset(taken) == slotReached

(* EventPool: events taken for new tasks are reset before reuse.          *)
AcquireEvents(taken) ==
  [s \in EventSlots |-> IF s \in taken THEN FALSE ELSE slotReached[s]]

(* Mutation: the tasks of one call are submitted in reverse order of      *)
(* their creation.                                                        *)
SpawnReversed(new) ==
  LET ids == Reverse(SetToSortSeq(DOMAIN new, <))
      ItemsOn(q) ==
        FlattenSeq([k \in 1 .. Len(ids) |->
          IF new[ids[k]].q = q
            THEN WaitItems(q, new[ids[k]].dep, new) \o InitTask(ids[k], new[ids[k]].slot)
            ELSE << >>])
      taken == {new[i].slot : i \in DOMAIN new}
  IN
  /\ nextId' = nextId + Len(ids)
  /\ tstate' = [i \in Ids |-> IF i \in DOMAIN new THEN "Active" ELSE tstate[i]]
  /\ task' = [i \in Ids |-> IF i \in DOMAIN new THEN new[i] ELSE task[i]]
  /\ queue' = [q \in Queues |-> queue[q] \o ItemsOn(q)]
  /\ freeSlots' = freeSlots \ taken
  /\ slotReached' = AcquireEvents(taken)

(* Mutation: tasks are registered before they are bound to a stream.    *)
SpawnUnbound(new) ==
  LET ids == SetToSortSeq(DOMAIN new, <)
      ItemsOn(q) ==
        FlattenSeq([k \in 1 .. Len(ids) |->
          IF new[ids[k]].q = q
            THEN WaitItems(q, new[ids[k]].dep, new) \o InitTask(ids[k], new[ids[k]].slot)
            ELSE << >>])
      taken == {new[i].slot : i \in DOMAIN new}
  IN
  /\ nextId' = nextId + Len(ids)
  /\ tstate' = [i \in Ids |-> IF i \in DOMAIN new THEN "Active" ELSE tstate[i]]
  /\ task' = task
  /\ queue' = [q \in Queues |-> queue[q] \o ItemsOn(q)]
  /\ freeSlots' = freeSlots \ taken
  /\ slotReached' = AcquireEvents(taken)

(* Create and start the tasks `new` (id -> [q, slot, dep]): register them,*)
(* take their events from the pool (reset before reuse) and submit their  *)
(* waits, work and event records in id order.                             *)
Spawn(new) ==
  LET ids == SetToSortSeq(DOMAIN new, <)
      ItemsOn(q) ==
        FlattenSeq([k \in 1 .. Len(ids) |->
          IF new[ids[k]].q = q
            THEN WaitItems(q, new[ids[k]].dep, new) \o InitTask(ids[k], new[ids[k]].slot)
            ELSE << >>])
      taken == {new[i].slot : i \in DOMAIN new}
  IN
  /\ nextId' = nextId + Len(ids)
  /\ tstate' = [i \in Ids |-> IF i \in DOMAIN new THEN "Active" ELSE tstate[i]]
  /\ task' = [i \in Ids |-> IF i \in DOMAIN new THEN new[i] ELSE task[i]]
  /\ queue' = [q \in Queues |-> queue[q] \o ItemsOn(q)]
  /\ freeSlots' = freeSlots \ taken
  /\ slotReached' = AcquireEvents(taken)

(* k fresh ids with k distinct events from the pool.                      *)
FreshIds(k) == nextId .. nextId + k - 1
CanSpawn(k) == nextId + k - 1 <= MaxTasks /\ Cardinality(freeSlots) >= k
SlotChoices(k) == {f \in [FreshIds(k) -> freeSlots] : IsInjective(f)}

-----------------------------------------------------------------------------
(* Host: a collaborator creates one stream task inside the current        *)
(* transaction and keeps its EventTask in h (ev = factory call).          *)
Submit(q, h) ==
  /\ waiting = None /\ CanSpawn(1)
  /\ \E sl \in SlotChoices(1) :
       Spawn([i \in FreshIds(1) |-> [q |-> q, slot |-> sl[i], dep |-> TxEvent]])
  /\ txStack' = AddToTx({nextId})
  /\ handles' = [handles EXCEPT ![h] = {nextId}]
  /\ UNCHANGED <<notified, waiting, workDone, recorded>>

(* Host: __startTransaction(ev).                                          *)
StartTransaction(h) ==
  /\ waiting = None /\ Len(txStack) < MaxTxDepth
  /\ txStack' = Append(txStack, handles[h])
  /\ UNCHANGED <<nextId, tstate, task, notified, handles, waiting, deviceVars>>

(* Host: ev = __endTransaction()  or  ev += __endTransaction().           *)
EndTransaction(h, mode) ==
  /\ waiting = None /\ txStack # << >>
  /\ handles' = Store(h, mode, Last(txStack))
  /\ txStack' = Front(txStack)
  /\ UNCHANGED <<nextId, tstate, task, notified, waiting, deviceVars>>

(* Host: ParticlesBase::asyncCommunication(event): a receive task in one  *)
(* transaction on event, a send task in a second one on the same event,   *)
(* the union of both transaction events returned.                         *)
AsyncCommunication(hIn, hOut, mode, qr, qs) ==
  LET ev == handles[hIn]
      r == nextId
      s == nextId + 1
  IN
  /\ waiting = None /\ CanSpawn(2)
  /\ \E sl \in SlotChoices(2) :
       Spawn((r :> [q |-> qr, slot |-> sl[r], dep |-> ev]) @@
             (s :> [q |-> qs, slot |-> sl[s], dep |-> ev]))
  /\ handles' = Store(hOut, mode, ev \cup {r, s})
  /\ UNCHANGED <<txStack, notified, waiting, workDone, recorded>>

(* Host: CallUpdate for a species with a pusher: in a transaction on      *)
(* eventInt the push (update) is issued, the communication is started on  *)
(* the transaction event and added to commEvent, and the transaction      *)
(* event is added to updateEvent.                                         *)
CallUpdate(hIn, hUpd, hComm, qu, qr, qs) ==
  LET eventInt == handles[hIn]
      u == nextId
      r == nextId + 1
      s == nextId + 2
      txEv == eventInt \cup {u}
  IN
  /\ waiting = None /\ hUpd # hComm /\ CanSpawn(3)
  /\ \E sl \in SlotChoices(3) :
       Spawn((u :> [q |-> qu, slot |-> sl[u], dep |-> eventInt]) @@
             (r :> [q |-> qr, slot |-> sl[r], dep |-> txEv]) @@
             (s :> [q |-> qs, slot |-> sl[s], dep |-> txEv]))
  /\ handles' = [handles EXCEPT ![hComm] = @ \cup txEv \cup {r, s},
                                ![hUpd] = @ \cup txEv]
  /\ UNCHANGED <<txStack, notified, waiting, workDone, recorded>>

(* Host: TaskManager polls a registered task (executeIntern returns       *)
(* isFinished()); a finished task is removed and destroyed: its           *)
(* destructor notifies the observers and its event goes back to the pool. *)
Poll(id) ==
  /\ tstate[id] = "Active"
  /\ TaskFinished(id)
  /\ tstate' = [tstate EXCEPT ![id] = "Done"]
  /\ notified' = [notified EXCEPT ![id] = @ + 1]
  /\ freeSlots' = freeSlots \cup {task[id].slot}
  /\ UNCHANGED <<nextId, task, handles, txStack, waiting, queue, slotReached,
                 workDone, recorded>>

(* Host: EventTask::waitForFinished() blocks the host thread ...          *)
Wait(h) ==
  /\ waiting = None
  /\ waiting' = h
  /\ UNCHANGED <<nextId, tstate, task, notified, handles, txStack, deviceVars>>

(* ... polling while the handle is not finished ...                       *)
WaitSpin ==
  /\ waiting # None
  /\ ~IsFinished(handles[waiting])
  /\ UNCHANGED vars

(* ... and returns once the handle reports finished.                      *)
WaitReturn ==
  /\ waiting # None
  /\ IsFinished(handles[waiting])
  /\ waiting' = None
  /\ UNCHANGED <<nextId, tstate, task, notified, handles, txStack, deviceVars>>

-----------------------------------------------------------------------------
HeadItem(q) == queue[q][1]
PopItem(q) == [queue EXCEPT ![q] = Tail(@)]

(* Device: a wait item blocks its queue until the awaited event is reached *)
DeviceWait(q) ==
  /\ queue[q] # << >> /\ HeadItem(q).op = "wait"
  /\ HeadItem(q).on \in recorded
  /\ queue' = PopItem(q)
  /\ UNCHANGED <<hostVars, freeSlots, slotReached, workDone, recorded>>

(* Device: the task's work (copy, kernel, send ...) executes.             *)
DeviceWork(q) ==
  /\ queue[q] # << >> /\ HeadItem(q).op = "work"
  /\ workDone' = workDone \cup {HeadItem(q).task}
  /\ queue' = PopItem(q)
  /\ UNCHANGED <<hostVars, freeSlots, slotReached, recorded>>

(* Device: the queue reaches the task's event record.                     *)
DeviceRecord(q) ==
  /\ queue[q] # << >> /\ HeadItem(q).op = "record"
  /\ slotReached' = [slotReached EXCEPT ![HeadItem(q).slot] = TRUE]
  /\ recorded' = recorded \cup {HeadItem(q).task}
  /\ queue' = PopItem(q)
  /\ UNCHANGED <<hostVars, freeSlots, workDone>>

-----------------------------------------------------------------------------
Init ==
  /\ nextId = 1
  /\ tstate = [i \in Ids |-> "None"]
  /\ task = [i \in Ids |-> NoTask]
  /\ notified = [i \in Ids |-> 0]
  /\ handles = [h \in Handles |-> {}]
  /\ txStack = << >>
  /\ waiting = None
  /\ queue = [q \in Queues |-> << >>]
  /\ freeSlots = EventSlots
  /\ slotReached = [s \in EventSlots |-> FALSE]
  /\ workDone = {} /\ recorded = {}

HostStep ==
  \/ \E q \in Queues, h \in Handles : Submit(q, h)
  \/ \E h \in Handles : StartTransaction(h)
  \/ \E h \in Handles, m \in Modes : EndTransaction(h, m)
  \/ \E hIn, hOut \in Handles, m \in Modes, qr, qs \in Queues :
       AsyncCommunication(hIn, hOut, m, qr, qs)
  \/ \E hIn, hUpd, hComm \in Handles, qu, qr, qs \in Queues :
       CallUpdate(hIn, hUpd, hComm, qu, qr, qs)
  \/ \E id \in Ids : Poll(id)
  \/ \E h \in Handles : Wait(h)
  \/ WaitSpin
  \/ WaitReturn

DeviceStep ==
  \E q \in Queues : DeviceWait(q) \/ DeviceWork(q) \/ DeviceRecord(q)

Next == HostStep \/ DeviceStep

(* Every queue keeps executing (the accelerator runs submitted work to    *)
(* completion), the wait loop and the TaskManager keep polling, and a     *)
(* blocked waitForFinished returns once it may.                           *)
Fairness ==
  /\ \A q \in Queues :
       WF_vars(DeviceWait(q)) /\ WF_vars(DeviceWork(q)) /\ WF_vars(DeviceRecord(q))
  /\ \A id \in Ids : WF_vars(Poll(id))
  /\ WF_vars(WaitReturn)

Spec == Init /\ [][Next]_vars /\ Fairness

-----------------------------------------------------------------------------
TypeOK ==
  /\ nextId \in 1 .. MaxTasks + 1
  /\ tstate \in [Ids -> {"None", "Active", "Done"}]
  /\ \A i \in Ids : tstate[i] # "None" =>
        task[i] \in [q : Queues, slot : EventSlots, dep : SUBSET Ids]
  /\ notified \in [Ids -> Nat]
  /\ handles \in [Handles -> SUBSET Ids]
  /\ txStack \in Seq(SUBSET Ids) /\ Len(txStack) <= MaxTxDepth
  /\ waiting \in Handles \cup {None}
  /\ freeSlots \subseteq EventSlots
  /\ slotReached \in [EventSlots -> BOOLEAN]
  /\ workDone \subseteq Ids /\ recorded \subseteq Ids

(* A task's work never starts on its queue before every task of the       *)
(* transaction event it was created under has reached its event, whether  *)
(* that task runs on the same queue or on another one (spec section 8).   *)
DependencyRespected ==
  \A id \in workDone : task[id].dep \subseteq recorded

(* A task is only reported finished, through its pooled event or by its   *)
(* removal from the registry, once its own work and its own event record  *)
(* have executed: a recycled event never reports a stale "reached", and a *)
(* host reader that waits for a TaskCopyDeviceToHost sees the copied data *)
(* behind the current size init() set at once.                           *)
NoPhantomCompletion ==
  \A id \in Ids :
     /\ tstate[id] = "Active" /\ TaskFinished(id) => id \in workDone \cap recorded
     /\ tstate[id] = "Done" => id \in workDone \cap recorded

(* EventTask::isFinished is monotonic: a held handle that reports         *)
(* finished keeps reporting finished, also after its tasks have been      *)
(* collected and their events handed to new tasks.                        *)
FinishedMonotonic ==
  [][\A h \in Handles :
       (IsFinished(handles[h]) /\ handles'[h] = handles[h])
         => IsFinished(handles[h])'
    ]_vars

(* Tasks of one stream finish in the order they were created, which is   *)
(* the order their init() submitted them: a task reported finished by     *)
(* EventTask::isFinished implies every earlier task of its stream is      *)
(* reported finished too, also when their events have been recycled      *)
(* (spec section 8).                                                      *)
StreamInOrder ==
  \A i, j \in Ids :
     /\ j < i /\ tstate[i] # "None" /\ task[j].q = task[i].q
     /\ IsFinished({i})
     => IsFinished({j})

(* Every task the host creates is eventually finished and collected: the  *)
(* queues cannot wait on each other forever and every task records its    *)
(* event.                                                                 *)
TaskEventuallyCollected ==
  \A id \in Ids : tstate[id] = "Active" ~> tstate[id] = "Done"

-----------------------------------------------------------------------------
(* The refinement mapping: a task is issued once it is registered, it has  *)
(* completed once its event record has executed on its stream, and the    *)
(* caller's handles and wait are the same.  The pooled events, the queues  *)
(* and the registry's collection of finished tasks are hidden.            *)
TG == INSTANCE TaskGraph WITH
        created <- {i \in Ids : tstate[i] # "None"},
        dep <- [i \in Ids |-> task[i].dep],
        done <- recorded

(* The event system implements its abstract specification: no stream     *)
(* records a task's event before the events of all tasks it depends on,  *)
(* across streams and through reused pool events; waitForFinished returns *)
(* only when every task of the handle has reached its event; and under    *)
(* the streams' and the TaskManager's fairness every task reaches its     *)
(* event and every wait returns.                                          *)
TaskGraphRefined == TG!Spec

=============================================================================
