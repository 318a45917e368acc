---------------------------- MODULE IonizeKernel ----------------------------
(***************************************************************************)
(* One thread block of KernelIonizeParticles (ionization.hpp): the threads *)
(* of a supercell walk the ion frames from the last to the first, let the  *)
(* ionizer decide how many macro electrons each ion produces, and create   *)
(* them cooperatively in freshly reserved electron frames, using a shared  *)
(* fill counter bumped with an atomic add.                                 *)
(*                                                                         *)
(* The code between two syncBlockThreads calls is one step of a thread;    *)
(* the barrier is an action of its own that releases the block once every  *)
(* thread has arrived.  Inside a segment threads only touch the shared     *)
(* state through the atomic add or through disjoint writes, so the order   *)
(* of the per-thread steps is the only interleaving that matters.          *)
(*                                                                         *)
(* Data is abstracted: a particle is a slot of a frame, the ionizer is a   *)
(* nondeterministic count of new electrons per ion.  Momentum is kept:   *)
(* the ion of thread t in frame f is <<f, t>>, and WriteElectronIntoFrame  *)
(* (ionizationMethods.hpp) gives each new electron the share              *)
(* massElectron/massIon of its parent's momentum and takes it from the   *)
(* parent.  The weighting is at least 1, so both masses are positive and  *)
(* their ratio does not depend on it; the ratio is 1/MassRatioDen and the *)
(* initial momentum a power of it, so every share is exact.              *)
(***************************************************************************)
EXTENDS Integers, FiniteSets, FiniteSetsExt

CONSTANTS
  N,                (* threads per block = cells per supercell            *)
  MaxIonFrames,     (* bound on the ion frames of the supercell           *)
  MaxNewElectrons   (* bound on electrons one ionizer call asks for       *)

ASSUME N \in Nat \ {0}
ASSUME MaxIonFrames \in Nat /\ MaxNewElectrons \in Nat

Threads == 0 .. N - 1          (* linearThreadIdx; 0 is the master        *)
Slots   == 0 .. N - 1          (* particle slots of one frame             *)
NULL    == 0                   (* frame index 0 stands for a NULL pointer *)

(* maxParticlesInFrame: the volume of the supercell, reassigned to the     *)
(* same constant at lines 139 and 314.                                     *)
maxParticlesInFrame == N

Ions == (1 .. MaxIonFrames) \X Threads
MassRatioDen == 2                        (* massIon / massElectron        *)
P0 == MassRatioDen ^ MaxNewElectrons     (* momentum of every ion         *)

VARIABLES
  pc,                (* segment each thread executes next                 *)
  arrived,           (* thread has reached the barrier ending its segment *)
  numIonFrames,      (* input: ion frames in this supercell               *)
  lastMask,          (* input: threads holding an ion in the last frame   *)
  ionFrame, isValid, (* shared: current ion frame and its validity        *)
  newFrameFillLvl,   (* shared: fill counter of the current new frame     *)
  electronFrame,     (* shared: current electron frame, NULL = 0          *)
  eFrames,           (* electron frames reserved by getEmptyFrame         *)
  isParticle, newMacroElectrons, electronId, oldFrameFillLvl, (* locals  *)
  written,           (* set of <<frame, slot>> an electron was written to *)
  nWrites,           (* number of electron writes                         *)
  requested,         (* history: electrons asked for by the ionizer       *)
  ionMomentum,       (* ion -> momentum                                   *)
  eWrites            (* electrons written: [at, parent, p]                *)

vars == <<pc, arrived, numIonFrames, lastMask, ionFrame, isValid,
          newFrameFillLvl, electronFrame, eFrames, isParticle,
          newMacroElectrons, electronId, oldFrameFillLvl, written, nWrites,
          requested, ionMomentum, eWrites>>

locals == <<isParticle, newMacroElectrons, electronId, oldFrameFillLvl>>
shared == <<ionFrame, isValid, newFrameFillLvl, electronFrame, eFrames>>
output == <<written, nWrites, requested, ionMomentum, eWrites>>
inputs == <<numIonFrames, lastMask>>

Labels == {"Setup", "Valid", "MasterInit", "LoopHead", "Ionize", "RoundInit",
           "Add", "Exit", "First", "Create1", "Second", "Create2",
           "NextFrame", "Done"}

(* Frames before the last one of a supercell are full (ParticlesBox).     *)
IonMask(f) == IF f = numIonFrames THEN lastMask ELSE Threads

(* Thread t finishes its segment and waits at the barrier before `next`.  *)
Arrive(t, next) ==
  /\ pc' = [pc EXCEPT ![t] = next]
  /\ arrived' = [arrived EXCEPT ![t] = TRUE]

(* Thread t leaves the kernel (return, or the end of the outer loop).     *)
Leave(t) ==
  /\ pc' = [pc EXCEPT ![t] = "Done"]
  /\ UNCHANGED arrived

(* WriteElectronIntoFrame (ionizationMethods.hpp 46-83): multiMask = 1,   *)
(* the clone of the parent, the electron's share massElectron/massIon of *)
(* the parent's momentum, which the parent loses.                         *)
WriteElectronIntoFrame(parent, at) ==
  LET pE == ionMomentum[parent] \div MassRatioDen
  IN  /\ eWrites' = eWrites \cup {[at |-> at, parent |-> parent, p |-> pE]}
      /\ ionMomentum' = [ionMomentum EXCEPT ![parent] = @ - pE]

(* writeElectron(parentIon, electronFrame[slot]) and the decrement        *)
(* (ionization.hpp 252-266).                                              *)
WriteElectron(t, slot) ==
  /\ written' = written \cup {<<electronFrame, slot>>}
  /\ nWrites' = nWrites + 1
  /\ newMacroElectrons' = [newMacroElectrons EXCEPT ![t] = @ - 1]
  /\ WriteElectronIntoFrame(<<ionFrame, t>>, <<electronFrame, slot>>)

Running(t, l) == pc[t] = l /\ ~arrived[t]

-----------------------------------------------------------------------------
(* Lines 124-142: the master finds the last ion frame.                     *)
Setup(t) ==
  /\ Running(t, "Setup")
  /\ IF t = 0
       THEN /\ ionFrame' = numIonFrames
            /\ isValid' = (numIonFrames > 0)
       ELSE UNCHANGED <<ionFrame, isValid>>
  /\ Arrive(t, "Valid")
  /\ UNCHANGED <<newFrameFillLvl, electronFrame, eFrames, locals, output, inputs>>

(* Lines 143-154: return if there is no frame, else init the ionizer.     *)
Valid(t) ==
  /\ Running(t, "Valid")
  /\ IF isValid THEN Arrive(t, "MasterInit") ELSE Leave(t)
  /\ UNCHANGED <<shared, locals, output, inputs>>

(* Lines 157-175: the master zeroes the fill level and the frame pointer. *)
MasterInit(t) ==
  /\ Running(t, "MasterInit")
  /\ IF t = 0
       THEN newFrameFillLvl' = 0 /\ electronFrame' = NULL
       ELSE UNCHANGED <<newFrameFillLvl, electronFrame>>
  /\ Arrive(t, "LoopHead")
  /\ UNCHANGED <<ionFrame, isValid, eFrames, locals, output, inputs>>

(* Lines 183-187: loop over valid ion frames, read the multiMask.         *)
LoopHead(t) ==
  /\ Running(t, "LoopHead")
  /\ IF isValid
       THEN /\ isParticle' = [isParticle EXCEPT ![t] = t \in IonMask(ionFrame)]
            /\ Arrive(t, "Ionize")
       ELSE /\ Leave(t)
            /\ UNCHANGED isParticle
  /\ UNCHANGED <<shared, newMacroElectrons, electronId, oldFrameFillLvl,
                 output, inputs>>

(* Lines 193-197: the ionizer raises the thread's electron counter.       *)
Ionize(t) ==
  /\ Running(t, "Ionize")
  /\ \E k \in IF isParticle[t] THEN 0 .. MaxNewElectrons ELSE {0} :
       /\ newMacroElectrons' = [newMacroElectrons EXCEPT ![t] = @ + k]
       /\ requested' = requested + k
  /\ Arrive(t, "RoundInit")
  /\ UNCHANGED <<shared, isParticle, electronId, oldFrameFillLvl, written,
                 nWrites, ionMomentum, eWrites, inputs>>

(* Mutation: the id of the previous round is not invalidated.           *)
RoundInitKeepId(t) ==
  /\ Running(t, "RoundInit")
  /\ oldFrameFillLvl' = [oldFrameFillLvl EXCEPT ![t] = newFrameFillLvl]
  /\ Arrive(t, "Add")
  /\ UNCHANGED <<shared, isParticle, newMacroElectrons, electronId, output,
                 inputs>>

(* Lines 214-216: invalidate the id, remember the shared fill level.      *)
RoundInit(t) ==
  /\ Running(t, "RoundInit")
  /\ electronId' = [electronId EXCEPT ![t] = -1]
  /\ oldFrameFillLvl' = [oldFrameFillLvl EXCEPT ![t] = newFrameFillLvl]
  /\ Arrive(t, "Add")
  /\ UNCHANGED <<shared, isParticle, newMacroElectrons, output, inputs>>

(* Mutation: off-by-one in the test for a pending electron.              *)
AddOffByOne(t) ==
  /\ Running(t, "Add")
  /\ IF newMacroElectrons[t] > 1
       THEN /\ electronId' = [electronId EXCEPT ![t] = newFrameFillLvl]
            /\ newFrameFillLvl' = newFrameFillLvl + 1
       ELSE UNCHANGED <<electronId, newFrameFillLvl>>
  /\ Arrive(t, "Exit")
  /\ UNCHANGED <<ionFrame, isValid, electronFrame, eFrames, isParticle,
                 newMacroElectrons, oldFrameFillLvl, output, inputs>>

(* Lines 223-226: atomicOp<Add>(&newFrameFillLvl, 1) returns the old value *)
Add(t) ==
  /\ Running(t, "Add")
  /\ IF newMacroElectrons[t] > 0
       THEN /\ electronId' = [electronId EXCEPT ![t] = newFrameFillLvl]
            /\ newFrameFillLvl' = newFrameFillLvl + 1
       ELSE UNCHANGED <<electronId, newFrameFillLvl>>
  /\ Arrive(t, "Exit")
  /\ UNCHANGED <<ionFrame, isValid, electronFrame, eFrames, isParticle,
                 newMacroElectrons, oldFrameFillLvl, output, inputs>>

(* Mutation: each thread leaves the loop once it has nothing left.      *)
ExitWhenDone(t) ==
  /\ Running(t, "Exit")
  /\ IF newMacroElectrons[t] = 0
       THEN Arrive(t, "NextFrame")
       ELSE Arrive(t, "First")
  /\ UNCHANGED <<shared, locals, output, inputs>>

(* Lines 229-232: break to the barrier at 309 if nobody added.            *)
Exit(t) ==
  /\ Running(t, "Exit")
  /\ IF oldFrameFillLvl[t] = newFrameFillLvl
       THEN Arrive(t, "NextFrame")
       ELSE Arrive(t, "First")
  /\ UNCHANGED <<shared, locals, output, inputs>>

(* Mutation: the master reserves a new frame in every round.            *)
FirstAlwaysReserve(t) ==
  /\ Running(t, "First")
  /\ IF t = 0
       THEN /\ eFrames' = eFrames + 1
            /\ electronFrame' = eFrames + 1
       ELSE UNCHANGED <<eFrames, electronFrame>>
  /\ Arrive(t, "Create1")
  /\ UNCHANGED <<ionFrame, isValid, newFrameFillLvl, locals, output, inputs>>

(* Lines 238-246: the master reserves a first electron frame if none.     *)
First(t) ==
  /\ Running(t, "First")
  /\ IF t = 0 /\ electronFrame = NULL
       THEN /\ eFrames' = eFrames + 1
            /\ electronFrame' = eFrames + 1
       ELSE UNCHANGED <<eFrames, electronFrame>>
  /\ Arrive(t, "Create1")
  /\ UNCHANGED <<ionFrame, isValid, newFrameFillLvl, locals, output, inputs>>

(* Lines 252-267: ids that fit the current frame are written there.       *)
Create1(t) ==
  /\ Running(t, "Create1")
  /\ IF 0 <= electronId[t] /\ electronId[t] < maxParticlesInFrame
       THEN WriteElectron(t, electronId[t])
       ELSE UNCHANGED <<written, nWrites, newMacroElectrons, ionMomentum, eWrites>>
  /\ Arrive(t, "Second")
  /\ UNCHANGED <<shared, isParticle, electronId, oldFrameFillLvl, requested, inputs>>

(* Lines 274-283: on overflow the master reserves the next frame and sets *)
(* the counter back by one frame size.                                    *)
Second(t) ==
  /\ Running(t, "Second")
  /\ IF t = 0 /\ newFrameFillLvl >= maxParticlesInFrame
       THEN /\ eFrames' = eFrames + 1
            /\ electronFrame' = eFrames + 1
            /\ newFrameFillLvl' = newFrameFillLvl - maxParticlesInFrame
       ELSE UNCHANGED <<eFrames, electronFrame, newFrameFillLvl>>
  /\ Arrive(t, "Create2")
  /\ UNCHANGED <<ionFrame, isValid, locals, output, inputs>>

(* Mutation: the id is not rebased onto the new frame.                   *)
Create2NoRebase(t) ==
  /\ Running(t, "Create2")
  /\ IF electronId[t] >= maxParticlesInFrame
       THEN /\ WriteElectron(t, electronId[t])
            /\ UNCHANGED electronId
       ELSE UNCHANGED <<electronId, written, nWrites, newMacroElectrons, ionMomentum, eWrites>>
  /\ Arrive(t, "RoundInit")
  /\ UNCHANGED <<shared, isParticle, oldFrameFillLvl, requested, inputs>>

(* Lines 290-307: ids past the old frame go to the new one.               *)
Create2(t) ==
  /\ Running(t, "Create2")
  /\ IF electronId[t] >= maxParticlesInFrame
       THEN /\ electronId' = [electronId EXCEPT ![t] = @ - maxParticlesInFrame]
            /\ WriteElectron(t, electronId[t] - maxParticlesInFrame)
       ELSE UNCHANGED <<electronId, written, nWrites, newMacroElectrons, ionMomentum, eWrites>>
  /\ Arrive(t, "RoundInit")
  /\ UNCHANGED <<shared, isParticle, oldFrameFillLvl, requested, inputs>>

(* Mutation: the master walks to the next frame instead of the previous. *)
NextFrameForward(t) ==
  /\ Running(t, "NextFrame")
  /\ IF t = 0
       THEN /\ ionFrame' = ionFrame + 1
            /\ isValid' = (ionFrame + 1 > 0)
       ELSE UNCHANGED <<ionFrame, isValid>>
  /\ Arrive(t, "LoopHead")
  /\ UNCHANGED <<newFrameFillLvl, electronFrame, eFrames, locals, output, inputs>>

(* Lines 311-316: the master steps to the previous ion frame.             *)
NextFrame(t) ==
  /\ Running(t, "NextFrame")
  /\ IF t = 0
       THEN /\ ionFrame' = ionFrame - 1
            /\ isValid' = (ionFrame - 1 > 0)
       ELSE UNCHANGED <<ionFrame, isValid>>
  /\ Arrive(t, "LoopHead")
  /\ UNCHANGED <<newFrameFillLvl, electronFrame, eFrames, locals, output, inputs>>

(* syncBlockThreads: once every thread waits at the same barrier, all     *)
(* continue.  Threads waiting at different barriers never get released.   *)
Barrier ==
  /\ \A t \in Threads : arrived[t]
  /\ \A s, t \in Threads : pc[s] = pc[t]
  /\ arrived' = [t \in Threads |-> FALSE]
  /\ UNCHANGED <<pc, inputs, shared, locals, output>>

(* The kernel has ended for every thread of the block.                    *)
Terminated == \A t \in Threads : pc[t] = "Done"

-----------------------------------------------------------------------------
Init ==
  /\ numIonFrames \in 0 .. MaxIonFrames
  /\ lastMask \in SUBSET Threads \ {{}}
  /\ pc = [t \in Threads |-> "Setup"]
  /\ arrived = [t \in Threads |-> FALSE]
  /\ ionFrame = 0 /\ isValid = FALSE
  /\ newFrameFillLvl = 0 /\ electronFrame = NULL /\ eFrames = 0
  /\ isParticle = [t \in Threads |-> FALSE]
  /\ newMacroElectrons = [t \in Threads |-> 0]
  /\ electronId = [t \in Threads |-> -1]
  /\ oldFrameFillLvl = [t \in Threads |-> 0]
  /\ written = {} /\ nWrites = 0 /\ requested = 0
  /\ ionMomentum = [i \in Ions |-> P0] /\ eWrites = {}

ThreadStep(t) ==
  \/ Setup(t) \/ Valid(t) \/ MasterInit(t) \/ LoopHead(t) \/ Ionize(t)
  \/ RoundInit(t) \/ Add(t) \/ Exit(t) \/ First(t) \/ Create1(t) \/ Second(t)
  \/ Create2(t) \/ NextFrame(t)

Next ==
  \/ \E t \in Threads : ThreadStep(t)
  \/ Barrier
  \/ Terminated /\ UNCHANGED vars

Spec == Init /\ [][Next]_vars

-----------------------------------------------------------------------------
TypeOK ==
  /\ pc \in [Threads -> Labels]
  /\ arrived \in [Threads -> BOOLEAN]
  /\ numIonFrames \in 0 .. MaxIonFrames /\ lastMask \in SUBSET Threads
  /\ ionFrame \in 0 .. MaxIonFrames /\ isValid \in BOOLEAN
  /\ newFrameFillLvl \in Nat /\ electronFrame \in 0 .. eFrames
  /\ eFrames \in Nat
  /\ isParticle \in [Threads -> BOOLEAN]
  /\ newMacroElectrons \in [Threads -> Nat]
  /\ electronId \in [Threads -> Int]
  /\ oldFrameFillLvl \in [Threads -> Nat]
  /\ written \subseteq (Nat \X Int) /\ nWrites \in Nat /\ requested \in Nat
  /\ ionMomentum \in [Ions -> 0 .. P0]
  /\ \A w \in eWrites : w.p \in 0 .. P0 /\ w.parent \in Ions

(* syncBlockThreads is only defined when the whole block reaches the same *)
(* barrier: no two threads wait at different barriers and no thread has   *)
(* left the kernel while another waits.  The break at line 229 and the    *)
(* returns at lines 143 and 183 depend on shared values only.             *)
NoBarrierDivergence ==
  \A s, t \in Threads :
     arrived[s] => (pc[t] = pc[s] \/ (~arrived[t] /\ pc[t] # "Done"))

(* No electron slot is written twice: the ids handed out by the atomic add *)
(* and their rebasing at line 292 give every new electron its own slot,   *)
(* also across rounds of the while(true) loop and across ion frames.      *)
ElectronSlotsExclusive == nWrites = Cardinality(written)

(* Every electron is written into a reserved frame (never through the     *)
(* NULL pointer) and at a slot inside the frame: CREATE 2 does not check  *)
(* electronId - maxParticlesInFrame < maxParticlesInFrame.                *)
ElectronWritesInBounds ==
  \A w \in written : w[1] \in 1 .. eFrames /\ w[2] \in Slots

(* When the block has finished, every electron the ionizer asked for has  *)
(* been written and no thread keeps a pending count.                      *)
AllRequestedCreated ==
  Terminated =>
     /\ nWrites = requested
     /\ \A t \in Threads : newMacroElectrons[t] = 0

(* When the block has finished, the new electron frames are packed: every *)
(* reserved frame but the last is full and the last holds exactly the     *)
(* slots below the shared fill level (fillAllGaps relies on this).        *)
ElectronFramesPacked ==
  Terminated =>
     written = { <<f, s>> \in (1 .. eFrames) \X Slots :
                   f < eFrames \/ s < newFrameFillLvl }

=============================================================================
