---------------------------- MODULE EnergyKernel ----------------------------
(***************************************************************************)
(* KernelEnergyParticles (plugins/EnergyParticles.hpp:55-166): every block  *)
(* walks the particle frames of its supercell from the last to the first;  *)
(* each thread sums the energy of the particle in its slot, the threads    *)
(* then add their sums atomically to a shared sum, and the master thread   *)
(* adds the block's sum atomically to the global result.                   *)
(*                                                                         *)
(* The code between two syncBlockThreads calls is one step of a thread, a  *)
(* barrier of a block is an action of its own.  Blocks only meet in the    *)
(* atomic adds to the global result.                                       *)
(*                                                                         *)
(* Data is abstracted: a particle's energy is the particle itself, so the *)
(* sums are bags of particles <<block, frame, slot>> and adding is bag     *)
(* union; a particle counted twice or a slot without particle counted      *)
(* shows in the bag.  Kinetic and total energy follow the same path        *)
(* (lines 124/132 and 138, 154 and 155, 162 and 163) and are one bag here. *)
(***************************************************************************)
EXTENDS Integers, FiniteSets, Bags, Functions

CONSTANTS
  N,           (* threads per block = particle slots per frame            *)
  Blocks,      (* the supercells of the area (CORE + BORDER)              *)
  MaxFrames    (* bound on the frames of one supercell                    *)

ASSUME N \in Nat \ {0} /\ MaxFrames \in Nat /\ Blocks # {}

Threads == 0 .. N - 1
Frames  == 1 .. MaxFrames

VARIABLES
  numFrames,   (* input: block -> frames of its supercell                 *)
  lastMask,    (* input: block -> slots holding a particle in the last one *)
  pc,          (* block -> thread -> segment executed next                *)
  arrived,     (* block -> thread -> waits at the barrier ending it       *)
  frame,       (* shared: block -> current frame, 0 once none is left     *)
  isValid,     (* shared: block -> is the current frame valid             *)
  shEnergy,    (* shared: block -> bag summed by atomicAdd                *)
  isParticle,  (* register: block -> thread -> slot holds a particle      *)
  localEnergy, (* register: block -> thread -> this thread's sum          *)
  gEnergy      (* global: the result buffer gEnergy                       *)

inputs == <<numFrames, lastMask>>
vars == <<numFrames, lastMask, pc, arrived, frame, isValid, shEnergy,
          isParticle, localEnergy, gEnergy>>

Labels == {"Setup", "Start", "Next", "Head", "Global", "Done"}

(* The particles of the block: every frame but the last one is full.      *)
Particles(b) ==
  { p \in {b} \X Frames \X Threads :
      p[2] <= numFrames[b] /\ (p[2] < numFrames[b] \/ p[3] \in lastMask[b]) }

AllParticles == UNION {Particles(b) : b \in Blocks}

(* multiMask of slot t in frame f of block b.                             *)
InFrame(b, f, t) == <<b, f, t>> \in Particles(b)

(* Thread t of block b ends its segment and waits at the next barrier.    *)
Arrive(b, t, next) ==
  /\ pc' = [pc EXCEPT ![b][t] = next]
  /\ arrived' = [arrived EXCEPT ![b][t] = TRUE]

Leave(b, t) ==
  /\ pc' = [pc EXCEPT ![b][t] = "Done"]
  /\ UNCHANGED arrived

Running(b, t, l) == pc[b][t] = l /\ ~arrived[b][t]

(* Lines 106-140: the thread adds the energy of the particle in its slot. *)
Accumulate(b, t, part) ==
  localEnergy' = [localEnergy EXCEPT ![b][t] =
                    IF part THEN @ (+) SetToBag({<<b, frame[b], t>>}) ELSE @]

-----------------------------------------------------------------------------
(* Lines 68-94: zero the thread's sums; the master takes the last frame   *)
(* and zeroes the shared sums.                                            *)
Setup(b, t) ==
  /\ Running(b, t, "Setup")
  /\ localEnergy' = [localEnergy EXCEPT ![b][t] = EmptyBag]
  /\ IF t = 0
       THEN /\ frame' = [frame EXCEPT ![b] = numFrames[b]]
            /\ isValid' = [isValid EXCEPT ![b] = numFrames[b] > 0]
            /\ shEnergy' = [shEnergy EXCEPT ![b] = EmptyBag]
       ELSE UNCHANGED <<frame, isValid, shEnergy>>
  /\ Arrive(b, t, "Start")
  /\ UNCHANGED <<inputs, isParticle, gEnergy>>

(* Mutation: a thread whose slot of the last frame is empty returns.     *)
StartReturnEmpty(b, t) ==
  /\ Running(b, t, "Start")
  /\ IF isValid[b] /\ InFrame(b, frame[b], t)
       THEN /\ isParticle' = [isParticle EXCEPT ![b][t] = TRUE]
            /\ Accumulate(b, t, TRUE)
            /\ Arrive(b, t, "Next")
       ELSE /\ Leave(b, t)
            /\ UNCHANGED <<isParticle, localEnergy>>
  /\ UNCHANGED <<inputs, frame, isValid, shEnergy, gEnergy>>

(* Mutation: the multiMask of the last frame is not consulted.            *)
StartIgnoreMask(b, t) ==
  /\ Running(b, t, "Start")
  /\ IF isValid[b]
       THEN /\ isParticle' = [isParticle EXCEPT ![b][t] = TRUE]
            /\ Accumulate(b, t, TRUE)
            /\ Arrive(b, t, "Next")
       ELSE /\ Leave(b, t)
            /\ UNCHANGED <<isParticle, localEnergy>>
  /\ UNCHANGED <<inputs, frame, isValid, shEnergy, gEnergy>>

(* Lines 95-141: return if there is no frame; read the multiMask of the   *)
(* last frame (line 102) and sum its particle.                            *)
Start(b, t) ==
  /\ Running(b, t, "Start")
  /\ IF isValid[b]
       THEN /\ isParticle' = [isParticle EXCEPT ![b][t] = InFrame(b, frame[b], t)]
            /\ Accumulate(b, t, InFrame(b, frame[b], t))
            /\ Arrive(b, t, "Next")
       ELSE /\ Leave(b, t)
            /\ UNCHANGED <<isParticle, localEnergy>>
  /\ UNCHANGED <<inputs, frame, isValid, shEnergy, gEnergy>>

(* Mutation: the master steps to the next frame instead of the previous. *)
NextForward(b, t) ==
  /\ Running(b, t, "Next")
  /\ IF t = 0
       THEN /\ frame' = [frame EXCEPT ![b] = @ + 1]
            /\ isValid' = [isValid EXCEPT ![b] = frame[b] + 1 > 0]
       ELSE UNCHANGED <<frame, isValid>>
  /\ isParticle' = [isParticle EXCEPT ![b][t] = TRUE]
  /\ Arrive(b, t, "Head")
  /\ UNCHANGED <<inputs, shEnergy, localEnergy, gEnergy>>

(* Lines 143-150: the master steps to the previous frame; every slot of   *)
(* the frames before the last one holds a particle.                       *)
Next_(b, t) ==
  /\ Running(b, t, "Next")
  /\ IF t = 0
       THEN /\ frame' = [frame EXCEPT ![b] = @ - 1]
            /\ isValid' = [isValid EXCEPT ![b] = frame[b] - 1 > 0]
       ELSE UNCHANGED <<frame, isValid>>
  /\ isParticle' = [isParticle EXCEPT ![b][t] = TRUE]
  /\ Arrive(b, t, "Head")
  /\ UNCHANGED <<inputs, shEnergy, localEnergy, gEnergy>>

(* Mutation: the barrier at line 157 is missing; the master goes on to   *)
(* the global add right after its own shared add.                         *)
HeadNoSync(b, t) ==
  /\ Running(b, t, "Head")
  /\ IF isValid[b]
       THEN /\ Accumulate(b, t, isParticle[b][t])
            /\ Arrive(b, t, "Next")
            /\ UNCHANGED shEnergy
       ELSE /\ shEnergy' = [shEnergy EXCEPT ![b] = @ (+) localEnergy[b][t]]
            /\ IF t = 0 THEN pc' = [pc EXCEPT ![b][t] = "Global"]
                        ELSE pc' = [pc EXCEPT ![b][t] = "Done"]
            /\ UNCHANGED <<localEnergy, arrived>>
  /\ UNCHANGED <<inputs, frame, isValid, isParticle, gEnergy>>

(* Lines 104-141 once more, or, when no frame is left, lines 154-157:     *)
(* atomicAdd of the thread's sums to the shared sums.                     *)
Head(b, t) ==
  /\ Running(b, t, "Head")
  /\ IF isValid[b]
       THEN /\ Accumulate(b, t, isParticle[b][t])
            /\ Arrive(b, t, "Next")
            /\ UNCHANGED shEnergy
       ELSE /\ shEnergy' = [shEnergy EXCEPT ![b] = @ (+) localEnergy[b][t]]
            /\ Arrive(b, t, "Global")
            /\ UNCHANGED localEnergy
  /\ UNCHANGED <<inputs, frame, isValid, isParticle, gEnergy>>

(* Lines 160-165: the master adds the block's sums to gEnergy.            *)
Global(b, t) ==
  /\ Running(b, t, "Global")
  /\ IF t = 0 THEN gEnergy' = gEnergy (+) shEnergy[b]
              ELSE UNCHANGED gEnergy
  /\ Leave(b, t)
  /\ UNCHANGED <<inputs, frame, isValid, shEnergy, isParticle, localEnergy>>

(* syncBlockThreads of block b.                                           *)
Barrier(b) ==
  /\ \A t \in Threads : arrived[b][t]
  /\ \A s, t \in Threads : pc[b][s] = pc[b][t]
  /\ arrived' = [arrived EXCEPT ![b] = [t \in Threads |-> FALSE]]
  /\ UNCHANGED <<inputs, pc, frame, isValid, shEnergy, isParticle,
                 localEnergy, gEnergy>>

Terminated == \A b \in Blocks, t \in Threads : pc[b][t] = "Done"

-----------------------------------------------------------------------------
(* Lines 324-335: gEnergy is set to zero, then the kernel is launched.    *)
Init ==
  /\ numFrames \in [Blocks -> 0 .. MaxFrames]
  /\ lastMask \in [Blocks -> SUBSET Threads \ {{}}]
  /\ pc = [b \in Blocks |-> [t \in Threads |-> "Setup"]]
  /\ arrived = [b \in Blocks |-> [t \in Threads |-> FALSE]]
  /\ frame = [b \in Blocks |-> 0]
  /\ isValid = [b \in Blocks |-> FALSE]
  /\ shEnergy = [b \in Blocks |-> EmptyBag]
  /\ isParticle = [b \in Blocks |-> [t \in Threads |-> FALSE]]
  /\ localEnergy = [b \in Blocks |-> [t \in Threads |-> EmptyBag]]
  /\ gEnergy = EmptyBag

ThreadStep(b, t) ==
  \/ Setup(b, t) \/ Start(b, t) \/ Next_(b, t) \/ Head(b, t) \/ Global(b, t)

Next ==
  \/ \E b \in Blocks, t \in Threads : ThreadStep(b, t)
  \/ \E b \in Blocks : Barrier(b)
  \/ Terminated /\ UNCHANGED vars

Spec == Init /\ [][Next]_vars

-----------------------------------------------------------------------------
TypeOK ==
  /\ numFrames \in [Blocks -> 0 .. MaxFrames]
  /\ lastMask \in [Blocks -> SUBSET Threads]
  /\ pc \in [Blocks -> [Threads -> Labels]]
  /\ arrived \in [Blocks -> [Threads -> BOOLEAN]]
  /\ frame \in [Blocks -> 0 .. MaxFrames]
  /\ isValid \in [Blocks -> BOOLEAN]
  /\ isParticle \in [Blocks -> [Threads -> BOOLEAN]]
  /\ \A b \in Blocks : IsABag(shEnergy[b])
  /\ IsABag(gEnergy)

(* syncBlockThreads is only defined when the whole block reaches the same *)
(* barrier: no thread of a block waits at another barrier than a thread  *)
(* of the same block, or after that thread has returned (line 96).        *)
NoBarrierDivergence ==
  \A b \in Blocks, s, t \in Threads :
     arrived[b][s] => (pc[b][t] = pc[b][s] \/ (~arrived[b][t] /\ pc[b][t] # "Done"))

(* At every moment the shared sum of a block and the global sum hold each *)
(* particle at most once and no empty slot: the multiMask read once for   *)
(* the last frame (line 102) and the "all following frames are full"      *)
(* shortcut (line 149) together count exactly the particles seen so far.  *)
NoEnergyCountedTwice ==
  /\ \A b \in Blocks : shEnergy[b] \sqsubseteq SetToBag(Particles(b))
  /\ gEnergy \sqsubseteq SetToBag(AllParticles)

(* When every block has finished, gEnergy holds the energy of every       *)
(* particle of the area exactly once: the master adds the shared sums     *)
(* only after every thread of its block has added its own (line 157).    *)
EnergyComplete == Terminated => gEnergy = SetToBag(AllParticles)

=============================================================================
