---------------------------- MODULE EnergyPlugin ----------------------------
(***************************************************************************)
(* The host side of the EnergyParticles plugin (plugins/EnergyParticles.hpp*)
(* lines 169-361) on every MPI rank: pluginLoad, notify with              *)
(* calculateEnergyParticles, checkpoint, restart and pluginUnload, with   *)
(* the whole program crashing and restarting from its last checkpoint.    *)
(*                                                                         *)
(* The energy of the particles of rank r at step s is the token <<r, s>>, *)
(* so a sum of energies is a bag of tokens and one counted twice, missing *)
(* or of another step shows in the bag.  The kernel itself is modelled in *)
(* EnergyKernel; here one launch adds the rank's token to gEnergy.        *)
(*                                                                         *)
(* Inside calculateEnergyParticles the setValue, the kernel and the copy  *)
(* to the host are tasks of one transaction chain and deviceToHost waits  *)
(* for the copy, so they are one step of the rank.  MPI_Reduce is one     *)
(* collective step of all ranks.  Only the writer's output file and the   *)
(* copy of it in the checkpoint survive a crash.                          *)
(***************************************************************************)
EXTENDS Integers, Sequences, Bags, Functions

CONSTANTS
  Ranks,        (* MPI ranks                                               *)
  Root,         (* the rank for which reduce.hasResult(Reduce()) is true   *)
  Freq,         (* notifyFrequency (the .period option), > 0               *)
  MaxStep,      (* last simulation step                                    *)
  MaxCrashes,   (* bound on crashes of one behaviour                       *)
  NoFile        (* checkpoint directory without the energy file            *)

ASSUME Root \in Ranks /\ Freq \in Nat \ {0} /\ MaxStep \in Nat
ASSUME MaxCrashes \in Nat

VARIABLES
  pc,           (* rank -> "new", "loaded", "idle", "copied" or "done"     *)
  writeToFile,  (* rank -> member writeToFile                              *)
  allocated,    (* rank -> gEnergy != NULL                                 *)
  dev,          (* rank -> gEnergy device buffer (bag of tokens)           *)
  host,         (* rank -> gEnergy host buffer (bag of tokens)             *)
  now,          (* next step the plugin is notified at                     *)
  file,         (* lines of the writer's output file: <<step, energy>>     *)
  ckptFile,     (* the file as stored in the last checkpoint, or NoFile    *)
  ckptNow,      (* step the last checkpoint resumes at, -1 before the first*)
  restarting,   (* the program was started with --restart                  *)
  crashes

vars == <<pc, writeToFile, allocated, dev, host, now, file, ckptFile, ckptNow,
          restarting, crashes>>

Token(r, s) == <<r, s>>

(* The energy all ranks hold at step s.                                   *)
Energy(s) == SetToBag({Token(r, s) : r \in Ranks})

(* The reduced sum of all hosts' buffers (nvidia::functors::Add).         *)
ReducedEnergy == FoldFunction(LAMBDA a, b : a (+) b, EmptyBag, host)

NotifySteps == {s \in 0 .. MaxStep : s % Freq = 0}

(* The constructor (lines 191-203) on every rank: no output, no gEnergy.  *)
Constructed == [r \in Ranks |-> FALSE]

-----------------------------------------------------------------------------
(* pluginLoad (lines 244-274): the reduce root opens the file, truncating *)
(* it; if the open fails it disables its output.                          *)
Load(r) ==
  /\ pc[r] = "new"
  /\ \E openOk \in BOOLEAN :
       /\ writeToFile' = [writeToFile EXCEPT ![r] = (r = Root) /\ openOk]
       /\ file' = IF r = Root /\ openOk THEN << >> ELSE file
  /\ allocated' = [allocated EXCEPT ![r] = TRUE]
  /\ pc' = [pc EXCEPT ![r] = IF restarting THEN "loaded" ELSE "idle"]
  /\ UNCHANGED <<dev, host, now, ckptFile, ckptNow, restarting, crashes>>

(* Mutation: restart leaves the freshly truncated file as it is.          *)
RestartNoRestore(r) ==
  /\ pc[r] = "loaded"
  /\ pc' = [pc EXCEPT ![r] = "idle"]
  /\ UNCHANGED <<writeToFile, allocated, dev, host, now, file, ckptFile,
                 ckptNow, restarting, crashes>>

(* restart (lines 296-305): a writing rank restores the file from the     *)
(* checkpoint; when that fails (no file there, or an I/O error) it stops  *)
(* writing.                                                               *)
Restart(r) ==
  /\ pc[r] = "loaded"
  /\ IF writeToFile[r]
       THEN \E ok \in BOOLEAN :
              /\ ok => ckptFile # NoFile
              /\ writeToFile' = [writeToFile EXCEPT ![r] = ok]
              /\ file' = IF ok THEN ckptFile ELSE file
       ELSE UNCHANGED <<writeToFile, file>>
  /\ pc' = [pc EXCEPT ![r] = "idle"]
  /\ UNCHANGED <<allocated, dev, host, now, ckptFile, ckptNow, restarting,
                 crashes>>

(* Mutation: the device buffer is not set to zero before the kernel.      *)
CalculateNoReset(r) ==
  /\ pc[r] = "idle" /\ now <= MaxStep
  /\ dev' = [dev EXCEPT ![r] = dev[r] (+) SetToBag({Token(r, now)})]
  /\ host' = [host EXCEPT ![r] = dev'[r]]
  /\ pc' = [pc EXCEPT ![r] = "copied"]
  /\ UNCHANGED <<writeToFile, allocated, now, file, ckptFile, ckptNow,
                 restarting, crashes>>

(* notify and calculateEnergyParticles up to the reduce (lines 209-219,   *)
(* 320-337): gEnergy is set to zero, the kernel adds the rank's energy,   *)
(* deviceToHost copies it to the host.                                    *)
Calculate(r) ==
  /\ pc[r] = "idle" /\ now <= MaxStep
  /\ dev' = [dev EXCEPT ![r] = EmptyBag (+) SetToBag({Token(r, now)})]
  /\ host' = [host EXCEPT ![r] = dev'[r]]
  /\ pc' = [pc EXCEPT ![r] = "copied"]
  /\ UNCHANGED <<writeToFile, allocated, now, file, ckptFile, ckptNow,
                 restarting, crashes>>

(* Lines 339-359: MPI_Reduce on all ranks, then the writer appends a line;*)
(* the plugin connector notifies again Freq steps later.                  *)
Reduce ==
  /\ \A r \in Ranks : pc[r] = "copied"
  /\ file' = IF writeToFile[Root] THEN Append(file, <<now, ReducedEnergy>>)
                                  ELSE file
  /\ pc' = [r \in Ranks |-> "idle"]
  /\ now' = now + Freq
  /\ UNCHANGED <<writeToFile, allocated, dev, host, ckptFile, ckptNow,
                 restarting, crashes>>

(* checkpoint (lines 307-316) on every rank between two steps: a writing  *)
(* rank copies its file into the new checkpoint directory.                *)
Checkpoint ==
  /\ \A r \in Ranks : pc[r] = "idle"
  /\ ckptFile' = IF writeToFile[Root] THEN file ELSE NoFile
  /\ ckptNow' = now
  /\ UNCHANGED <<pc, writeToFile, allocated, dev, host, now, file,
                 restarting, crashes>>

(* The program dies and is started again with --restart from the last     *)
(* checkpoint: every object is constructed anew, the files stay.          *)
Crash ==
  /\ crashes < MaxCrashes /\ ckptNow >= 0
  /\ pc' = [r \in Ranks |-> "new"]
  /\ writeToFile' = Constructed /\ allocated' = Constructed
  /\ dev' = [r \in Ranks |-> EmptyBag]
  /\ host' = [r \in Ranks |-> EmptyBag]
  /\ now' = ckptNow
  /\ restarting' = TRUE
  /\ crashes' = crashes + 1
  /\ UNCHANGED <<file, ckptFile, ckptNow>>

(* pluginUnload (lines 277-294) after the last step: gEnergy is freed.    *)
Unload(r) ==
  /\ pc[r] = "idle" /\ now > MaxStep
  /\ allocated' = [allocated EXCEPT ![r] = FALSE]
  /\ pc' = [pc EXCEPT ![r] = "done"]
  /\ UNCHANGED <<writeToFile, dev, host, now, file, ckptFile, ckptNow,
                 restarting, crashes>>

Terminated == \A r \in Ranks : pc[r] = "done"

Init ==
  /\ pc = [r \in Ranks |-> "new"]
  /\ writeToFile = Constructed /\ allocated = Constructed
  /\ dev = [r \in Ranks |-> EmptyBag]
  /\ host = [r \in Ranks |-> EmptyBag]
  /\ now = 0
  /\ file = << >>
  /\ ckptFile = NoFile
  /\ ckptNow = -1
  /\ restarting = FALSE
  /\ crashes = 0

Next ==
  \/ \E r \in Ranks : Load(r) \/ Restart(r) \/ Calculate(r) \/ Unload(r)
  \/ Reduce \/ Checkpoint \/ Crash
  \/ Terminated /\ UNCHANGED vars

Spec == Init /\ [][Next]_vars

-----------------------------------------------------------------------------
Lines == (0 .. MaxStep) \X SubBag(SetToBag(Ranks \X (0 .. MaxStep)))

TypeOK ==
  /\ pc \in [Ranks -> {"new", "loaded", "idle", "copied", "done"}]
  /\ writeToFile \in [Ranks -> BOOLEAN]
  /\ allocated \in [Ranks -> BOOLEAN]
  /\ now \in 0 .. MaxStep + Freq
  /\ file \in Seq(Lines)
  /\ crashes \in 0 .. MaxCrashes

(* Every line of the output file holds, for its step, the energy of all   *)
(* ranks at that step and nothing else: gEnergy is zeroed before each     *)
(* kernel, the copy and the reduce see this step's sums only.             *)
LinesExact == \A i \in 1 .. Len(file) : file[i][2] = Energy(file[i][1])

(* While the writer writes, its file holds one line for each notified     *)
(* step before the current one, in order, across crashes: a restart       *)
(* restores exactly the lines of the checkpoint it resumes from.          *)
FileInOrder ==
  writeToFile[Root] /\ pc[Root] \in {"idle", "copied", "done"} =>
    [i \in 1 .. Len(file) |-> file[i][1]]
       = [i \in 1 .. now \div Freq |-> (i - 1) * Freq]

=============================================================================
