---------------------------- MODULE GatherSlice -----------------------------
(***************************************************************************)
(* GatherSlice::init (plugins/output/GatherSlice.hpp) on every MPI rank:   *)
(* the ranks that take part pass their global rank, the others -1; an      *)
(* MPI_Allgather gives every rank all values, each rank appends the valid  *)
(* ones to groupRanks starting at its member numRanks, builds a group of   *)
(* the first numRanks entries and calls the collective MPI_Comm_create.    *)
(* A participating rank then takes its rank in the new communicator and    *)
(* init returns whether it is 0 (the master that gathers the image).       *)
(*                                                                         *)
(* init is collective over MPI_COMM_WORLD, so one call on all ranks is one *)
(* step; the code between the collectives is local to each rank.          *)
(***************************************************************************)
EXTENDS Integers, FiniteSets, SequencesExt, Functions

CONSTANTS
  K,          (* number of ranks (GridController().getGpuNodes() volume)  *)
  MaxInits,   (* bound on the init calls of one behaviour                 *)
  Size,       (* rank -> cells of its part of the slice (node.maxSize)    *)
  SimSize,    (* cells of the whole slice (header.sim.size)               *)
  MaxGathers, (* bound on the operator() calls of one behaviour           *)
  Garbage     (* contents of memory new[] left uninitialized             *)

ASSUME K \in Nat \ {0} /\ MaxInits \in Nat /\ MaxGathers \in Nat
ASSUME Size \in [0 .. K - 1 -> Nat \ {0}] /\ SimSize \in Nat \ {0}

Ranks == 0 .. K - 1

VARIABLES
  mpiRank,               (* rank -> member mpiRank                        *)
  numRanks,              (* rank -> member numRanks                       *)
  isMPICommInitialized,  (* rank -> member isMPICommInitialized           *)
  comm,                  (* rank -> members of its comm, {} = COMM_NULL   *)
  group,                 (* rank -> ranks it passed to MPI_Group_incl     *)
  isMaster,              (* rank -> value init returned last              *)
  inits,                 (* init calls made                               *)
  fullData,              (* rank -> its fullData buffer, << >> = NULL     *)
  filteredData,          (* rank -> its image: cell -> value, or << >>    *)
  gathers                (* operator() calls made                         *)

vars == <<mpiRank, numRanks, isMPICommInitialized, comm, group, isMaster,
          inits, fullData, filteredData, gathers>>

initVars == <<mpiRank, numRanks, isMPICommInitialized, comm, group, isMaster>>

(* The global ranks in ascending order, as the Allgather delivers them.   *)
Ascending(S) == SetToSortSeq(S, <)

(* reset() (lines 199-212) as far as init sees it: the old communicator   *)
(* is freed and numRanks starts again from 0.                             *)
NumRanksBefore(r) == IF isMPICommInitialized[r] THEN 0 ELSE numRanks[r]

(* reset() (lines 199-212) on the ranks that were in the old             *)
(* communicator: fullData and filteredData are deleted and set to NULL.   *)
ResetBuffer(buf) ==
  [r \in Ranks |-> IF isMPICommInitialized[r] THEN << >> ELSE buf[r]]

(* Lines 64-85 on rank r: groupRanks is a fresh zero-filled vector of K   *)
(* entries; the valid gathered ranks are written from index numRanks on, *)
(* and the group is made of entries 0 .. numRanks-1.  Entries past the    *)
(* vector are out of bounds.                                              *)
GroupRanks(r, active) ==
  LET from == NumRanksBefore(r)
      valid == Ascending(active)
  IN  [k \in 1 .. from + Len(valid) |->
         IF k <= from THEN 0 ELSE valid[k - from]]

(* MPI_Comm_create: the members of the group when r is one of them, else *)
(* MPI_COMM_NULL.                                                         *)
CommCreate(r, g) == IF r \in ToSet(g) THEN ToSet(g) ELSE {}

(* Mutation: init keeps the global rank instead of the communicator rank. *)
InitCallGlobalRank(active) ==
  /\ inits < MaxInits
  /\ inits' = inits + 1
  /\ group' = [r \in Ranks |-> GroupRanks(r, active)]
  /\ numRanks' = [r \in Ranks |-> Len(group'[r])]
  /\ comm' = [r \in Ranks |-> CommCreate(r, group'[r])]
  /\ mpiRank' = [r \in Ranks |-> IF r \in active THEN r ELSE -1]
  /\ isMPICommInitialized' = [r \in Ranks |-> r \in active]
  /\ isMaster' = [r \in Ranks |-> mpiRank'[r] = 0]
  /\ fullData' = ResetBuffer(fullData)
  /\ filteredData' = ResetBuffer(filteredData)
  /\ UNCHANGED gathers

(* Mutation: the position in the group is taken 1-based.                 *)
CommRankOneBased(r, g) == CHOOSE k \in 1 .. Len(g) : g[k] = r

(* MPI_Comm_rank in the new communicator: position in the group.          *)
CommRank(r, g) == CHOOSE k \in 0 .. Len(g) - 1 : g[k + 1] = r

(* Lines 56-97: init(isActive) on every rank; active = ranks passing TRUE *)
InitCall(active) ==
  /\ inits < MaxInits
  /\ inits' = inits + 1
  /\ group' = [r \in Ranks |-> GroupRanks(r, active)]
  /\ numRanks' = [r \in Ranks |-> Len(group'[r])]
  /\ comm' = [r \in Ranks |-> CommCreate(r, group'[r])]
  /\ mpiRank' = [r \in Ranks |->
                   IF r \in active THEN CommRank(r, group'[r]) ELSE -1]
  /\ isMPICommInitialized' = [r \in Ranks |-> r \in active]
  /\ isMaster' = [r \in Ranks |-> mpiRank'[r] = 0]
  /\ fullData' = ResetBuffer(fullData)
  /\ filteredData' = ResetBuffer(filteredData)
  /\ UNCHANGED gathers

(* The value rank r holds in cell j of its part at the k-th gather.      *)
Cell(r, j, k) == <<r, j, k>>

(* The ranks of the communicator in the order of their rank in it: the   *)
(* order MPI_Gather and MPI_Gatherv deliver their parts in.              *)
Members == SetToSortSeq({r \in Ranks : isMPICommInitialized[r]},
                        LAMBDA a, b : mpiRank[a] < mpiRank[b])

(* Lines 124-133 of the master, from the gathered headers: the parts'    *)
(* sizes, and displs[i] the sum of the sizes before part i.              *)
Counts(m) == [i \in DOMAIN m |-> Size[m[i]]]

(* Mutation: the counts are taken from the master's own header.          *)
DisplsOwnHeader(m, own) ==
  [i \in DOMAIN m |-> (i - 1) * Size[own]]

Displs(m, own) ==
  [i \in DOMAIN m |-> FoldSeq(+, 0, SubSeq(Counts(m), 1, i - 1))]

(* The contents of a buffer at position p, whatever it held before when  *)
(* p was never written.                                                  *)
Read(buf, p) == IF p \in DOMAIN buf THEN buf[p] ELSE Garbage

(* operator() (lines 100-195) on every rank of the communicator: the     *)
(* master allocates fullData on its first call, MPI_Gatherv puts part i  *)
(* at displs[i], and the master copies each part out of fullData into    *)
(* its image at the part's place (insertData).  The loops of lines     *)
(* 123-130 run to the master's numRanks; the step is taken where that is *)
(* the communicator's size, the headers MPI_Gather delivers.  A stale    *)
(* numRanks (see GroupRanksInBounds) would read past them.               *)
Gather ==
  LET m == Members
      master == m[1]
      d == Displs(m, master)
      k == gathers + 1
      buf == IF fullData[master] = << >>
               THEN [p \in 0 .. SimSize - 1 |-> Garbage]
               ELSE fullData[master]
      recv == [p \in DOMAIN buf |->
                 IF \E i \in DOMAIN m : d[i] <= p /\ p < d[i] + Size[m[i]]
                 THEN LET i == CHOOSE i \in DOMAIN m :
                                 d[i] <= p /\ p < d[i] + Size[m[i]]
                      IN  Cell(m[i], p - d[i], k)
                 ELSE buf[p]]
  IN
  /\ gathers < MaxGathers
  /\ inits > 0 /\ Len(m) > 0
  /\ numRanks[master] = Len(m)
  /\ FoldSeq(+, 0, Counts(m)) = SimSize
  /\ fullData' = [fullData EXCEPT ![master] = recv]
  /\ filteredData' =
       [filteredData EXCEPT ![master] =
          [c \in UNION {{m[i]} \X (0 .. Size[m[i]] - 1) : i \in DOMAIN m} |->
             LET i == CHOOSE i \in DOMAIN m : m[i] = c[1]
             IN  Read(recv, d[i] + c[2])]]
  /\ gathers' = k
  /\ UNCHANGED <<initVars, inits>>

Init ==
  /\ mpiRank = [r \in Ranks |-> -1]
  /\ numRanks = [r \in Ranks |-> 0]
  /\ isMPICommInitialized = [r \in Ranks |-> FALSE]
  /\ comm = [r \in Ranks |-> {}]
  /\ group = [r \in Ranks |-> << >>]
  /\ isMaster = [r \in Ranks |-> FALSE]
  /\ inits = 0
  /\ fullData = [r \in Ranks |-> << >>]
  /\ filteredData = [r \in Ranks |-> << >>]
  /\ gathers = 0

Next ==
  \/ \E active \in SUBSET Ranks : InitCall(active)
  \/ Gather

Spec == Init /\ [][Next]_vars

-----------------------------------------------------------------------------
TypeOK ==
  /\ mpiRank \in [Ranks -> -1 .. K - 1]
  /\ numRanks \in [Ranks -> Nat]
  /\ isMPICommInitialized \in [Ranks -> BOOLEAN]
  /\ comm \in [Ranks -> SUBSET Ranks]
  /\ group \in [Ranks -> Seq(Ranks)]
  /\ isMaster \in [Ranks -> BOOLEAN]
  /\ inits \in 0 .. MaxInits
  /\ gathers \in 0 .. MaxGathers

Participants == {r \in Ranks : isMPICommInitialized[r]}

(* After every init, exactly one rank returns true when any rank takes    *)
(* part, and it is the lowest participating rank (the root of the gather  *)
(* in operator()); no rank returns true when none takes part.             *)
ExactlyOneMaster ==
  inits > 0 =>
    {r \in Ranks : isMaster[r]} =
       IF Participants = {} THEN {}
       ELSE {CHOOSE r \in Participants : \A s \in Participants : r <= s}

(* The group handed to MPI_Group_incl has at most countRanks entries:     *)
(* groupRanks[numRanks] at line 77 stays inside the vector of countRanks. *)
GroupRanksInBounds == \A r \in Ranks : numRanks[r] <= K

(* Every image a master built holds, in every cell of every part, the   *)
(* value the part's owner sent in one and the same gather: the counts    *)
(* and displacements the master derives from the gathered headers place *)
(* each rank's data where the copy into the image reads it, and no cell *)
(* shows uninitialized memory or another gather's data.                 *)
ImageExact ==
  \A r \in Ranks :
    filteredData[r] # << >> =>
      \E k \in 1 .. gathers :
        \A c \in DOMAIN filteredData[r] :
          filteredData[r][c] = Cell(c[1], c[2], k)

=============================================================================
