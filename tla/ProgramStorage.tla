--------------------------- MODULE ProgramStorage ---------------------------
(***************************************************************************)
(* The Redis program storage (gigaevo/database/redis_program_storage.py)   *)
(* as the actions its operations perform on the server: one blob per       *)
(* program, whose only field modelled is `state`, and one status set per   *)
(* state.  Every operator is the whole write of one operation, or a torn   *)
(* one; the reads that precede it are steps of the modules that call it,   *)
(* because other coroutines run between the two round trips.  Counters, streams    *)
(* and payloads are left out.                                              *)
(***************************************************************************)
EXTENDS ProgramStates

CONSTANT Programs     \* identifiers of the programs of one key prefix

VARIABLES
  blob,               \* blob[p]: the state in p's blob, or Absent
  sset                \* sset[s]: the status set of state s

storage == <<blob, sset>>

Absent == "absent"

StorageTypeOK ==
  /\ blob \in [Programs -> States \cup {Absent}]
  /\ sset \in [States -> SUBSET Programs]

StorageInit ==
  /\ blob = [p \in Programs |-> Absent]
  /\ sset = [s \in States |-> {}]

InState(ps, s) == {p \in ps : blob[p] = s}

(* SET of the blobs of ps.                                                 *)
SetBlobs(ps, s) == blob' = [p \in Programs |-> IF p \in ps THEN s ELSE blob[p]]

(* SREM from the old set, then SADD to the new one.                        *)
MoveSets(ps, old, new) ==
  sset' = [s \in States |-> IF s = new THEN sset[s] \cup ps
                            ELSE IF s = old THEN sset[s] \ ps
                            ELSE sset[s]]

(* add: the old set is the one of the state just read from the blob.       *)
Add(p, s) == SetBlobs({p}, s) /\ MoveSets({p}, blob[p], s)

WriteExclusive(p, s) == SetBlobs({p}, s) /\ UNCHANGED sset

(* The caller's in-memory state decides the set to leave; the server's     *)
(* state is not looked at.                                                 *)
FastStateTransition(p, old, new) == SetBlobs({p}, new) /\ MoveSets({p}, old, new)

BatchTransitionState(ps, old, new) == SetBlobs(ps, new) /\ MoveSets(ps, old, new)

(* The blobs that batch_transition_by_ids will patch, as read by its MGET, *)
(* and the pipeline that patches them.                                     *)
BatchByIdsFilter(ps, old) == InState(ps, old)

BatchByIdsUnindexed(ps, old, new) ==  \* mutant: the SADD is missing
  SetBlobs(ps, new) /\ sset' = [sset EXCEPT ![old] = @ \ ps]

BatchByIdsWrite(ps, old, new) == SetBlobs(ps, new) /\ MoveSets(ps, old, new)

RemoveIdsFromStatusSet(s, ps) ==
  sset' = [sset EXCEPT ![s] = @ \ ps] /\ UNCHANGED blob

BatchMoveStatusSets(ps, old, new) == MoveSets(ps, old, new) /\ UNCHANGED blob

(* The commands of those pipelines run one by one (transaction=False): a   *)
(* proper prefix of SET ..., SREM, SADD is what a failure, a crash or an   *)
(* interleaved command finds in place.                                     *)
TornTransition(ps, old, new) ==
  \/ \E qs \in SUBSET ps \ {{}} : SetBlobs(qs, new) /\ UNCHANGED sset
  \/ /\ SetBlobs(ps, new)
     /\ sset' = [s \in States |-> IF s = old THEN sset[s] \ ps ELSE sset[s]]

TornMove(ps, old) == RemoveIdsFromStatusSet(old, ps)

(* update: the caller's copy is merged into the blob under WATCH; the      *)
(* status sets are left as they are.                                       *)
Update(p, copied) == SetBlobs({p}, MergeStates(blob[p], copied)) /\ UNCHANGED sset
=============================================================================
