------------------------------- MODULE MCFiles -------------------------------
(* The catalog generations over two sessions (two catalogs, so that A, B, A   *)
(* happens), the feedback sequences under two processes and two calls for two *)
(* audiences of which MAX_RECORDS admits one, and each document of the        *)
(* storage with two requests at once.  `part' says which moves.               *)
EXTENDS ServerFiles, TLC

VARIABLE part

sequences == <<fStore, fQueue, fAt, fCall, fLock, fFile, fStable, revision, issued, fSyncs,
               fExposed, fFaults>>
storage == <<kind, legacy, running, loaded, cache, document, writes, saves, raced, failed>>

MCInit ==
    /\ part \in {"catalog", "sequences", "storage"}
    /\ Init /\ Sequence!Init /\ Storage!Init
    /\ part # "catalog" => syncs
    /\ part # "sequences" => fSyncs
    /\ part # "storage" => kind = "shows"

MCNext ==
    /\ UNCHANGED part
    /\ \/ part = "catalog" /\ Next /\ UNCHANGED <<sequences, storage>>
       \/ part = "sequences" /\ Sequence!Next /\ UNCHANGED <<vars, storage>>
       \/ part = "storage" /\ Storage!Next /\ UNCHANGED <<vars, sequences>>

MCSpec == MCInit /\ [][MCNext]_<<part, vars, sequences, storage>>

Symmetry == Permutations(Procs) \cup Permutations(Calls)
=============================================================================
