----------------------------- MODULE ServerFiles -----------------------------
(* The files of the server, side by side: the catalog generations of one      *)
(* credential audience, the feedback sequences and one document of the        *)
(* storage.  The three share no variable, and no constant but the bound of    *)
(* the faults.                                                                *)
EXTENDS CatalogGenerations

CONSTANTS
    Procs, Calls, NoProc, Keys, MaxRecords, MaxSequence, MaxRevision,  \* FeedbackSequences
    Kinds, Ids, Requests, MaxSaves                                     \* FileStorage

VARIABLES
    fStore, fQueue, fAt, fCall, fLock, fFile, fStable, revision, issued, fSyncs, fExposed, fFaults,
    kind, legacy, running, loaded, cache, document, writes, saves, raced, failed

Sequence == INSTANCE FeedbackSequences
              WITH store <- fStore, queue <- fQueue, at <- fAt, call <- fCall, lock <- fLock,
                   file <- fFile, stable <- fStable, syncs <- fSyncs, exposed <- fExposed,
                   faults <- fFaults
Storage == INSTANCE FileStorage WITH file <- document

ASSUME ServerFilesAssumption ==
    Sequence!SequenceAssumption /\ Storage!StorageAssumption

(* FeedbackSequences: no number goes out twice, or ahead of the disk. *)
SequencesAreFresh == Sequence!SequencesAreFresh

(* FileStorage: a server with nothing left to write has on disk what it       *)
(* serves.                                                                    *)
QuietFileIsTheCache == Storage!QuietFileIsTheCache
=============================================================================
