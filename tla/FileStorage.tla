----------------------------- MODULE FileStorage -----------------------------
(***************************************************************************)
(* FileStorage: one of its three documents (collections, actions or shows) *)
(* -- a cache that requests change at once and a file each of them then    *)
(* rewrites in place -- under overlapping requests, failing writes and a   *)
(* process that dies.                                                      *)
(*                                                                         *)
(* fs.writeFile opens the file (which truncates it) and writes, each in    *)
(* the thread pool, so the writes of two requests interleave.  A record is *)
(* its revision and the number of the save that made it.  Reading the file *)
(* is synchronous.                                                         *)
(***************************************************************************)
EXTENDS Integers

CONSTANTS Kinds,     \* the documents to check
          Ids,       \* record identifiers
          Requests,  \* bound: requests at once
          MaxSaves   \* bound: changes in a behaviour

StorageAssumption ==
  /\ Kinds \subseteq {"collections", "actions", "shows"} /\ Kinds # {}
  /\ Requests \in Nat \ {0} /\ MaxSaves \in Nat

VARIABLES
  kind,     \* the document
  legacy,   \* a tenant file of an earlier version is there to migrate
  running,  \* init has returned
  loaded,   \* the cache is not null
  cache,    \* id -> record
  file,     \* absent, whole or torn
  writes,   \* the requests that persist
  saves,    \* changes made so far
  raced,    \* two writes were under way at once since the start
  failed    \* a write failed since the start

vars == <<kind, legacy, running, loaded, cache, file, writes, saves, raced, failed>>

Slots == 1 .. Requests
Nothing == [revision |-> 0, save |-> 0]
NoRecords == [i \in Ids |-> Nothing]
Idle == [pc |-> "idle"]
Absent == [state |-> "absent"]
Torn == [state |-> "torn"]
Whole(records) == [state |-> "whole", records |-> records]

Init ==
  /\ kind \in Kinds /\ legacy \in BOOLEAN /\ (legacy => kind # "shows")
  /\ running = FALSE /\ loaded = FALSE /\ cache = NoRecords
  /\ file = Absent /\ writes = [s \in Slots |-> Idle]
  /\ saves = 0
  /\ raced = FALSE /\ failed = FALSE

(* a file that cannot be parsed is reported in the log and read as empty *)
ReadBack(f) == IF f.state = "whole" THEN f.records ELSE NoRecords

(* collections(), actions(), shows() *)
Records == IF loaded THEN cache ELSE ReadBack(file)

(* init and migrateTenantFiles; a copy that fails is logged *)
Start ==
  /\ ~running /\ running' = TRUE
  /\ \/ file' = IF legacy /\ file = Absent
                THEN Whole([i \in Ids |-> [revision |-> 0, save |-> -1]]) ELSE file
     \/ file' = file
  /\ UNCHANGED <<kind, legacy, loaded, cache, writes, saves, raced, failed>>

-----------------------------------------------------------------------------
(* requests *)

Persists(s, records) ==
  /\ cache' = records /\ loaded' = TRUE
  /\ writes' = [writes EXCEPT ![s] = [pc |-> "mkdir", asked |-> records]]

Ready(s) ==
  /\ running /\ writes[s] = Idle /\ saves < MaxSaves
  /\ \A q \in Slots : q < s => writes[q] # Idle

(* revision of a saved record: only collections have one *)
NextRevision(i) == IF kind = "collections" THEN Records[i].revision + 1 ELSE 0

(* saveCollection, saveAction, saveShow *)
Save(s, i) ==
  /\ Ready(s)
  /\ saves' = saves + 1
  /\ Persists(s, [Records EXCEPT ![i] = [revision |-> NextRevision(i), save |-> saves + 1]])
  /\ UNCHANGED <<kind, legacy, running, file, raced, failed>>

(* archiveShow *)
Archive(s, i) ==
  /\ Ready(s) /\ kind = "shows" /\ Records[i] # Nothing
  /\ saves' = saves + 1
  /\ Persists(s, [Records EXCEPT ![i] = [revision |-> 0, save |-> saves + 1]])
  /\ UNCHANGED <<kind, legacy, running, file, raced, failed>>

(* deleteCollection, deleteAction: the next save of the identifier starts over *)
Delete(s, i) ==
  /\ Ready(s) /\ kind # "shows" /\ Records[i] # Nothing
  /\ saves' = saves + 1
  /\ Persists(s, [Records EXCEPT ![i] = Nothing])
  /\ UNCHANGED <<kind, legacy, running, file, raced, failed>>

(* every get and list *)
Read ==
  /\ running /\ ~loaded
  /\ loaded' = TRUE /\ cache' = Records
  /\ UNCHANGED <<kind, legacy, running, file, writes, saves, raced, failed>>

-----------------------------------------------------------------------------
(* persistCollections, persistActions, persistShows *)

Under(q) == writes[q].pc \in {"write", "open"}

Serializes(s, records) ==
  /\ writes[s].pc = "mkdir"
  /\ writes' = [writes EXCEPT ![s] = [pc |-> "write", records |-> records, mixed |-> FALSE]]
  /\ raced' = (raced \/ \E q \in Slots \ {s} : Under(q))
  /\ UNCHANGED <<kind, legacy, running, loaded, cache, file, saves, failed>>

(* Fault: what is written is the cache as the request left it. *)
SerializeAsAsked(s) == Serializes(s, writes[s].asked)

(* the directory exists; the cache of this moment is what will be written *)
Serialize(s) == Serializes(s, cache)

(* the file is opened for writing, which empties it *)
Truncate(s) ==
  /\ writes[s].pc = "write"
  /\ writes' = [writes EXCEPT ![s].pc = "open"]
  /\ file' = Torn
  /\ UNCHANGED <<kind, legacy, running, loaded, cache, saves, raced, failed>>

(* the text is written from the start of the file; over another's longer text
   the end of that one stays *)
Land(s) ==
  /\ writes[s].pc = "open"
  /\ \/ file' = Whole(writes[s].records)
     \/ writes[s].mixed /\ file' = Torn
  /\ writes' = [q \in Slots |-> IF q = s THEN Idle
                                ELSE IF writes[q].pc = "open" THEN [writes[q] EXCEPT !.mixed = TRUE]
                                ELSE writes[q]]
  /\ UNCHANGED <<kind, legacy, running, loaded, cache, saves, raced, failed>>

(* logged for collections and actions, whose request succeeds; a Show's fails.
   The cache keeps the change either way. *)
WriteFails(s) ==
  /\ writes[s] # Idle
  /\ writes' = [writes EXCEPT ![s] = Idle]
  /\ failed' = TRUE
  /\ UNCHANGED <<kind, legacy, running, loaded, cache, file, saves, raced>>

Crash ==
  /\ running /\ saves < MaxSaves
  /\ saves' = saves + 1
  /\ running' = FALSE /\ loaded' = FALSE /\ cache' = NoRecords
  /\ writes' = [s \in Slots |-> Idle]
  /\ raced' = FALSE /\ failed' = FALSE
  /\ UNCHANGED <<kind, legacy, file>>

WriteStep(s) == Serialize(s) \/ Truncate(s) \/ Land(s) \/ WriteFails(s)

Next ==
  \/ Start \/ Read \/ Crash
  \/ \E s \in Slots : WriteStep(s) \/ \E i \in Ids : Save(s, i) \/ Archive(s, i) \/ Delete(s, i)

Spec == Init /\ [][Next]_vars

-----------------------------------------------------------------------------
(* the properties *)

(* Unless a write failed or two were under way at once, a server with nothing
   left to write has on disk what it serves: a restart then loses nothing,
   however requests overlapped before they came to write.  The text is made
   after the directory is there, of the cache of that moment. *)
QuietFileIsTheCache ==
  loaded /\ ~raced /\ ~failed /\ (\A s \in Slots : writes[s] = Idle) => ReadBack(file) = cache
=============================================================================
