-------------------------- MODULE CredentialStore --------------------------
(***************************************************************************)
(* The durable side of device credentials: SqliteDeviceCredentialStore     *)
(* (its start, the import of the JSON file of older hosts, the credential  *)
(* table), the signing identity in the same file, the lifecycle operations *)
(* of the protocol package that write the table, the event log that        *)
(* records them, and the process that mounts all of it and dies.           *)
(*                                                                         *)
(* A digest is the identity of what it digests; a token is the number of   *)
(* the secret in it.  Budget bounds requests, faults and clock changes.    *)
(***************************************************************************)
EXTENDS Integers, Sequences, SequencesExt

CONSTANTS Ids,        \* credential identifiers
          LegacyIds,  \* the ones the legacy file holds
          MaxTime,    \* bound: the wall clock
          Lifetime,   \* expiresAt - issuedAt of a new credential
          Budget      \* bound: events of the environment

StoreAssumption ==
  LegacyIds \subseteq Ids /\ MaxTime \in Nat /\ Lifetime \in Nat \ {0} /\ Budget \in Nat

VARIABLES
  db,      \* the SQLite file
  legacy,  \* device-credentials.json: "absent", "original", "other" or "damaged"
  touched, \* somebody wrote the legacy file after the first start
  proc,    \* the process
  now,     \* the wall clock, which may be set back
  shown,   \* the last secret generated
  budget

vars == <<db, legacy, touched, proc, now, shown, budget>>

SchemaVersion == 5  \* DEVICE_SIGNING_SCHEMA_VERSION

NoRecord == [gen |-> 0, secret |-> 0, revoked |-> FALSE, issuedAt |-> 0,
             updatedAt |-> 0, expiresAt |-> 0]

NewRecord(secret, at) ==
  [gen |-> 1, secret |-> secret, revoked |-> FALSE, issuedAt |-> at,
   updatedAt |-> at, expiresAt |-> at + Lifetime]

(* what the host that wrote the JSON file had issued: secrets 1 and 2 *)
LegacyRecords(doc) ==
  [i \in Ids |-> IF i \in LegacyIds
                 THEN NewRecord(IF doc = "original" THEN 1 ELSE 2, 0) ELSE NoRecord]

EmptyTable == [i \in Ids |-> NoRecord]

Down == [phase |-> "down", raw |-> "absent", key |-> 0, op |-> "none",
         id |-> CHOOSE i \in Ids : TRUE, before |-> NoRecord, secret |-> 0]

(* a file that never existed, or one of the schema before signing *)
Init ==
  /\ \/ /\ db = [version |-> 0, migration |-> "unset", table |-> EmptyTable,
                 key |-> 0, events |-> <<>>]
        /\ legacy \in {"absent", "original"}
     \/ /\ db = [version |-> 4, migration |-> "none", table |-> LegacyRecords("original"),
                 key |-> 0, events |-> <<>>]
        /\ legacy = "absent"
  /\ touched = FALSE
  /\ proc = Down
  /\ now = 0
  /\ shown = 2
  /\ budget = Budget

-----------------------------------------------------------------------------
(* init() of the store *)

Begin ==
  /\ proc.phase = "down"
  /\ proc' = [proc EXCEPT !.phase = "opened", !.raw = legacy]
  /\ UNCHANGED <<db, legacy, touched, now, shown, budget>>

Parses(raw) == raw \in {"original", "other"}

(* Fault: a file that is still there after its import is a conflict. *)
AssertLegacyStateStrict(state, raw) ==
  IF raw = "absent" THEN TRUE ELSE state = "none"

AssertLegacyState(state, raw) ==
  IF raw = "absent" THEN TRUE ELSE state = raw

(* the migration part of initializeSchema *)
Imported(file, raw) ==
  IF file.migration # "unset" THEN file
  ELSE IF raw = "absent" THEN [file EXCEPT !.migration = "none"]
  ELSE [file EXCEPT !.table = LegacyRecords(raw), !.migration = raw]

(* initializeSchema's transaction may be attempted at all *)
SchemaAdmits(file, raw) ==
  /\ file.version <= SchemaVersion
  /\ IF file.migration = "unset"
     THEN file.table = EmptyTable /\ (raw = "absent" \/ Parses(raw))
     ELSE AssertLegacyState(file.migration, raw)
  /\ (file.key = 0 => file.version < SchemaVersion)

SigningIdentity(file) == IF file.key = 0 THEN [file EXCEPT !.key = 1] ELSE file

InitializeSchema ==
  /\ proc.phase = "opened"
  /\ SchemaAdmits(db, proc.raw)
  /\ LET file == [SigningIdentity(Imported(db, proc.raw)) EXCEPT !.version = SchemaVersion]
     IN  /\ db' = file
         /\ proc' = [proc EXCEPT !.phase = IF proc.raw = "absent" THEN "up" ELSE "committed",
                                 !.key = file.key]
  /\ UNCHANGED <<legacy, touched, now, shown, budget>>

(* a refused or failed start closes the file; nothing was committed *)
InitFails ==
  /\ proc.phase = "opened"
  /\ IF SchemaAdmits(db, proc.raw) THEN budget > 0 /\ budget' = budget - 1
     ELSE budget' = budget
  /\ proc' = Down
  /\ UNCHANGED <<db, legacy, touched, now, shown>>

(* archiveCommittedLegacy renames the file; nobody else touches it meanwhile *)
ArchiveLegacy ==
  /\ proc.phase = "committed"
  /\ legacy' = "absent"
  /\ proc' = [proc EXCEPT !.phase = "up"]
  /\ UNCHANGED <<db, touched, now, shown, budget>>

ArchiveFails ==
  /\ proc.phase = "committed"
  /\ budget > 0 /\ budget' = budget - 1
  /\ proc' = Down
  /\ UNCHANGED <<db, legacy, touched, now, shown>>

(* the process dies, or closes, at any point *)
Crash ==
  /\ proc.phase # "down"
  /\ budget > 0 /\ budget' = budget - 1
  /\ proc' = Down
  /\ UNCHANGED <<db, legacy, touched, now, shown>>

(* an owner restores a backup, or an older host writes its file again; never
   between the commit and the rename of one start *)
LegacyAppears ==
  /\ budget > 0 /\ budget' = budget - 1
  /\ proc.phase \in {"down", "up"}
  /\ \E doc \in {"original", "other", "damaged"} : legacy' = doc
  /\ touched' = TRUE
  /\ UNCHANGED <<db, proc, now, shown>>

LegacyRemoved ==
  /\ budget > 0 /\ budget' = budget - 1
  /\ proc.phase \in {"down", "up"} /\ legacy # "absent"
  /\ legacy' = "absent"
  /\ UNCHANGED <<db, touched, proc, now, shown>>

SetClock ==
  /\ budget > 0 /\ budget' = budget - 1
  /\ now' \in (0 .. MaxTime) \ {now}
  /\ UNCHANGED <<db, legacy, touched, proc, shown>>

-----------------------------------------------------------------------------
(* the lifecycle's operations, one at a time behind exclusive() *)

(* Fault: a revoked credential still rotates. *)
EffectiveIfRevoked(r) == r.gen > 0 /\ r.expiresAt > now

Effective(r) == r.gen > 0 /\ ~r.revoked /\ r.expiresAt > now

(* semanticErrors: the timestamps a stored record may have *)
AssertRecord(r) == r.updatedAt >= r.issuedAt /\ r.expiresAt > r.issuedAt

Idle == proc.phase = "up" /\ proc.op = "none"

Done == [proc EXCEPT !.op = "none", !.before = NoRecord, !.secret = 0]

Start(kind, i) ==
  /\ Idle
  /\ budget > 0 /\ budget' = budget - 1
  /\ proc' = [proc EXCEPT !.op = kind, !.id = i, !.before = db.table[i], !.secret = shown + 1]
  /\ shown' = shown + 1
  /\ UNCHANGED <<db, legacy, touched, now>>

(* the identifier is a fresh UUID *)
Issue == \E i \in Ids : /\ db.table[i] = NoRecord
                        /\ Start("issue", i)

Rotate == \E i \in Ids : /\ Effective(db.table[i])
                         /\ Start("rotate", i)

Revoke == \E i \in Ids : /\ db.table[i] # NoRecord
                         /\ Start("revoke", i)

NextRecord ==
  CASE proc.op = "issue"  -> NewRecord(proc.secret, now)
    [] proc.op = "rotate" -> [proc.before EXCEPT !.gen = @ + 1, !.secret = proc.secret,
                                                 !.updatedAt = now]
    [] proc.op = "revoke" -> [proc.before EXCEPT !.gen = @ + 1, !.revoked = TRUE,
                                                 !.updatedAt = now]

(* revoking a revoked credential changes and records nothing *)
Unchanged == proc.op = "revoke" /\ proc.before.revoked

Event(r) == [id |-> proc.id, kind |-> proc.op, gen |-> r.gen]

(* recordLifecycleEvent is best effort: a failed insert only reaches the log *)
RecordLifecycleEvent(r) ==
  IF Unchanged THEN {db.events} ELSE {db.events, Append(db.events, Event(r))}

(* create, or replace by compare-and-swap on the generation, then the event;
   the answer is lost when the process dies, which is Crash *)
Write ==
  /\ proc.phase = "up" /\ proc.op \in {"issue", "rotate", "revoke"}
  /\ LET r == IF Unchanged THEN proc.before ELSE NextRecord
     IN  /\ AssertRecord(r)
         /\ db.table[proc.id].gen = proc.before.gen
         /\ \E log \in RecordLifecycleEvent(r) :
              db' = [db EXCEPT !.table[proc.id] = r, !.events = log]
  /\ proc' = Done
  /\ UNCHANGED <<legacy, touched, now, shown, budget>>

(* the record is refused by assertRecord, or the transaction rolls back *)
WriteFails ==
  /\ proc.phase = "up" /\ proc.op # "none"
  /\ IF AssertRecord(IF Unchanged THEN proc.before ELSE NextRecord)
     THEN budget > 0 /\ budget' = budget - 1 ELSE budget' = budget
  /\ proc' = Done
  /\ UNCHANGED <<db, legacy, touched, now, shown>>

Next == \/ Begin \/ InitializeSchema \/ InitFails \/ ArchiveLegacy \/ ArchiveFails
        \/ Crash \/ LegacyAppears \/ LegacyRemoved \/ SetClock
        \/ Issue \/ Rotate \/ Revoke \/ Write \/ WriteFails

Spec == Init /\ [][Next]_vars

-----------------------------------------------------------------------------
(* The event log tells only what happened: at most one event per generation
   of a credential, in the order of the generations, none of the future, and
   a revocation only of a credential that is revoked. *)
EventsAreTrue ==
  /\ \A i, j \in DOMAIN db.events :
       i < j /\ db.events[i].id = db.events[j].id => db.events[i].gen < db.events[j].gen
  /\ \A e \in Range(db.events) :
       /\ e.gen <= db.table[e.id].gen
       /\ e.kind = "revoke" => db.table[e.id].revoked

(* SqliteDeviceCredentialStore.init: whatever step the process died in or
   failed at, the next start accepts the file, unless somebody wrote a legacy
   file meanwhile; and the event log in it tells only what happened. *)
FileStaysUsable ==
  /\ ~touched /\ proc.phase = "opened" => SchemaAdmits(db, proc.raw)
  /\ EventsAreTrue

(* The import of the legacy file happens at most once and the credentials in
   SQLite win ever after: no start, fault or repeated file takes a credential
   back to an earlier generation, its old secret or its life before it was
   revoked, and the signing identity devices pin is generated once in the
   life of the file. *)
NoResurrection ==
  [][/\ \A i \in Ids : LET r == db.table[i]  s == db'.table[i]
                       IN  /\ s.gen >= r.gen
                           /\ s.gen = r.gen => s = r
                           /\ r.revoked => s = r
     /\ db.key # 0 => db'.key = db.key]_vars
=============================================================================
