------------------------ MODULE DeviceTransitionLedger ------------------------
(***************************************************************************)
(* SqliteDeviceTransitionLedger, the append-only audit of host epochs and  *)
(* device connections, and DeviceConnectionTransitionSession, the phase a  *)
(* connection keeps in memory beside it.                                   *)
(*                                                                         *)
(* Each append is one SQLite transaction and may commit, roll back, or     *)
(* become durable although the call throws.  The calls that append more    *)
(* than once (startHostEpoch, close of a ready connection) are synchronous *)
(* but not atomic: the process can die between two records, so each append *)
(* is an action and job says which call is under way.                      *)
(*                                                                         *)
(* A record is the identity of its hash.  The durable head of              *)
(* authority_metadata is written in the transaction of the record, so it   *)
(* is the length of the table.                                             *)
(***************************************************************************)
EXTENDS Integers, Sequences

CONSTANTS
  Conns,            \* connection identifiers; each is used once
  None,
  MaxEpochs,        \* bound: processes
  MaxRecords        \* bound: records a caller adds to

ASSUME LedgerBounds == MaxEpochs \in Nat /\ MaxRecords \in Nat
ASSUME NoneIsNoConn == None \notin Conns

HostKinds == {"host.started", "host.discontinuity", "host.stopped"}
ConnKinds == {"not_ready", "ready", "checkpoint", "quiescing", "closed"}
Records == [kind : HostKinds \cup ConnKinds, conn : Conns \cup {None},
            epoch : 1..MaxEpochs]
Phases == {"absent", "not_ready", "ready", "quiescing", "closed"}
Jobs == [call : {"none", "start", "detect", "seal", "close"},
         conn : Conns \cup {None}]
NoJob == [call |-> "none", conn |-> None]
Outcomes == {"committed", "rolledBack", "durable"}

VARIABLES
  records,          \* device_transition_ledger in global_sequence order
  up,               \* a host process runs
  epoch,            \* its hostEpochId
  active,           \* activeHostEpochId is set
  failed,
  globalSequence, connectionPhases, checkpointedConnections,
  job,              \* the call that has records left to append
  session,          \* connection -> phase of its transition session
  fatal             \* onFatal was called: the host shuts down

ledgerVars == <<active, failed, globalSequence, connectionPhases,
                checkpointedConnections>>
vars == <<records, up, epoch, ledgerVars, job, session, fatal>>
-----------------------------------------------------------------------------
(***************************************************************************)
(* What a sequence of records says.                                        *)
(***************************************************************************)
\* The phase a connection is in after a record of this kind.
PhaseAfter(kind) == IF kind = "checkpoint" THEN "ready" ELSE kind

\* phaseAfter throws for every other pair.
Allowed ==
  {<<"absent", "not_ready">>, <<"not_ready", "ready">>,
   <<"ready", "checkpoint">>, <<"ready", "quiescing">>,
   <<"not_ready", "closed">>, <<"quiescing", "closed">>}

\* The phase of connection c after the first n records.
PhaseIn(rs, n, c) ==
  LET own == {i \in 1..n : rs[i].conn = c}
  IN IF own = {} THEN "absent"
     ELSE PhaseAfter(rs[CHOOSE i \in own : \A j \in own : j <= i].kind)

CheckpointedIn(rs, n) ==
  {c \in Conns : \E i \in 1..n : rs[i].conn = c /\ rs[i].kind = "checkpoint"}

\* verifyPersistedHistory accepts the table.
VerifyPersistedHistory(rs) ==
  \A i \in 1..Len(rs) : rs[i].conn # None =>
    /\ <<PhaseIn(rs, i - 1, rs[i].conn), rs[i].kind>> \in Allowed
    /\ rs[i].kind = "checkpoint" =>
         rs[i].conn \notin CheckpointedIn(rs, i - 1)

\* Fault: an epoch counts as left open only if it admitted a connection.
LatestUnsealedWithConnections(rs) ==
  LET starts == {i \in 1..Len(rs) : rs[i].kind = "host.started"}
      last == CHOOSE i \in starts : \A j \in starts : j <= i
  IN /\ starts # {}
     /\ \A i \in last..Len(rs) : rs[i].kind # "host.stopped"
     /\ \E i \in last..Len(rs) : rs[i].conn # None

\* latestUnsealedHostEpoch: the latest host that started did not stop.
LatestUnsealedHostEpoch(rs) ==
  LET starts == {i \in 1..Len(rs) : rs[i].kind = "host.started"}
      last == CHOOSE i \in starts : \A j \in starts : j <= i
  IN starts # {} /\ \A i \in last..Len(rs) : rs[i].kind # "host.stopped"
-----------------------------------------------------------------------------
(***************************************************************************)
(* appendInternal.                                                         *)
(***************************************************************************)
AppendInternal(kind, c, outcome) ==
  /\ globalSequence = Len(records)  \* assertPersistedHead
  /\ records' = IF outcome = "rolledBack" THEN records
                ELSE Append(records, [kind |-> kind, conn |-> c, epoch |-> epoch])
  /\ IF outcome = "committed"
     THEN /\ globalSequence' = globalSequence + 1
          /\ connectionPhases' = IF c = None THEN connectionPhases
               ELSE [connectionPhases EXCEPT ![c] = PhaseAfter(kind)]
          /\ checkpointedConnections' = IF kind = "checkpoint"
               THEN checkpointedConnections \cup {c}
               ELSE checkpointedConnections
          /\ UNCHANGED failed
     ELSE /\ failed' = TRUE
          /\ UNCHANGED <<globalSequence, connectionPhases,
                         checkpointedConnections>>

\* append(): refused when the ledger is failed, no epoch is active, or the
\* phase or the checkpoint does not fit.
Admits(kind, c) ==
  /\ ~failed /\ active
  /\ <<connectionPhases[c], kind>> \in Allowed
  /\ kind = "checkpoint" => c \notin checkpointedConnections

\* One append of a session; ok says whether the call returned.
TryAppend(kind, c, ok) ==
  /\ Len(records) < MaxRecords
  /\ \/ /\ Admits(kind, c) /\ ok
        /\ AppendInternal(kind, c, "committed")
     \/ /\ Admits(kind, c) /\ ~ok
        /\ \E outcome \in Outcomes \ {"committed"} :
             AppendInternal(kind, c, outcome)
     \/ /\ ~Admits(kind, c) /\ ~ok
        /\ UNCHANGED <<records, failed, globalSequence, connectionPhases,
                       checkpointedConnections>>
-----------------------------------------------------------------------------
(***************************************************************************)
(* The host: mount (verification), startHostEpoch, stopHostEpoch, death.   *)
(***************************************************************************)
Mount ==
  /\ ~up /\ epoch < MaxEpochs
  /\ VerifyPersistedHistory(records)
  /\ up' = TRUE /\ epoch' = epoch + 1
  /\ active' = TRUE /\ failed' = FALSE
  /\ globalSequence' = Len(records)
  /\ connectionPhases' = [c \in Conns |-> PhaseIn(records, Len(records), c)]
  /\ checkpointedConnections' = CheckpointedIn(records, Len(records))
  /\ job' = [call |-> "start", conn |-> None]
  /\ UNCHANGED <<records, session, fatal>>

\* A process that dies forgets everything but the table.
Exit ==
  /\ up' = FALSE /\ active' = FALSE /\ failed' = FALSE
  /\ globalSequence' = 0
  /\ connectionPhases' = [c \in Conns |-> "absent"]
  /\ checkpointedConnections' = {}
  /\ job' = NoJob /\ fatal' = FALSE
  /\ session' = [c \in Conns |-> IF session[c] = "new" THEN "new" ELSE "lost"]

Crash == up /\ Exit /\ UNCHANGED <<records, epoch>>

Open == {c \in Conns : connectionPhases[c] \notin {"absent", "closed"}}

\* A record of startHostEpoch; if it cannot be committed the start fails and
\* the process ends.
StartAppend(kind, c, outcome, next) ==
  /\ AppendInternal(kind, c, outcome)
  /\ job' = next
  /\ UNCHANGED <<up, epoch, active, session, fatal>>

StartFails(kind, c, outcome) ==
  /\ records' = IF outcome = "durable"
                THEN Append(records, [kind |-> kind, conn |-> c, epoch |-> epoch])
                ELSE records
  /\ Exit
  /\ UNCHANGED epoch

StartRecord(kind, c, outcome, next) ==
  IF outcome = "committed" THEN StartAppend(kind, c, outcome, next)
                           ELSE StartFails(kind, c, outcome)

HostStarted(outcome) ==
  /\ job.call = "start"
  /\ StartRecord("host.started", None, outcome,
       IF LatestUnsealedHostEpoch(records)
       THEN [call |-> "detect", conn |-> None] ELSE NoJob)

HostDiscontinuity(outcome) ==
  /\ job.call = "detect"
  /\ StartRecord("host.discontinuity", None, outcome,
                 [call |-> "seal", conn |-> None])

\* Fault: every connection left open is closed directly.
SealDirectly(c, outcome) ==
  /\ job.call = "seal" /\ job.conn = None /\ c \in Open
  /\ StartRecord("closed", c, outcome, job)

\* A connection that was ready quiesces and closes, any other one closes.
Seal(c, outcome) ==
  /\ job.call = "seal" /\ job.conn \in {None, c} /\ c \in Open
  /\ IF connectionPhases[c] = "ready"
     THEN StartRecord("quiescing", c, outcome, [job EXCEPT !.conn = c])
     ELSE StartRecord("closed", c, outcome, [job EXCEPT !.conn = None])

Sealed ==
  /\ job.call = "seal" /\ Open = {}
  /\ job' = NoJob
  /\ UNCHANGED <<records, up, epoch, ledgerVars, session, fatal>>

StopHostEpoch(outcome) ==
  /\ up /\ job = NoJob /\ ~failed /\ active /\ Open = {}
  /\ AppendInternal("host.stopped", None, outcome)
  /\ active' = (outcome # "committed")
  /\ UNCHANGED <<up, epoch, job, session, fatal>>
-----------------------------------------------------------------------------
(***************************************************************************)
(* The session of one connection, as the gateway and the bootstrap         *)
(* coordinator drive it.                                                   *)
(***************************************************************************)
Serving == up /\ job = NoJob
hostVars == <<up, epoch, active>>

\* startNotReady throws: the session stays new and the gateway fails the
\* host.
StartNotReady(c, ok) ==
  /\ Serving /\ session[c] = "new"
  /\ TryAppend("not_ready", c, ok)
  /\ session' = IF ok THEN [session EXCEPT ![c] = "not_ready"] ELSE session
  /\ fatal' = (fatal \/ ~ok)
  /\ UNCHANGED <<hostVars, job>>

\* Fault: readiness is granted before its record is committed.
CommitReadyEarly(c, ok) ==
  /\ Serving /\ session[c] = "not_ready"
  /\ TryAppend("ready", c, ok)
  /\ session' = [session EXCEPT ![c] = "ready"]
  /\ fatal' = (fatal \/ ~ok)
  /\ UNCHANGED <<hostVars, job>>

\* commitReady throws: the bootstrap coordinator closes the session, whose
\* own record fails too.
CommitReady(c, ok) ==
  /\ Serving /\ session[c] = "not_ready"
  /\ TryAppend("ready", c, ok)
  /\ session' = [session EXCEPT ![c] = IF ok THEN "ready" ELSE "closed"]
  /\ fatal' = (fatal \/ ~ok)
  /\ UNCHANGED <<hostVars, job>>

Checkpoint(c, ok) ==
  /\ Serving /\ session[c] = "ready" /\ c \notin checkpointedConnections
  /\ TryAppend("checkpoint", c, ok)
  /\ fatal' = (fatal \/ ~ok)
  /\ UNCHANGED <<hostVars, job, session>>

Quiesce(c, ok) ==
  /\ Serving /\ session[c] = "ready"
  /\ TryAppend("quiescing", c, ok)
  /\ session' = [session EXCEPT ![c] = "quiescing"]
  /\ fatal' = (fatal \/ ~ok)
  /\ UNCHANGED <<hostVars, job>>

\* close: a ready session quiesces first; then its second record follows.
Close(c, ok) ==
  /\ Serving /\ session[c] \in {"not_ready", "ready", "quiescing"}
  /\ TryAppend(IF session[c] = "ready" THEN "quiescing" ELSE "closed", c, ok)
  /\ job' = IF session[c] = "ready" THEN [call |-> "close", conn |-> c]
                                    ELSE job
  /\ session' = [session EXCEPT ![c] = "closed"]
  /\ fatal' = (fatal \/ ~ok)
  /\ UNCHANGED hostVars

CloseRest(ok) ==
  /\ job.call = "close"
  /\ TryAppend("closed", job.conn, ok)
  /\ job' = NoJob
  /\ fatal' = (fatal \/ ~ok)
  /\ UNCHANGED <<hostVars, session>>
-----------------------------------------------------------------------------
Init ==
  /\ records = << >> /\ up = FALSE /\ epoch = 0
  /\ active = FALSE /\ failed = FALSE /\ globalSequence = 0
  /\ connectionPhases = [c \in Conns |-> "absent"]
  /\ checkpointedConnections = {}
  /\ job = NoJob
  /\ session = [c \in Conns |-> "new"] /\ fatal = FALSE

Host ==
  \/ Mount \/ Crash \/ Sealed
  \/ \E outcome \in Outcomes :
       \/ HostStarted(outcome) \/ HostDiscontinuity(outcome)
       \/ StopHostEpoch(outcome)
       \/ \E c \in Conns : Seal(c, outcome)

Sessions ==
  \E ok \in BOOLEAN :
    \/ CloseRest(ok)
    \/ \E c \in Conns :
         \/ StartNotReady(c, ok) \/ CommitReady(c, ok) \/ Checkpoint(c, ok)
         \/ Quiesce(c, ok) \/ Close(c, ok)

Next == Host \/ Sessions

Spec == Init /\ [][Next]_vars
-----------------------------------------------------------------------------
\* The table and the maps keep their declared shapes.
TypeOK ==
  /\ records \in Seq(Records)
  /\ up \in BOOLEAN /\ epoch \in 0..MaxEpochs
  /\ active \in BOOLEAN /\ failed \in BOOLEAN
  /\ globalSequence \in Nat
  /\ connectionPhases \in [Conns -> Phases]
  /\ checkpointedConnections \subseteq Conns
  /\ job \in Jobs
  /\ session \in [Conns -> {"new", "not_ready", "ready", "quiescing",
                            "closed", "lost"}]
  /\ fatal \in BOOLEAN

\* A stop is clean: no connection is open when its record is written, and
\* its host writes nothing after it.
StopsAreClean ==
  \A i \in 1..Len(records) : records[i].kind = "host.stopped" =>
    /\ \A c \in Conns : PhaseIn(records, i, c) \in {"absent", "closed"}
    /\ \A j \in i+1..Len(records) : records[j].epoch # records[i].epoch

(***************************************************************************)
(* Wherever the process died, and whatever became of its last commit, the  *)
(* next start accepts the table it left (verifyPersistedHistory), and      *)
(* every stop in it was clean.                                             *)
(***************************************************************************)
HistoryVerifies == VerifyPersistedHistory(records) /\ StopsAreClean

\* A ledger that is not failed knows exactly what is durable: its sequence
\* and the phase and the checkpoint of every connection.
MemoryIsTheTable ==
  (up /\ ~failed) =>
    /\ globalSequence = Len(records)
    /\ connectionPhases = [c \in Conns |-> PhaseIn(records, Len(records), c)]
    /\ checkpointedConnections = CheckpointedIn(records, Len(records))

(***************************************************************************)
(* The ledger's maps, the table and the live sessions agree between two    *)
(* calls: a session is ready exactly when the table says so, unless the    *)
(* host is failing.                                                        *)
(***************************************************************************)
AuditMatchesSessions ==
  /\ MemoryIsTheTable
  /\ \A c \in Conns :
       (Serving /\ session[c] \notin {"new", "lost"}) =>
         \/ PhaseIn(records, Len(records), c) = session[c]
         \/ fatal /\ session[c] # "ready"

(***************************************************************************)
(* Once a host serves, no connection of an earlier host is still open in   *)
(* the audit, however many starts before it were cut short.                *)
(***************************************************************************)
EarlierConnectionsAreClosed ==
  (Serving /\ ~failed /\ active) =>
    \A i \in 1..Len(records) :
      (records[i].conn # None /\ records[i].epoch # epoch) =>
        PhaseIn(records, Len(records), records[i].conn) = "closed"
=============================================================================
