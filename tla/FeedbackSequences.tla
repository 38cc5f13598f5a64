-------------------------- MODULE FeedbackSequences --------------------------
(***************************************************************************)
(* FileFeedbackSequenceStore and the DeviceFeedbackIssuer that uses it.    *)
(* Several server processes may be started on one data directory.  Each    *)
(* queues its work (exclusive), takes authority.lock on the first use,     *)
(* loads the file, and for every reservation writes a temporary file,      *)
(* renames it over the sequence file and synchronises the directory before *)
(* the numbers are given out.  Processes crash, the host loses power, and  *)
(* each I/O call may fail.                                                 *)
(*                                                                         *)
(* `file' is what a process reads; `stable' is the set of contents the     *)
(* disk may show after a power loss: a rename is only sure to survive one  *)
(* once its directory was synchronised.                                    *)
(***************************************************************************)
EXTENDS Naturals, Sequences, FiniteSets

CONSTANTS
    Procs,        \* server processes; each is started once
    Calls,        \* calls of issueVisibility
    NoProc,       \* not a process
    Keys,         \* (issuer key, audience credential) pairs
    MaxRecords,   \* MAX_RECORDS
    MaxSequence,  \* Number.MAX_SAFE_INTEGER
    MaxRevision,  \* bound: production changes
    MaxFaults     \* bound: crashes, power losses and failed I/O calls

SequenceAssumption ==
    /\ NoProc \notin Procs
    /\ {"init", "close"} \cap Calls = {}
    /\ MaxRecords \in Nat \ {0}
    /\ MaxSequence \in Nat /\ MaxRevision \in Nat /\ MaxFaults \in Nat

VARIABLES
    store,      \* per process: phase, closing, durability, records, holds
    queue,      \* per process: the jobs behind `exclusive', the head running
    at,         \* per process: where the running job is
    call,       \* per call: the request and where it is
    lock,       \* the owner named by authority.lock, or NoProc
    file,       \* the sequence file: last sequence per key, 0 when absent
    stable,     \* contents the sequence file may have after a power loss
    revision,   \* the revision of the production state
    issued,     \* the envelopes handed to devices
    syncs,      \* this file system can synchronise a directory
    exposed,    \* the host lost power and it cannot
    faults      \* faults so far

vars == <<store, queue, at, call, lock, file, stable, revision, issued,
          syncs, exposed, faults>>

Zero == [k \in Keys |-> 0]

Fresh == [phase |-> "new", closing |-> FALSE, durability |-> "none",
          records |-> Zero, holds |-> FALSE]
NoCall == [stage |-> "new", proc |-> NoProc, key |-> CHOOSE k \in Keys : TRUE, count |-> 0,
           rev |-> 0, first |-> 0]

Init ==
    /\ store = [p \in Procs |-> Fresh]
    /\ queue = [p \in Procs |-> <<>>]
    /\ at = [p \in Procs |-> "idle"]
    /\ call = [c \in Calls |-> NoCall]
    /\ lock = NoProc
    /\ file = Zero
    /\ stable = {Zero}
    /\ revision = 0
    /\ issued = {}
    /\ syncs \in BOOLEAN
    /\ exposed = FALSE
    /\ faults = 0

Alive(p) == store[p].phase # "dead"
Faulty == faults < MaxFaults /\ faults' = faults + 1

(* The job at the head of the queue settles; exclusive runs the next one   *)
(* whatever the outcome.                                                   *)
Settle(p) ==
    /\ queue' = [queue EXCEPT ![p] = Tail(@)]
    /\ at' = [at EXCEPT ![p] = "idle"]

Reject(p) ==
    LET job == Head(queue[p]) IN
    call' = IF job \in Calls THEN [call EXCEPT ![job].stage = "refused"] ELSE call

--------------------------------------------------------------------------
(* init, reserve and close only enqueue. *)

Start(p) ==
    /\ store[p].phase = "new" /\ queue[p] = <<>> /\ ~store[p].closing
    /\ queue' = [queue EXCEPT ![p] = Append(@, "init")]
    /\ UNCHANGED <<store, at, call, lock, file, stable, revision, issued, syncs, exposed, faults>>

CloseStore(p) ==
    /\ Alive(p) /\ ~store[p].closing
    /\ store' = [store EXCEPT ![p].closing = TRUE]
    /\ queue' = [queue EXCEPT ![p] = Append(@, "close")]
    /\ UNCHANGED <<at, call, lock, file, stable, revision, issued, syncs, exposed, faults>>

(* issueVisibility authenticates first ... *)
IssueVisibility(p, c, k, n) ==
    /\ Alive(p) /\ call[c].stage = "new"
    /\ call' = [call EXCEPT ![c] = [stage |-> "authenticating", proc |-> p, key |-> k,
                                    count |-> n, rev |-> 0, first |-> 0]]
    /\ UNCHANGED <<store, queue, at, lock, file, stable, revision, issued, syncs, exposed, faults>>

(* ... then, in one step, projects the snapshot and asks for as many       *)
(* numbers as it has observations.                                         *)
Authenticated(c) ==
    LET p == call[c].proc IN
    /\ call[c].stage = "authenticating"
    /\ IF store[p].closing
         THEN /\ call' = [call EXCEPT ![c].stage = "refused"]
              /\ UNCHANGED queue
         ELSE /\ call' = [call EXCEPT ![c].stage = "queued", ![c].rev = revision]
              /\ queue' = [queue EXCEPT ![p] = Append(@, c)]
    /\ UNCHANGED <<store, at, lock, file, stable, revision, issued, syncs, exposed, faults>>

(* The credential or its grant is refused, or there is nothing to observe. *)
Unauthorized(c) ==
    /\ call[c].stage = "authenticating"
    /\ call' = [call EXCEPT ![c].stage = "refused"]
    /\ UNCHANGED <<store, queue, at, lock, file, stable, revision, issued, syncs, exposed, faults>>

--------------------------------------------------------------------------
(* The head of the queue. initializeOnce is entered by init and by every   *)
(* reservation; a failure is latched and answers all of them.              *)
Run(p) ==
    /\ at[p] = "idle" /\ queue[p] # <<>> /\ Alive(p)
    /\ LET job == Head(queue[p]) IN
       \/ /\ job = "close"
          /\ store' = [store EXCEPT ![p].phase = "closing"]
          /\ at' = [at EXCEPT ![p] = "release"]
          /\ UNCHANGED <<queue, call>>
       \/ /\ job # "close" /\ store[p].phase = "ready"
          /\ IF job = "init" THEN Settle(p) ELSE at' = [at EXCEPT ![p] = "reserve"] /\ UNCHANGED queue
          /\ UNCHANGED <<store, call>>
       \/ /\ job # "close" /\ store[p].phase \in {"failed", "closing", "closed"}
          /\ Reject(p) /\ Settle(p)
          /\ UNCHANGED store
       \/ /\ job # "close" /\ store[p].phase = "new"
          /\ store' = [store EXCEPT ![p].phase = "initializing",
                                    ![p].durability = "power_loss_resilient"]
          /\ at' = [at EXCEPT ![p] = "prepare"]
          /\ UNCHANGED <<queue, call>>
    /\ UNCHANGED <<lock, file, stable, revision, issued, syncs, exposed, faults>>

(* confirmDirectorySync: the directory is on disk, or the store learns     *)
(* that this file system cannot promise that.                              *)
ConfirmDirectorySync(f) == IF syncs THEN {f} ELSE stable \cup {f}
Durability == IF syncs THEN "power_loss_resilient" ELSE "process_restart_resilient"

PrepareDirectory(p) ==
    /\ at[p] = "prepare"
    /\ store' = [store EXCEPT ![p].durability = Durability]
    /\ stable' = ConfirmDirectorySync(file)
    /\ at' = [at EXCEPT ![p] = "acquire"]
    /\ UNCHANGED <<queue, call, lock, file, revision, issued, syncs, exposed, faults>>

(* open(..., 'wx'): the marker of another owner is left alone. *)
AcquireAuthority(p) ==
    /\ at[p] = "acquire"
    /\ IF lock = NoProc
         THEN /\ lock' = p
              /\ store' = [store EXCEPT ![p].holds = TRUE]
              /\ stable' = ConfirmDirectorySync(file)
              /\ at' = [at EXCEPT ![p] = "load"]
              /\ UNCHANGED <<queue, call>>
         ELSE /\ store' = [store EXCEPT ![p].phase = "failed"]
              /\ Reject(p) /\ Settle(p)
              /\ UNCHANGED <<lock, stable>>
    /\ UNCHANGED <<file, revision, issued, syncs, exposed, faults>>

LoadOnce(p) ==
    /\ at[p] = "load"
    /\ store' = [store EXCEPT ![p].phase = "ready", ![p].records = file]
    /\ IF Head(queue[p]) = "init" THEN Settle(p)
       ELSE at' = [at EXCEPT ![p] = "reserve"] /\ UNCHANGED queue
    /\ UNCHANGED <<call, lock, file, stable, revision, issued, syncs, exposed, faults>>

(* Preparing, acquiring or loading fails: what was acquired is released. *)
InitializationFails(p) ==
    /\ at[p] \in {"prepare", "acquire", "load"} /\ Faulty
    /\ lock' = IF store[p].holds THEN NoProc ELSE lock
    /\ store' = [store EXCEPT ![p].phase = "failed", ![p].holds = FALSE]
    /\ Reject(p) /\ Settle(p)
    /\ UNCHANGED <<file, stable, revision, issued, syncs, exposed>>

--------------------------------------------------------------------------
(* reserve, once the store is ready. *)

Admits(records, k, n) ==
    /\ records[k] # 0 \/ Cardinality({x \in Keys : records[x] # 0}) < MaxRecords
    /\ records[k] + n <= MaxSequence

NextRecords(p) ==
    LET c == call[Head(queue[p])] IN
    [store[p].records EXCEPT ![c.key] = @ + c.count]

Reserve(p) ==
    /\ at[p] = "reserve"
    /\ LET c == call[Head(queue[p])] IN
       IF Admits(store[p].records, c.key, c.count)
         THEN at' = [at EXCEPT ![p] = "rename"] /\ UNCHANGED <<queue, call>>
         ELSE Reject(p) /\ Settle(p)
    /\ UNCHANGED <<store, lock, file, stable, revision, issued, syncs, exposed, faults>>

Rename(p) ==
    /\ at[p] = "rename"
    /\ file' = NextRecords(p)
    /\ stable' = stable \cup {NextRecords(p)}
    /\ at' = [at EXCEPT ![p] = "sync"]
    /\ UNCHANGED <<store, queue, call, lock, revision, issued, syncs, exposed, faults>>

(* Off by one: the last number given out is given out again. *)
ReservedInclusive(p) ==
    /\ at[p] = "sync"
    /\ LET c == Head(queue[p])
           last == store[p].records[call[c].key]
       IN
       /\ store' = [store EXCEPT ![p].records = NextRecords(p)]
       /\ call' = [call EXCEPT ![c].stage = "signing",
                               ![c].first = IF last = 0 THEN 1 ELSE last]
    /\ stable' = ConfirmDirectorySync(file)
    /\ Settle(p)
    /\ UNCHANGED <<lock, file, revision, issued, syncs, exposed, faults>>

(* The directory is synchronised; memory moves and the numbers are given   *)
(* to the call.                                                            *)
Reserved(p) ==
    /\ at[p] = "sync"
    /\ LET c == Head(queue[p]) IN
       /\ store' = [store EXCEPT ![p].records = NextRecords(p)]
       /\ call' = [call EXCEPT ![c].stage = "signing",
                               ![c].first = store[p].records[call[c].key] + 1]
    /\ stable' = ConfirmDirectorySync(file)
    /\ Settle(p)
    /\ UNCHANGED <<lock, file, revision, issued, syncs, exposed, faults>>

(* Writing, renaming or synchronising fails: the numbers are never given   *)
(* out, though they may be on disk, and the store refuses from then on.    *)
PersistFails(p) ==
    /\ at[p] \in {"rename", "sync"} /\ Faulty
    /\ store' = [store EXCEPT ![p].phase = "failed"]
    /\ Reject(p) /\ Settle(p)
    /\ UNCHANGED <<lock, file, stable, revision, issued, syncs, exposed>>

(* close: the marker goes only when it is still this owner's. *)
ReleaseAuthority(p) ==
    /\ at[p] = "release"
    /\ lock' = IF store[p].holds /\ lock = p THEN NoProc ELSE lock
    /\ store' = [store EXCEPT ![p].holds = FALSE,
                              ![p].phase = IF store[p].holds /\ lock # p THEN "failed" ELSE "closed"]
    /\ Settle(p)
    /\ UNCHANGED <<call, file, stable, revision, issued, syncs, exposed, faults>>

ReleaseFails(p) ==
    /\ at[p] = "release" /\ store[p].holds /\ Faulty
    /\ store' = [store EXCEPT ![p].phase = "failed", ![p].holds = FALSE]
    /\ Settle(p)
    /\ UNCHANGED <<call, lock, file, stable, revision, issued, syncs, exposed>>

--------------------------------------------------------------------------
(* assertSequences and the signatures; one bad signature loses them all. *)

Signed(c) ==
    /\ call[c].stage = "signing"
    /\ call' = [call EXCEPT ![c].stage = "issued"]
    /\ issued' = issued \cup
          {[key |-> call[c].key, seq |-> s, rev |-> call[c].rev, call |-> c]
             : s \in call[c].first..(call[c].first + call[c].count - 1)}
    /\ UNCHANGED <<store, queue, at, lock, file, stable, revision, syncs, exposed, faults>>

SigningFails(c) ==
    /\ call[c].stage = "signing" /\ Faulty
    /\ call' = [call EXCEPT ![c].stage = "refused"]
    /\ UNCHANGED <<store, queue, at, lock, file, stable, revision, issued, syncs, exposed>>

--------------------------------------------------------------------------
(* The environment. *)

ProductionChanges ==
    /\ revision < MaxRevision
    /\ revision' = revision + 1
    /\ UNCHANGED <<store, queue, at, call, lock, file, stable, issued, syncs, exposed, faults>>

Die(ps) ==
    /\ store' = [p \in Procs |-> IF p \in ps THEN [Fresh EXCEPT !.phase = "dead"] ELSE store[p]]
    /\ queue' = [p \in Procs |-> IF p \in ps THEN <<>> ELSE queue[p]]
    /\ at' = [p \in Procs |-> IF p \in ps THEN "idle" ELSE at[p]]
    /\ call' = [c \in Calls |->
                  IF call[c].proc \in ps /\ call[c].stage # "issued"
                  THEN [call[c] EXCEPT !.stage = "refused"] ELSE call[c]]

Crash(p) ==
    /\ Alive(p) /\ Faulty
    /\ Die({p})
    /\ UNCHANGED <<lock, file, stable, revision, issued, syncs, exposed>>

(* Every process of the host dies.  The marker may have been written       *)
(* without reaching the disk.                                              *)
PowerLoss ==
    /\ Faulty
    /\ Die({p \in Procs : store[p].phase # "new"})
    /\ \E f \in stable : file' = f /\ stable' = {f}
    /\ lock' \in {lock, NoProc}
    /\ exposed' = (exposed \/ ~syncs)
    /\ UNCHANGED <<revision, issued, syncs>>

(* Nothing in the store removes the marker of a process that died: an      *)
(* operator does, having seen that its owner is gone.                      *)
OperatorClears ==
    /\ lock # NoProc /\ ~(Alive(lock) /\ store[lock].holds)
    /\ lock' = NoProc
    /\ UNCHANGED <<store, queue, at, call, file, stable, revision, issued, syncs, exposed, faults>>

ProcStep(p) ==
    \/ Run(p) \/ PrepareDirectory(p) \/ AcquireAuthority(p) \/ LoadOnce(p)
    \/ Reserve(p) \/ Rename(p) \/ Reserved(p) \/ ReleaseAuthority(p)

CallStep(c) == Authenticated(c) \/ Unauthorized(c) \/ Signed(c)

Next ==
    \/ \E p \in Procs :
          \/ ProcStep(p) \/ Start(p) \/ CloseStore(p)
          \/ InitializationFails(p) \/ PersistFails(p) \/ ReleaseFails(p) \/ Crash(p)
    \/ \E p \in Procs, c \in Calls, k \in Keys, n \in 1..2 : IssueVisibility(p, c, k, n)
    \/ \E c \in Calls : CallStep(c) \/ SigningFails(c)
    \/ ProductionChanges \/ PowerLoss \/ OperatorClears

Spec == Init /\ [][Next]_vars

--------------------------------------------------------------------------
(* No number is issued twice for an audience: not by two processes, not    *)
(* after a failed write, not after a crash, and not after a power loss     *)
(* unless the store had degraded to process_restart_resilient; a higher    *)
(* number of a process never carries an older production state; and a      *)
(* number a device has seen is on disk (reserve returns after persist).    *)
SequencesAreFresh ==
    ~exposed =>
      /\ \A e, f \in issued : e.key = f.key =>
           /\ e.seq = f.seq => e = f
           /\ call[e.call].proc = call[f.call].proc /\ e.seq < f.seq => e.rev <= f.rev
      /\ \A e \in issued :
           /\ e.seq <= file[e.key]
           /\ syncs => \A d \in stable : e.seq <= d[e.key]

==========================================================================
