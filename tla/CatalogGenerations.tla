-------------------------- MODULE CatalogGenerations --------------------------
(***************************************************************************)
(* FileCatalogGenerationStore.  Every device session opens a store on the  *)
(* file of its credential audience.  observe gives the catalog of the      *)
(* current production state a generation at once, in memory, and schedules *)
(* its persistence; confirm waits until the generation is durable, and     *)
(* only then may a snapshot naming it be issued.  Stores of consecutive    *)
(* sessions, crashes, power losses and failing I/O share the file and its  *)
(* authority marker.  `stable' is what the disk may show after a power     *)
(* loss.                                                                   *)
(***************************************************************************)
EXTENDS Naturals, Sequences, FiniteSets

CONSTANTS
    Stores,         \* store instances, one per device session
    NoStore,        \* not a store
    Catalogs,       \* effective catalogs (their SHA-256)
    NoCatalog,      \* not a catalog
    MaxGeneration,  \* Number.MAX_SAFE_INTEGER
    MaxFaults       \* bound: crashes, power losses and failed I/O calls

ASSUME CatalogAssumption ==
    /\ NoStore \notin Stores /\ NoCatalog \notin Catalogs
    /\ MaxGeneration \in Nat /\ MaxFaults \in Nat

VARIABLES
    store,    \* per store: phase, closing, current, durable, holds
    queue,    \* per store: the jobs behind `exclusive', the head running
    at,       \* per store: where the running job is
    calls,    \* the confirmations under way: stage, store, token
    lock,     \* the owner named by authority.lock, or NoStore
    file,     \* the token in the file, or NoToken
    stable,   \* tokens the file may hold after a power loss
    shown,    \* the tokens confirmed so far, in order
    syncs,    \* this file system can synchronise a directory
    exposed,  \* the host lost power and it cannot
    faults

vars == <<store, queue, at, calls, lock, file, stable, shown, syncs, exposed, faults>>

NoToken == [gen |-> 0, cat |-> NoCatalog]
Tokens == [gen : 1..MaxGeneration, cat : Catalogs]

InitJob == [kind |-> "init", token |-> NoToken]
CloseJob == [kind |-> "close", token |-> NoToken]
PersistJob(t) == [kind |-> "persist", token |-> t]

Fresh == [phase |-> "new", closing |-> FALSE, current |-> NoToken,
          durable |-> NoToken, holds |-> FALSE]

(* Confirmations of one token by one store share their promise and end     *)
(* alike: they are one call.                                               *)
Waiting(s, t) == [stage |-> "waiting", store |-> s, token |-> t]
Checking(s, t) == [stage |-> "checking", store |-> s, token |-> t]

Init ==
    /\ store = [s \in Stores |-> Fresh]
    /\ queue = [s \in Stores |-> <<>>]
    /\ at = [s \in Stores |-> "idle"]
    /\ calls = {}
    /\ lock = NoStore
    /\ file = NoToken /\ stable = {NoToken}
    /\ shown = <<>>
    /\ syncs \in BOOLEAN /\ exposed = FALSE
    /\ faults = 0

Alive(s) == store[s].phase # "dead"
Faulty == faults < MaxFaults /\ faults' = faults + 1
ConfirmDirectorySync(t) == IF syncs THEN {t} ELSE stable \cup {t}

(* pending: the generations whose persistence is queued or running. *)
Pending(s) == {queue[s][i].token : i \in {j \in DOMAIN queue[s] : queue[s][j].kind = "persist"}}

Settle(s) ==
    /\ queue' = [queue EXCEPT ![s] = Tail(@)]
    /\ at' = [at EXCEPT ![s] = "idle"]

(* A confirmation whose await ended goes on before the next I/O call ends. *)
Resumed == \A c \in calls : c.stage # "checking"

(* The confirmed tokens; repetitions of the last one are dropped. *)
Shown(t) == IF shown # <<>> /\ shown[Len(shown)] = t THEN shown ELSE Append(shown, t)

--------------------------------------------------------------------------
(* The session's calls. *)

Usable(s) == ~store[s].closing /\ store[s].phase \in {"ready", "blocked"}

Open(s) ==
    /\ store[s].phase = "new" /\ ~store[s].closing /\ queue[s] = <<>>
    /\ queue' = [queue EXCEPT ![s] = <<InitJob>>]
    /\ UNCHANGED <<store, at, calls, lock, file, stable, shown, syncs, exposed, faults>>

(* observe: a catalog other than the current one gets the next generation, *)
(* the same one has its persistence retried when that had failed.          *)
Observe(s, h) ==
    /\ Usable(s)
    /\ \/ /\ store[s].current.cat = h
          /\ store[s].durable # store[s].current /\ store[s].current \notin Pending(s)
          /\ store' = [store EXCEPT ![s].phase = "blocked"]
          /\ queue' = [queue EXCEPT ![s] = Append(@, PersistJob(store[s].current))]
       \/ /\ store[s].current.cat # h
          /\ store[s].current.gen < MaxGeneration
          /\ LET t == [gen |-> store[s].current.gen + 1, cat |-> h] IN
             /\ store' = [store EXCEPT ![s].current = t, ![s].phase = "blocked"]
             /\ queue' = [queue EXCEPT ![s] = Append(@, PersistJob(t))]
    /\ UNCHANGED <<at, calls, lock, file, stable, shown, syncs, exposed, faults>>

(* confirm: already durable, and then confirmed at once; waiting for the   *)
(* pending persistence, or scheduling one.                                 *)
Confirm(s) ==
    LET t == store[s].current IN
    /\ Usable(s) /\ t # NoToken
    /\ IF store[s].durable = t
         THEN /\ shown' = Shown(t)
              /\ UNCHANGED <<store, queue, calls>>
         ELSE /\ calls' = calls \cup {Waiting(s, t)}
              /\ store' = [store EXCEPT ![s].phase = "blocked"]
              /\ queue' = IF t \in Pending(s) THEN queue
                          ELSE [queue EXCEPT ![s] = Append(@, PersistJob(t))]
              /\ UNCHANGED shown
    /\ UNCHANGED <<at, lock, file, stable, syncs, exposed, faults>>

(* confirm, after its await: current and durable must both still be the    *)
(* token, or it is stale.                                                  *)
Confirmed(c) ==
    LET s == c.store
        t == c.token IN
    /\ c.stage = "checking"
    /\ calls' = calls \ {c}
    /\ shown' = IF store[s].current = t /\ store[s].durable = t THEN Shown(t) ELSE shown
    /\ UNCHANGED <<store, queue, at, lock, file, stable, syncs, exposed, faults>>

Close(s) ==
    /\ Alive(s) /\ ~store[s].closing
    /\ store' = [store EXCEPT ![s].closing = TRUE]
    /\ queue' = [queue EXCEPT ![s] = Append(@, CloseJob)]
    /\ UNCHANGED <<at, calls, lock, file, stable, shown, syncs, exposed, faults>>

IsCurrent(s, t) ==
    store[s].phase = "ready" /\ store[s].current = t /\ store[s].durable = t

--------------------------------------------------------------------------
(* The head of the queue. *)

Run(s) ==
    /\ at[s] = "idle" /\ queue[s] # <<>>
    /\ LET job == Head(queue[s]) IN
       \/ /\ job.kind = "close"
          /\ store' = [store EXCEPT ![s].phase = "closing"]
          /\ at' = [at EXCEPT ![s] = "release"]
       \/ /\ job.kind = "init"
          /\ store' = [store EXCEPT ![s].phase = "initializing"]
          /\ at' = [at EXCEPT ![s] = "acquire"]
       \/ /\ job.kind = "persist"
          /\ at' = [at EXCEPT ![s] = "rename"]
          /\ UNCHANGED store
    /\ UNCHANGED <<queue, calls, lock, file, stable, shown, syncs, exposed, faults>>

(* prepareDirectory and acquireAuthority: the marker of another owner is   *)
(* an error, latched, and left alone.                                      *)
AcquireAuthority(s) ==
    /\ Resumed /\ at[s] = "acquire"
    /\ stable' = ConfirmDirectorySync(file)
    /\ IF lock = NoStore
         THEN /\ lock' = s
              /\ store' = [store EXCEPT ![s].holds = TRUE]
              /\ at' = [at EXCEPT ![s] = "load"]
              /\ UNCHANGED queue
         ELSE /\ store' = [store EXCEPT ![s].phase = "failed"]
              /\ Settle(s)
              /\ UNCHANGED lock
    /\ UNCHANGED <<calls, file, shown, syncs, exposed, faults>>

(* A file that could not be read is taken for one that is not there. *)
LoadEmpty(s) ==
    /\ Resumed /\ at[s] = "load"
    /\ store' = [store EXCEPT ![s].phase = "ready"]
    /\ Settle(s)
    /\ UNCHANGED <<calls, lock, file, stable, shown, syncs, exposed, faults>>

Load(s) ==
    /\ Resumed /\ at[s] = "load"
    /\ store' = [store EXCEPT ![s].phase = "ready", ![s].current = file, ![s].durable = file]
    /\ Settle(s)
    /\ UNCHANGED <<calls, lock, file, stable, shown, syncs, exposed, faults>>

InitializationFails(s) ==
    /\ Resumed /\ at[s] \in {"acquire", "load"} /\ Faulty
    /\ lock' = IF store[s].holds THEN NoStore ELSE lock
    /\ store' = [store EXCEPT ![s].phase = "failed", ![s].holds = FALSE]
    /\ Settle(s)
    /\ UNCHANGED <<calls, file, stable, shown, syncs, exposed>>

(* The temporary file is on disk; it replaces the file. *)
Rename(s) ==
    LET t == Head(queue[s]).token IN
    /\ Resumed /\ at[s] = "rename"
    /\ file' = t
    /\ stable' = stable \cup {t}
    /\ at' = [at EXCEPT ![s] = "sync"]
    /\ UNCHANGED <<store, queue, calls, lock, shown, syncs, exposed, faults>>

Persisted(s) ==
    LET t == Head(queue[s]).token IN
    /\ Resumed /\ at[s] = "sync"
    /\ stable' = ConfirmDirectorySync(file)
    /\ store' = [store EXCEPT ![s].durable = t,
                              ![s].phase = IF store[s].current = t THEN "ready" ELSE @]
    /\ calls' = IF Waiting(s, t) \in calls
                THEN (calls \ {Waiting(s, t)}) \cup {Checking(s, t)} ELSE calls
    /\ Settle(s)
    /\ UNCHANGED <<lock, file, shown, syncs, exposed, faults>>

(* The audience stays blocked; the next observe or confirm tries again. *)
PersistFails(s) ==
    LET t == Head(queue[s]).token IN
    /\ Resumed /\ at[s] \in {"rename", "sync"} /\ Faulty
    /\ store' = [store EXCEPT ![s].phase = IF store[s].current = t THEN "blocked" ELSE @]
    /\ calls' = calls \ {Waiting(s, t)}
    /\ Settle(s)
    /\ UNCHANGED <<lock, file, stable, shown, syncs, exposed>>

ReleaseAuthority(s) ==
    /\ Resumed /\ at[s] = "release"
    /\ lock' = IF store[s].holds /\ lock = s THEN NoStore ELSE lock
    /\ store' = [store EXCEPT ![s].holds = FALSE,
                              ![s].phase = IF store[s].holds /\ lock # s THEN "failed" ELSE "closed"]
    /\ Settle(s)
    /\ UNCHANGED <<calls, file, stable, shown, syncs, exposed, faults>>

ReleaseFails(s) ==
    /\ Resumed /\ at[s] = "release" /\ store[s].holds /\ Faulty
    /\ store' = [store EXCEPT ![s].phase = "failed", ![s].holds = FALSE]
    /\ Settle(s)
    /\ UNCHANGED <<calls, lock, file, stable, shown, syncs, exposed>>

--------------------------------------------------------------------------
(* The environment.  All stores of a process die with it; an operator      *)
(* removes the marker of an owner that is gone.                            *)

Die ==
    /\ store' = [s \in Stores |->
                   IF store[s].phase = "new" /\ queue[s] = <<>> THEN store[s]
                   ELSE [Fresh EXCEPT !.phase = "dead"]]
    /\ queue' = [s \in Stores |-> <<>>]
    /\ at' = [s \in Stores |-> "idle"]
    /\ calls' = {}

Crash ==
    /\ Faulty /\ Die
    /\ UNCHANGED <<lock, file, stable, shown, syncs, exposed>>

PowerLoss ==
    /\ Faulty /\ Die
    /\ \E t \in stable : file' = t /\ stable' = {t}
    /\ lock' \in {lock, NoStore}
    /\ exposed' = (exposed \/ ~syncs)
    /\ UNCHANGED <<shown, syncs>>

OperatorClears ==
    /\ lock # NoStore /\ ~store[lock].holds
    /\ lock' = NoStore
    /\ UNCHANGED <<store, queue, at, calls, file, stable, shown, syncs, exposed, faults>>

StoreStep(s) ==
    Run(s) \/ AcquireAuthority(s) \/ Load(s) \/ Rename(s) \/ Persisted(s) \/ ReleaseAuthority(s)

Next ==
    \/ \E s \in Stores :
          \/ StoreStep(s) \/ Open(s) \/ Close(s) \/ Confirm(s)
          \/ InitializationFails(s) \/ PersistFails(s) \/ ReleaseFails(s)
          \/ \E h \in Catalogs : Observe(s, h)
    \/ \E c \in calls : Confirmed(c)
    \/ Crash \/ PowerLoss \/ OperatorClears

Spec == Init /\ [][Next]_vars

--------------------------------------------------------------------------
(* ADR-0025: "Catalog ABA changes cannot make older signed bytes current   *)
(* again".  A generation names one catalog and confirmed generations only  *)
(* grow, over sessions, failed writes, crashes and, where directories can  *)
(* be synchronised, power losses; and a token that isCurrent answers for   *)
(* is the file's token: persistence precedes emission.                     *)
GenerationsNameOneCatalog ==
    /\ ~exposed => \A i, j \in DOMAIN shown : i < j => shown[i].gen < shown[j].gen
    /\ \A s \in Stores, t \in Tokens :
         IsCurrent(s, t) => file = t /\ (syncs => stable = {t})

==========================================================================
