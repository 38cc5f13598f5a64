-------------------------- MODULE ServerFiles_proofs --------------------------
(***************************************************************************)
(* Proofs about the files of the server, over any number of sessions or    *)
(* processes, failed writes, crashes and power losses: the catalog         *)
(* generations of one credential audience, the feedback sequences, and one *)
(* document of the storage.                                                *)
(***************************************************************************)
EXTENDS ServerFiles, Integers, TLAPS

Named == [gen : Nat, cat : Catalogs \cup {NoCatalog}]
StoreStates ==
  [phase : {"new", "initializing", "ready", "blocked", "failed", "closing", "closed", "dead"},
   closing : BOOLEAN, current : Named, durable : Named, holds : BOOLEAN]
Jobs == [kind : {"init", "persist", "close"}, token : Named]

(* A later token, or the same one. *)
Le(x, y) == x.gen < y.gen \/ x = y

Loaded(r) == r.holds /\ r.phase # "initializing"

(* The jobs of a store come in their order , and where its head stands      *)
(* agrees with its phase; a store writes only while it holds the marker.   *)
Control(r, q, a) ==
  /\ \A i \in 1 .. Len(q) :
       /\ q[i].kind = "init" => i = 1 /\ r.phase \in {"new", "initializing"}
       /\ q[i].kind = "persist" => r.phase \in {"ready", "blocked"}
       /\ q[i].kind = "close" => i = Len(q) /\ r.closing
  /\ a = "idle" => r.phase \notin {"initializing", "closing"}
  /\ a \in {"acquire", "load"} => r.phase = "initializing" /\ Len(q) > 0 /\ q[1].kind = "init"
  /\ a = "acquire" => ~r.holds
  /\ a \in {"rename", "sync"} => Len(q) > 0 /\ q[1].kind = "persist"
  /\ a = "release" => r.phase = "closing" /\ Len(q) > 0 /\ q[1].kind = "close"
  /\ r.phase \in {"ready", "blocked"} \/ a = "load" => r.holds
  /\ r.holds => r.phase \in {"initializing", "ready", "blocked", "closing"}

(* What is durable, what the file has, what waits to be written and what   *)
(* is current only grow, and equal generations are equal tokens.           *)
Ordered(r, q, a, f) ==
  /\ Loaded(r) =>
       /\ Le(r.durable, f) /\ Le(f, r.current)
       /\ \A i \in 1 .. Len(q) : q[i].kind = "persist" =>
            /\ Le(f, q[i].token) /\ Le(q[i].token, r.current)
            /\ r.durable.gen < q[i].token.gen
            /\ \A j \in 1 .. Len(q) :
                 q[j].kind = "persist" /\ i < j => q[i].token.gen < q[j].token.gen
  /\ a = "sync" => f = q[1].token

(* Where directories are synchronised, what is durable and current is all  *)
(* that a power loss may show.                                             *)
OnDisk(r, a, f, st) ==
  syncs /\ (a = "load" \/ (Loaded(r) /\ r.durable = r.current)) => st = {f}

StoreInv(s, r, q, a, l, f, st) ==
  /\ r \in StoreStates /\ q \in Seq(Jobs)
  /\ a \in {"idle", "acquire", "load", "rename", "sync", "release"}
  /\ r.holds => l = s
  /\ Control(r, q, a) /\ Ordered(r, q, a, f) /\ OnDisk(r, a, f, st)

Covers(sh, f) == \A i \in 1 .. Len(sh) : Le(sh[i], f)

DiskInv ==
  /\ store = [s \in Stores |-> store[s]] /\ queue = [s \in Stores |-> queue[s]]
  /\ at = [s \in Stores |-> at[s]]

(* The confirmed tokens are no later than what the file has, or may show.  *)
ShownInv ==
  /\ file \in Named /\ stable \subseteq Named
  /\ shown \in Seq(Named) /\ syncs \in BOOLEAN /\ exposed \in BOOLEAN
  /\ exposed => ~syncs
  /\ ~exposed =>
       /\ \A i, j \in 1 .. Len(shown) : i < j => shown[i].gen < shown[j].gen
       /\ Covers(shown, file)
  /\ syncs => \A x \in stable : Covers(shown, x)

(* A confirmation that goes on finds its store loaded. *)
CallsInv ==
  \A c \in calls :
     /\ c.store \in Stores
     /\ c.stage = "checking" => Loaded(store[c.store])

CatalogInv ==
  /\ \A s \in Stores : StoreInv(s, store[s], queue[s], at[s], lock, file, stable)
  /\ DiskInv /\ ShownInv /\ CallsInv

LEMMA CatalogStarts ==
  ASSUME CatalogAssumption, Init
  PROVE  CatalogInv
<1>1. /\ store = [s \in Stores |-> Fresh] /\ queue = [s \in Stores |-> <<>>]
      /\ at = [s \in Stores |-> "idle"] /\ calls = {}
      /\ file = NoToken /\ stable = {NoToken} /\ shown = <<>>
      /\ syncs \in BOOLEAN /\ exposed = FALSE
  BY DEF Init
<1>2. NoToken \in Named
  BY DEF NoToken, Named
<1>3. Fresh \in StoreStates /\ ~Fresh.holds /\ Fresh.phase = "new"
  BY <1>2 DEF Fresh, StoreStates
<1>4. ASSUME NEW s \in Stores
      PROVE  StoreInv(s, store[s], queue[s], at[s], lock, file, stable)
  BY <1>1, <1>3 DEF StoreInv, Control, Ordered, OnDisk, Loaded
<1>5. DiskInv
  BY <1>1, <1>2 DEF DiskInv
<1>6. shown \in Seq(Named) /\ Len(shown) = 0
  BY <1>1
<1>7. (\A x : Covers(shown, x)) /\ \A i, j \in 1 .. Len(shown) : i < j => shown[i].gen < shown[j].gen
  BY <1>6 DEF Covers
<1>8. ShownInv
  BY <1>1, <1>2, <1>6, <1>7 DEF ShownInv
<1>9. CallsInv
  BY <1>1 DEF CallsInv
<1> QED  BY <1>4, <1>5, <1>8, <1>9 DEF CatalogInv

\* A step of one store, what it may do to the disk while another holds the
\* marker, and the confirmations it leaves.
Moves(s, r, q, a) ==
  /\ store' = [store EXCEPT ![s] = r] /\ queue' = [queue EXCEPT ![s] = q]
  /\ at' = [at EXCEPT ![s] = a] /\ syncs' = syncs

Elsewhere(s) ==
  \A j \in Stores \ {s} : store[j].holds =>
     lock' = lock /\ file' = file /\ (stable' = stable \/ (syncs => stable' = {file}))

Confirms(s, r) ==
  \A c \in calls' :
     /\ c.store \in Stores
     /\ c.stage = "checking" => Loaded(IF c.store = s THEN r ELSE store[c.store])

LEMMA OneStoreMoves ==
  ASSUME NEW s \in Stores, NEW r, NEW q, NEW a, CatalogInv,
         Moves(s, r, q, a), StoreInv(s, r, q, a, lock', file', stable'),
         Elsewhere(s), Confirms(s, r), ShownInv'
  PROVE  CatalogInv'
<1> USE DEF Moves, Elsewhere, Confirms
<1>1. DiskInv
  BY DEF CatalogInv
<1>2. /\ store'[s] = r /\ queue'[s] = q /\ at'[s] = a
      /\ \A j \in Stores \ {s} : store'[j] = store[j] /\ queue'[j] = queue[j] /\ at'[j] = at[j]
  BY <1>1 DEF DiskInv
<1>3. DiskInv'
  BY <1>1 DEF DiskInv
<1>4. CallsInv'
  BY <1>2 DEF CallsInv
<1>5. ASSUME NEW j \in Stores
      PROVE  StoreInv(j, store[j], queue[j], at[j], lock, file, stable)'
  <2>1. CASE j = s
    BY <1>2, <2>1 DEF StoreInv, OnDisk, Control, Ordered, Loaded, Le
  <2>2. CASE j # s
    <3>1. StoreInv(j, store[j], queue[j], at[j], lock, file, stable)
      BY DEF CatalogInv
    <3>2. CASE store[j].holds
      BY <1>2, <2>2, <3>1, <3>2 DEF StoreInv, OnDisk
    <3>3. CASE ~store[j].holds
      BY <1>2, <2>2, <3>1, <3>3 DEF StoreInv, OnDisk, Control, Ordered, Loaded
    <3> QED  BY <3>2, <3>3
  <2> QED  BY <2>1, <2>2
<1> QED  BY <1>3, <1>4, <1>5 DEF CatalogInv

\* What Head, Tail and Append make of a queue of jobs.
LEMMA Queues ==
  ASSUME NEW q \in Seq(Jobs)
  PROVE  /\ q # <<>> => Len(q) > 0
         /\ Len(q) > 0 =>
              /\ Head(q) = q[1] /\ q[1] \in Jobs
              /\ Tail(q) \in Seq(Jobs) /\ Len(Tail(q)) = Len(q) - 1
              /\ \A i \in 1 .. (Len(q) - 1) : Tail(q)[i] = q[i + 1]
         /\ \A x \in Jobs :
              /\ Append(q, x) \in Seq(Jobs) /\ Len(Append(q, x)) = Len(q) + 1
              /\ \A i \in 1 .. Len(q) : Append(q, x)[i] = q[i]
              /\ Append(q, x)[Len(q) + 1] = x
  OBVIOUS

\* The state of one store, ready to be moved.
LEMMA StoreFacts ==
  ASSUME CatalogInv, NEW s \in Stores
  PROVE  /\ StoreInv(s, store[s], queue[s], at[s], lock, file, stable)
         /\ store[s] \in StoreStates /\ queue[s] \in Seq(Jobs)
         /\ store[s].phase \in {"new", "initializing", "ready", "blocked", "failed",
                                "closing", "closed", "dead"}
         /\ store[s].closing \in BOOLEAN /\ store[s].holds \in BOOLEAN
         /\ store[s].current \in Named /\ store[s].durable \in Named
         /\ store[s].current.gen \in Nat /\ store[s].durable.gen \in Nat
         /\ file \in Named /\ file.gen \in Nat /\ stable \subseteq Named
         /\ \A j \in Stores : store[j].holds => lock = j
         /\ store = [j \in Stores |-> store[j]] /\ queue = [j \in Stores |-> queue[j]]
         /\ at = [j \in Stores |-> at[j]]
  BY DEF CatalogInv, StoreInv, StoreStates, DiskInv, ShownInv, Named

\* A finished job leaves the queue in its order.
LEMMA QueueSettles ==
  ASSUME NEW s, NEW r, NEW q, NEW a, NEW l, NEW f, NEW st, StoreInv(s, r, q, a, l, f, st),
         a # "idle", NEW r2 \in StoreStates,
         q[1].kind = "persist" => r2.phase \in {"ready", "blocked"},
         r2.phase \notin {"initializing", "closing"}, r2.closing = r.closing,
         r2.phase \in {"ready", "blocked"} <=> r2.holds
  PROVE  Control(r2, Tail(q), "idle") /\ Tail(q) \in Seq(Jobs)
<1>1. q \in Seq(Jobs) /\ Len(q) > 0 /\ Control(r, q, a)
  BY DEF StoreInv, Control
<1>2. /\ Tail(q) \in Seq(Jobs) /\ Len(Tail(q)) = Len(q) - 1
      /\ \A i \in 1 .. (Len(q) - 1) : Tail(q)[i] = q[i + 1]
  BY <1>1, Queues
<1>3. ASSUME NEW i \in 1 .. Len(Tail(q))
      PROVE  /\ Tail(q)[i].kind # "init"
             /\ Tail(q)[i].kind = "persist" => r2.phase \in {"ready", "blocked"}
             /\ Tail(q)[i].kind = "close" => i = Len(Tail(q)) /\ r2.closing
  <2>1. i + 1 \in 1 .. Len(q) /\ Tail(q)[i] = q[i + 1] /\ i + 1 # 1
    BY <1>1, <1>2
  <2>2. q[i + 1].kind = "persist" => q[1].kind = "persist"
    BY <1>1, <2>1 DEF Control, StoreInv
  <2>3. q[i + 1].kind # "init"
    BY <1>1, <2>1 DEF Control
  <2>4. q[i + 1].kind = "close" => i + 1 = Len(q) /\ r.closing
    BY <1>1, <2>1 DEF Control
  <2>5. i + 1 = Len(q) => i = Len(Tail(q))
    <3>1. Len(q) \in Nat /\ Len(Tail(q)) = Len(q) - 1 /\ i \in Int
      BY <1>1, <1>2
    <3> QED  BY <3>1
  <2> QED  BY <2>1, <2>2, <2>3, <2>4, <2>5
<1>4. r2.phase \in {"ready", "blocked"} <=> r2.holds
  OBVIOUS
<1> QED  BY <1>2, <1>3, <1>4 DEF Control

LEMMA CatalogOpen ==
  ASSUME CatalogInv, NEW s \in Stores, Open(s)
  PROVE  CatalogInv'
<1> DEFINE q == <<InitJob>>
<1>1. /\ store[s].phase = "new" /\ ~store[s].closing
      /\ queue' = [queue EXCEPT ![s] = q]
      /\ UNCHANGED <<store, at, calls, lock, file, stable, shown, syncs, exposed>>
  BY DEF Open
<1>2. InitJob \in Jobs /\ InitJob.kind = "init"
  BY DEF InitJob, NoToken, Jobs, Named
<1>3. q \in Seq(Jobs) /\ Len(q) = 1 /\ q[1].kind = "init"
  BY <1>2
<1> HIDE DEF q
<1>4. StoreInv(s, store[s], queue[s], at[s], lock, file, stable)
  BY StoreFacts
<1>5. Control(store[s], q, at[s]) /\ ~store[s].holds /\ at[s] = "idle"
  <2>1. \A i \in 1 .. Len(q) : i = 1
    BY <1>3
  <2>2. Control(store[s], queue[s], at[s]) /\ at[s] \in {"idle", "acquire", "load", "rename", "sync", "release"}
    BY <1>4 DEF StoreInv
  <2>3. ~store[s].holds /\ at[s] = "idle"
    <3>1. Len(queue[s]) = 0
      BY <1>1 DEF Open
    <3> QED  BY <1>1, <2>2, <3>1 DEF Control
  <2> QED  BY <1>1, <1>3, <2>1, <2>3 DEF Control
<1>6. StoreInv(s, store[s], q, at[s], lock', file', stable')
  BY <1>1, <1>3, <1>4, <1>5 DEF StoreInv, Ordered, OnDisk, Loaded
<1>7. Moves(s, store[s], q, at[s])
  BY <1>1, StoreFacts DEF Moves
<1>8. Elsewhere(s) /\ Confirms(s, store[s]) /\ ShownInv'
  BY <1>1 DEF Elsewhere, Confirms, CatalogInv, CallsInv, ShownInv, Covers
<1> QED  BY <1>6, <1>7, <1>8, OneStoreMoves

\* A token later than everything before it is queued and made current.
LEMMA QueuePersists ==
  ASSUME NEW s, NEW r, NEW q, NEW a, NEW l, NEW f, NEW st, StoreInv(s, r, q, a, l, f, st),
         r.phase \in {"ready", "blocked"}, ~r.closing, f \in Named,
         NEW t \in Named, NEW r2 \in StoreStates,
         r2.phase = "blocked", r2.closing = r.closing, r2.holds = r.holds,
         r2.durable = r.durable, r2.current = t,
         Le(r.current, t), r.durable.gen < t.gen,
         \A i \in 1 .. Len(q) : q[i].kind = "persist" => q[i].token.gen < t.gen
  PROVE  StoreInv(s, r2, Append(q, PersistJob(t)), a, l, f, st)
<1> DEFINE p == PersistJob(t)
           n == Append(q, p)
<1>1. p \in Jobs /\ p.kind = "persist" /\ p.token = t
  BY DEF PersistJob, Jobs
<1>2. q \in Seq(Jobs) /\ r \in StoreStates /\ Control(r, q, a) /\ Ordered(r, q, a, f)
  BY DEF StoreInv
<1>3. /\ n \in Seq(Jobs) /\ Len(n) = Len(q) + 1 /\ Len(q) \in Nat
      /\ \A i \in 1 .. Len(q) : n[i] = q[i]
      /\ n[Len(q) + 1] = p
  BY <1>1, <1>2, Queues
<1> HIDE DEF n, p
<1>4. \A i \in 1 .. Len(n) : i \in 1 .. Len(q) \/ i = Len(q) + 1
  BY <1>3
<1>5. r.holds /\ Loaded(r)
  BY <1>2 DEF Control, Loaded
<1>6. \A i \in 1 .. Len(q) : q[i].kind # "close"
  BY <1>2 DEF Control
<1>7. Len(q) > 0 => n[1] = q[1]
  BY <1>3
<1>8. Control(r2, n, a)
  BY <1>1, <1>2, <1>3, <1>4, <1>6, <1>7 DEF Control
<1>9. f.gen \in Nat /\ t.gen \in Nat /\ r.current.gen \in Nat /\ r.durable.gen \in Nat
  BY <1>2 DEF Named, StoreStates
<1>10. Le(f, t)
  BY <1>2, <1>5, <1>9 DEF Ordered, Le
<1>11. ASSUME NEW i \in 1 .. Len(n), n[i].kind = "persist"
       PROVE  /\ Le(f, n[i].token) /\ Le(n[i].token, t)
              /\ r.durable.gen < n[i].token.gen
              /\ \A j \in 1 .. Len(n) :
                   n[j].kind = "persist" /\ i < j => n[i].token.gen < n[j].token.gen
  <2>1. CASE i \in 1 .. Len(q)
    <3>1. n[i] = q[i] /\ q[i].token.gen < t.gen
      BY <1>3, <1>11, <2>1
    <3>2. Le(f, q[i].token) /\ r.durable.gen < q[i].token.gen
      BY <1>2, <1>5, <1>11, <2>1, <3>1 DEF Ordered
    <3>3. ASSUME NEW j \in 1 .. Len(n), n[j].kind = "persist", i < j
          PROVE  n[i].token.gen < n[j].token.gen
      <4>1. CASE j \in 1 .. Len(q)
        BY <1>2, <1>3, <1>5, <1>11, <2>1, <3>3, <4>1 DEF Ordered
      <4>2. CASE j = Len(q) + 1
        BY <1>1, <1>3, <3>1, <4>2
      <4> QED  BY <1>4, <4>1, <4>2
    <3> QED  BY <3>1, <3>2, <3>3 DEF Le
  <2>2. CASE i = Len(q) + 1
    BY <1>1, <1>3, <1>10, <2>2 DEF Le
  <2> QED  BY <1>4, <2>1, <2>2
<1>12. a = "sync" => f = n[1].token
  BY <1>2, <1>7 DEF Ordered, Control
<1>13. Ordered(r2, n, a, f)
  BY <1>2, <1>5, <1>9, <1>10, <1>11, <1>12 DEF Ordered, Le, Loaded
<1>14. OnDisk(r2, a, f, st)
  BY <1>2, <1>9 DEF OnDisk, Control
<1> QED  BY <1>3, <1>8, <1>13, <1>14 DEF StoreInv, n, p

\* A store whose current token is not durable waits in the blocked phase.
LEMMA StoreBlocks ==
  ASSUME NEW s, NEW r, NEW q, NEW a, NEW l, NEW f, NEW st, StoreInv(s, r, q, a, l, f, st),
         r.phase \in {"ready", "blocked"}, NEW r2 \in StoreStates,
         r2.phase = "blocked", r2.closing = r.closing, r2.holds = r.holds,
         r2.durable = r.durable, r2.current = r.current
  PROVE  StoreInv(s, r2, q, a, l, f, st)
  BY DEF StoreInv, Control, Ordered, OnDisk, Loaded

\* A current token that is neither durable nor waiting is later than both.
LEMMA NotPending ==
  ASSUME CatalogInv, NEW s \in Stores, store[s].phase \in {"ready", "blocked"},
         store[s].durable # store[s].current, store[s].current \notin Pending(s)
  PROVE  /\ store[s].durable.gen < store[s].current.gen
         /\ \A i \in 1 .. Len(queue[s]) : queue[s][i].kind = "persist" =>
              queue[s][i].token.gen < store[s].current.gen
<1>1. Ordered(store[s], queue[s], at[s], file) /\ Loaded(store[s]) /\ queue[s] \in Seq(Jobs)
  BY StoreFacts DEF StoreInv, Control, Loaded
<1>2. /\ store[s].current.gen \in Nat /\ store[s].durable.gen \in Nat /\ file.gen \in Nat
  BY StoreFacts
<1>3. DOMAIN queue[s] = 1 .. Len(queue[s])
  BY <1>1
<1>4. \A i \in 1 .. Len(queue[s]) : queue[s][i].kind = "persist" =>
        queue[s][i].token # store[s].current
  BY <1>3 DEF Pending
<1> QED  BY <1>1, <1>2, <1>4 DEF Ordered, Le

LEMMA CatalogObserve ==
  ASSUME CatalogInv, NEW s \in Stores, NEW h \in Catalogs, Observe(s, h)
  PROVE  CatalogInv'
<1> DEFINE r == store[s]
           Later(t) == \E r2 \in StoreStates :
             /\ store' = [store EXCEPT ![s] = r2]
             /\ queue' = [queue EXCEPT ![s] = Append(queue[s], PersistJob(t))]
             /\ r2.phase = "blocked" /\ r2.closing = r.closing /\ r2.holds = r.holds
             /\ r2.durable = r.durable /\ r2.current = t
             /\ Le(r.current, t) /\ r.durable.gen < t.gen
             /\ \A i \in 1 .. Len(queue[s]) : queue[s][i].kind = "persist" =>
                  queue[s][i].token.gen < t.gen
<1>1. /\ ~r.closing /\ r.phase \in {"ready", "blocked"}
      /\ UNCHANGED <<at, calls, lock, file, stable, shown, syncs, exposed>>
  BY DEF Observe, Usable
<1>2. PICK t \in Named : Later(t)
  <2>1. CASE r.durable # r.current /\ r.current \notin Pending(s)
             /\ store' = [store EXCEPT ![s].phase = "blocked"]
             /\ queue' = [queue EXCEPT ![s] = Append(@, PersistJob(r.current))]
    <3>1. [r EXCEPT !.phase = "blocked"] \in StoreStates
      BY StoreFacts DEF StoreStates
    <3>2. r.current \in Named
      BY StoreFacts
    <3>3. Le(r.current, r.current)
      BY DEF Le
    <3>4. store' = [store EXCEPT ![s] = [r EXCEPT !.phase = "blocked"]]
      BY <2>1
    <3>5. queue' = [queue EXCEPT ![s] = Append(queue[s], PersistJob(r.current))]
      BY <2>1
    <3>6. [r EXCEPT !.phase = "blocked"].phase = "blocked"
      BY StoreFacts DEF StoreStates
    <3>7. /\ r.durable.gen < r.current.gen
          /\ \A i \in 1 .. Len(queue[s]) : queue[s][i].kind = "persist" =>
               queue[s][i].token.gen < r.current.gen
      BY <1>1, <2>1, NotPending
    <3>8. Later(r.current)
      <4>1. PICK r2 : r2 = [r EXCEPT !.phase = "blocked"]
        OBVIOUS
      <4>2. /\ r2 \in StoreStates /\ store' = [store EXCEPT ![s] = r2]
            /\ r2.phase = "blocked"
        BY <3>1, <3>4, <3>6, <4>1
      <4>3. /\ r2.closing = r.closing /\ r2.holds = r.holds
            /\ r2.durable = r.durable /\ r2.current = r.current
        BY <4>1, StoreFacts DEF StoreStates
      <4> QED  BY <3>3, <3>5, <3>7, <4>2, <4>3
    <3> QED  BY <3>2, <3>8
  <2>2. ASSUME NEW t, t = [gen |-> r.current.gen + 1, cat |-> h],
               store' = [store EXCEPT ![s].current = t, ![s].phase = "blocked"],
               queue' = [queue EXCEPT ![s] = Append(@, PersistJob(t))]
        PROVE  \E u \in Named : Later(u)
    <3>1. r.current.gen + 1 \in Nat /\ t \in Named /\ t.gen = r.current.gen + 1
      BY <2>2, StoreFacts DEF Named
    <3>2. [r EXCEPT !.current = t] \in StoreStates
      BY <3>1, StoreFacts DEF StoreStates
    <3>3. PICK r2 : r2 = [[r EXCEPT !.current = t] EXCEPT !.phase = "blocked"]
      OBVIOUS
    <3>4. r2 \in StoreStates
      BY <3>2, <3>3 DEF StoreStates
    <3>5. /\ r2.phase = "blocked" /\ r2.closing = r.closing /\ r2.holds = r.holds
          /\ r2.durable = r.durable /\ r2.current = t
      BY <3>3, StoreFacts DEF StoreStates
    <3>6. store' = [store EXCEPT ![s] = r2]
      BY <2>2, <3>3, StoreFacts
    <3>7. queue' = [queue EXCEPT ![s] = Append(queue[s], PersistJob(t))]
      BY <2>2
    <3>8. Ordered(r, queue[s], at[s], file) /\ Loaded(r)
      BY <1>1, StoreFacts DEF StoreInv, Control, Loaded
    <3>9. Le(r.durable, r.current)
      BY <3>8, StoreFacts DEF Ordered, Le
    <3>10. Le(r.current, t) /\ r.durable.gen < t.gen
      BY <3>1, <3>9, StoreFacts DEF Le
    <3>11. \A i \in 1 .. Len(queue[s]) : queue[s][i].kind = "persist" =>
             queue[s][i].token.gen \in Nat /\ queue[s][i].token.gen < t.gen
      <4>1. \A i \in 1 .. Len(queue[s]) : queue[s][i].token.gen \in Nat
        <5>1. \A i \in 1 .. Len(queue[s]) : queue[s][i] \in Jobs
          BY StoreFacts
        <5> QED  BY <5>1 DEF Jobs, Named
      <4>2. \A i \in 1 .. Len(queue[s]) : queue[s][i].kind = "persist" => Le(queue[s][i].token, r.current)
        BY <3>8 DEF Ordered
      <4>3. r.current.gen \in Nat /\ r.current.gen < t.gen
        BY <3>1, <3>10, StoreFacts DEF Le
      <4> QED  BY <4>1, <4>2, <4>3, <3>1 DEF Le
    <3> QED  BY <3>1, <3>4, <3>5, <3>6, <3>7, <3>10, <3>11
  <2> QED  BY <2>1, <2>2 DEF Observe
<1>3. PICK r2 \in StoreStates :
        /\ store' = [store EXCEPT ![s] = r2]
        /\ queue' = [queue EXCEPT ![s] = Append(queue[s], PersistJob(t))]
        /\ r2.phase = "blocked" /\ r2.closing = r.closing /\ r2.holds = r.holds
        /\ StoreInv(s, r2, Append(queue[s], PersistJob(t)), at[s], lock, file, stable)
  BY <1>1, <1>2, StoreFacts, QueuePersists
<1>4. Moves(s, r2, Append(queue[s], PersistJob(t)), at[s])
  BY <1>1, <1>3, StoreFacts DEF Moves
<1>5. Loaded(r) => Loaded(r2)
  BY <1>3 DEF Loaded
<1>6. ShownInv' /\ Elsewhere(s)
  BY <1>1 DEF CatalogInv, ShownInv, Covers, Elsewhere
<1>7. Confirms(s, r2)
  BY <1>1, <1>5 DEF CatalogInv, CallsInv, Confirms
<1>8. StoreInv(s, r2, Append(queue[s], PersistJob(t)), at[s], lock', file', stable')
  <2>1. lock' = lock /\ file' = file /\ stable' = stable
    BY <1>1
  <2>2. StoreInv(s, r2, Append(queue[s], PersistJob(t)), at[s], lock, file, stable)
    BY <1>3
  <2> QED  BY <2>1, <2>2
<1> QED  BY <1>4, <1>6, <1>7, <1>8, OneStoreMoves

\* Confirming the token of the file keeps the confirmed ones in order.
LEMMA ShowsTheFile ==
  ASSUME ShownInv, syncs => stable = {file},
         UNCHANGED <<file, stable, syncs, exposed>>, shown' = Shown(file)
  PROVE  ShownInv'
<1>1. shown \in Seq(Named) /\ Len(shown) \in Nat /\ file.gen \in Nat
      /\ \A i \in 1 .. Len(shown) : shown[i] \in Named /\ shown[i].gen \in Nat
  <2>1. shown \in Seq(Named) /\ file \in Named
    BY DEF ShownInv
  <2>2. \A i \in 1 .. Len(shown) : shown[i] \in Named
    BY <2>1
  <2> QED  BY <2>1, <2>2 DEF Named
<1>2. CASE shown' = shown
  BY <1>2 DEF ShownInv, Covers
<1>3. CASE shown' = Append(shown, file) /\ ~(shown # <<>> /\ shown[Len(shown)] = file)
  <2>1. /\ shown' \in Seq(Named) /\ Len(shown') = Len(shown) + 1
        /\ \A i \in 1 .. Len(shown) : shown'[i] = shown[i]
        /\ shown'[Len(shown) + 1] = file
    <3>1. file \in Named
      BY DEF ShownInv
    <3> QED  BY <1>1, <1>3, <3>1
  <2>2. \A i \in 1 .. Len(shown') : i \in 1 .. Len(shown) \/ i = Len(shown) + 1
    BY <1>1, <2>1
  <2>3. ASSUME Covers(shown, file)
        PROVE  Covers(shown', file)
    BY <1>1, <2>1, <2>2, <2>3 DEF Covers, Le
  <2>4. ASSUME ~exposed
        PROVE  \A i, j \in 1 .. Len(shown') : i < j => shown'[i].gen < shown'[j].gen
    <3>1. /\ \A i, j \in 1 .. Len(shown) : i < j => shown[i].gen < shown[j].gen
          /\ Covers(shown, file)
      BY <2>4 DEF ShownInv
    <3>2. ASSUME NEW i \in 1 .. Len(shown)
          PROVE  shown[i].gen < file.gen
      <4>1. shown # <<>> /\ Len(shown) \in 1 .. Len(shown) /\ shown[Len(shown)] # file
        BY <1>1, <1>3, <3>2
      <4>2. shown[Len(shown)].gen < file.gen
        BY <3>1, <4>1 DEF Covers, Le
      <4>3. i = Len(shown) \/ i < Len(shown)
        BY <1>1, <3>2
      <4>4. i < Len(shown) => shown[i].gen < shown[Len(shown)].gen
        BY <3>1, <3>2, <4>1
      <4> QED  BY <1>1, <3>2, <4>1, <4>2, <4>3, <4>4
    <3>3. ASSUME NEW i \in 1 .. Len(shown'), NEW j \in 1 .. Len(shown'), i < j
          PROVE  shown'[i].gen < shown'[j].gen
      <4>1. i \in 1 .. Len(shown)
        BY <1>1, <2>1, <2>2, <3>3
      <4>2. CASE j \in 1 .. Len(shown)
        BY <2>1, <3>1, <3>3, <4>1, <4>2
      <4>3. CASE j = Len(shown) + 1
        BY <2>1, <3>2, <4>1, <4>3
      <4> QED  BY <2>2, <4>2, <4>3
    <3> QED  BY <3>3
  <2>5. syncs => \A x \in stable : Covers(shown', x)
    BY <2>3 DEF ShownInv
  <2> QED  BY <2>1, <2>3, <2>4, <2>5 DEF ShownInv
<1> QED  BY <1>2, <1>3 DEF Shown

LEMMA CatalogConfirm ==
  ASSUME CatalogAssumption, CatalogInv, NEW s \in Stores, Confirm(s)
  PROVE  CatalogInv'
<1> DEFINE r == store[s]
<1>1. /\ ~r.closing /\ r.phase \in {"ready", "blocked"}
      /\ UNCHANGED <<at, lock, file, stable, syncs, exposed>>
     
  BY DEF Confirm, Usable
<1>2. /\ Loaded(r) /\ Ordered(r, queue[s], at[s], file) /\ OnDisk(r, at[s], file, stable)
  BY <1>1, StoreFacts DEF StoreInv, Control, Loaded
<1>3. CASE r.durable = r.current
  <2>1. shown' = Shown(r.current) /\ UNCHANGED <<store, queue, calls>>
    BY <1>3 DEF Confirm
  <2>2. r.current = file /\ (syncs => stable = {file})
    BY <1>2, <1>3, StoreFacts DEF Ordered, OnDisk, Le
  <2>3. ShownInv'
    BY <1>1, <2>1, <2>2, ShowsTheFile DEF CatalogInv
  <2>4. Moves(s, store[s], queue[s], at[s])
    BY <1>1, <2>1, StoreFacts DEF Moves
  <2>5. StoreInv(s, store[s], queue[s], at[s], lock', file', stable')
    BY <1>1, StoreFacts
  <2>6. Confirms(s, store[s]) /\ Elsewhere(s)
    BY <1>1, <2>1 DEF CatalogInv, CallsInv, Confirms, Elsewhere
  <2> QED  BY <2>3, <2>4, <2>5, <2>6, OneStoreMoves
<1>4. CASE r.durable # r.current
  <2>1. /\ calls' = calls \cup {Waiting(s, r.current)}
        /\ store' = [store EXCEPT ![s].phase = "blocked"]
        /\ queue' = IF r.current \in Pending(s) THEN queue
                   ELSE [queue EXCEPT ![s] = Append(@, PersistJob(r.current))]
        /\ UNCHANGED shown
    BY <1>4 DEF Confirm
  <2>2. PICK r2 : r2 = [r EXCEPT !.phase = "blocked"]
    OBVIOUS
  <2>3. /\ r2 \in StoreStates
        /\ r2.phase = "blocked" /\ r2.closing = r.closing /\ r2.holds = r.holds
        /\ r2.durable = r.durable /\ r2.current = r.current
    BY <2>2, StoreFacts DEF StoreStates
  <2>4. store' = [store EXCEPT ![s] = r2]
    BY <2>1, <2>2
  <2>5. PICK q : queue' = [queue EXCEPT ![s] = q] /\ StoreInv(s, r2, q, at[s], lock, file, stable)
    <3>1. CASE r.current \in Pending(s)
      <4>1. queue' = [queue EXCEPT ![s] = queue[s]]
        BY <2>1, <3>1, StoreFacts
      <4>2. StoreInv(s, r2, queue[s], at[s], lock, file, stable)
        BY <1>1, <2>3, StoreFacts, StoreBlocks
      <4> QED  BY <4>1, <4>2
    <3>2. CASE r.current \notin Pending(s)
      <4>1. queue' = [queue EXCEPT ![s] = Append(queue[s], PersistJob(r.current))]
        BY <2>1, <3>2
      <4>2. Le(r.current, r.current)
        BY DEF Le
      <4>3. /\ r.durable.gen < r.current.gen
            /\ \A i \in 1 .. Len(queue[s]) : queue[s][i].kind = "persist" =>
                 queue[s][i].token.gen < r.current.gen
        BY <1>1, <1>4, <3>2, NotPending
      <4>4. StoreInv(s, r2, Append(queue[s], PersistJob(r.current)), at[s],
                     lock, file, stable)
        BY <1>1, <2>3, <4>2, <4>3, StoreFacts, QueuePersists
      <4> QED  BY <4>1, <4>4
    <3> QED  BY <3>1, <3>2
  <2>6. ShownInv'
    BY <1>1, <2>1 DEF CatalogInv, ShownInv, Covers
  <2>7. Confirms(s, r2)
    <3>1. \A d \in calls' : d \in calls \/ d = Waiting(s, r.current)
      BY <2>1
    <3>2. Loaded(r2)
      BY <1>2, <2>3 DEF Loaded
    <3> QED  BY <3>1, <3>2 DEF CatalogInv, CallsInv, Confirms, Waiting
  <2>8. Moves(s, r2, q, at[s]) /\ Elsewhere(s)
    BY <1>1, <2>4, <2>5, StoreFacts DEF Moves, Elsewhere
  <2>9. StoreInv(s, r2, q, at[s], lock', file', stable')
    BY <1>1, <2>5
  <2> QED  BY <2>6, <2>7, <2>8, <2>9, OneStoreMoves
<1> QED  BY <1>3, <1>4

LEMMA CatalogConfirmed ==
  ASSUME CatalogInv, NEW c \in calls, Confirmed(c)
  PROVE  CatalogInv'
<1> DEFINE s == c.store
           t == c.token
<1>1. /\ s \in Stores /\ Loaded(store[s]) /\ calls' \subseteq calls
      /\ UNCHANGED <<store, queue, at, lock, file, stable, syncs, exposed>>
  <2>1. c.stage = "checking" /\ calls' = calls \ {c}
        /\ UNCHANGED <<store, queue, at, lock, file, stable, syncs, exposed>>
    BY DEF Confirmed
  <2>2. s \in Stores /\ Loaded(store[s])
    <3>1. CallsInv
      BY DEF CatalogInv
    <3> QED  BY <2>1, <3>1 DEF CallsInv
  <2> QED  BY <2>1, <2>2
<1>2. ShownInv'
  <2>1. CASE shown' = shown
    BY <1>1, <2>1 DEF CatalogInv, ShownInv, Covers
  <2>2. CASE store[s].current = t /\ store[s].durable = t /\ shown' = Shown(t)
    <3>1. Ordered(store[s], queue[s], at[s], file) /\ OnDisk(store[s], at[s], file, stable)
      BY <1>1, StoreFacts DEF StoreInv
    <3>2. t = file /\ (syncs => stable = {file})
      BY <1>1, <2>2, <3>1, StoreFacts DEF Ordered, OnDisk, Le
    <3>3. ShownInv /\ shown' = Shown(file)
      BY <2>2, <3>2 DEF CatalogInv
    <3> QED  BY <1>1, <3>2, <3>3, ShowsTheFile
  <2> QED  BY <2>1, <2>2 DEF Confirmed
<1>3. ASSUME NEW d \in Stores
      PROVE  StoreInv(d, store[d], queue[d], at[d], lock, file, stable)'
  BY <1>1, StoreFacts DEF StoreInv, OnDisk
<1>4. DiskInv' /\ CallsInv'
  BY <1>1 DEF CatalogInv, DiskInv, CallsInv
<1> QED  BY <1>2, <1>3, <1>4 DEF CatalogInv

LEMMA CatalogClose ==
  ASSUME CatalogInv, NEW s \in Stores, Close(s)
  PROVE  CatalogInv'
<1> DEFINE r == store[s]
<1>1. /\ ~r.closing /\ r.phase # "dead"
      /\ store' = [store EXCEPT ![s].closing = TRUE]
      /\ queue' = [queue EXCEPT ![s] = Append(@, CloseJob)]
      /\ UNCHANGED <<at, calls, lock, file, stable, shown, syncs, exposed>>
  BY DEF Close, Alive
<1>2. PICK r2 : r2 = [r EXCEPT !.closing = TRUE]
  OBVIOUS
<1>3. /\ r2 \in StoreStates
      /\ r2.phase = r.phase /\ r2.closing /\ r2.holds = r.holds
      /\ r2.durable = r.durable /\ r2.current = r.current
  BY <1>2, StoreFacts DEF StoreStates
<1>4. StoreInv(s, r, queue[s], at[s], lock, file, stable) /\ queue[s] \in Seq(Jobs)
  BY StoreFacts
<1>5. CloseJob \in Jobs /\ CloseJob.kind = "close"
  BY DEF CloseJob, NoToken, Jobs, Named
<1>6. PICK q : q = Append(queue[s], CloseJob)
  OBVIOUS
<1>7. /\ q \in Seq(Jobs) /\ Len(q) = Len(queue[s]) + 1 /\ Len(queue[s]) \in Nat
      /\ \A i \in 1 .. Len(queue[s]) : q[i] = queue[s][i]
      /\ q[Len(queue[s]) + 1].kind = "close"
  BY <1>4, <1>5, <1>6, Queues
<1>8. \A i \in 1 .. Len(q) : i \in 1 .. Len(queue[s]) \/ i = Len(queue[s]) + 1
  BY <1>7
<1>9. Len(queue[s]) > 0 => q[1] = queue[s][1]
  BY <1>7
<1>10. Control(r2, q, at[s])
  <2>1. Control(r, queue[s], at[s])
    BY <1>4 DEF StoreInv
  <2>2. ASSUME NEW i \in 1 .. Len(q)
        PROVE  /\ q[i].kind = "init" => i = 1 /\ r2.phase \in {"new", "initializing"}
               /\ q[i].kind = "persist" => r2.phase \in {"ready", "blocked"}
               /\ q[i].kind = "close" => i = Len(q) /\ r2.closing
    <3>1. CASE i \in 1 .. Len(queue[s])
      <4>1. q[i] = queue[s][i] /\ q[i].kind # "close"
        BY <1>1, <1>7, <2>1, <3>1 DEF Control
      <4> QED  BY <1>3, <2>1, <3>1, <4>1 DEF Control
    <3>2. CASE i = Len(queue[s]) + 1
      BY <1>3, <1>7, <3>2
    <3> QED  BY <1>8, <3>1, <3>2
  <2>3. Len(queue[s]) > 0 => Len(q) > 0
    BY <1>7
  <2> QED  BY <1>3, <1>9, <2>1, <2>2, <2>3 DEF Control
<1>11. \A i \in 1 .. Len(q) : q[i].kind = "persist" => i \in 1 .. Len(queue[s]) /\ q[i] = queue[s][i]
  BY <1>7, <1>8
<1>12. Ordered(r2, q, at[s], file)
  <2>1. Ordered(r, queue[s], at[s], file) /\ (Loaded(r2) => Loaded(r))
    BY <1>3, <1>4 DEF StoreInv, Loaded
  <2>2. at[s] = "sync" => q[1] = queue[s][1]
    BY <1>4, <1>9 DEF StoreInv, Control
  <2>3. ASSUME Loaded(r2), NEW i \in 1 .. Len(q), q[i].kind = "persist"
        PROVE  /\ Le(file, q[i].token) /\ Le(q[i].token, r2.current)
               /\ r2.durable.gen < q[i].token.gen
               /\ \A j \in 1 .. Len(q) :
                    q[j].kind = "persist" /\ i < j => q[i].token.gen < q[j].token.gen
    BY <1>3, <1>11, <2>1, <2>3 DEF Ordered
  <2> QED  BY <1>3, <2>1, <2>2, <2>3 DEF Ordered
<1>13. StoreInv(s, r2, q, at[s], lock', file', stable')
  BY <1>1, <1>3, <1>4, <1>7, <1>10, <1>12 DEF StoreInv, OnDisk, Loaded
<1>14. ShownInv' /\ Elsewhere(s)
  BY <1>1 DEF CatalogInv, ShownInv, Covers, Elsewhere
<1>15. Confirms(s, r2)
  BY <1>1, <1>3 DEF CatalogInv, CallsInv, Loaded, Confirms
<1>16. Moves(s, r2, q, at[s])
  BY <1>1, <1>2, <1>6, StoreFacts DEF Moves
<1> QED  BY <1>13, <1>14, <1>15, <1>16, OneStoreMoves

LEMMA CatalogRun ==
  ASSUME CatalogInv, NEW s \in Stores, Run(s)
  PROVE  CatalogInv'
<1> DEFINE r == store[s]
           q == queue[s]
<1>0. StoreInv(s, r, q, at[s], lock, file, stable) /\ q \in Seq(Jobs) /\ r \in StoreStates
  BY StoreFacts
<1>1. /\ at[s] = "idle" /\ Len(q) > 0 /\ Head(q) = q[1] /\ q[1] \in Jobs
      /\ UNCHANGED <<queue, calls, lock, file, stable, shown, syncs, exposed>>
      /\ Control(r, q, at[s]) /\ Ordered(r, q, at[s], file) /\ OnDisk(r, at[s], file, stable)
  BY <1>0, Queues DEF Run, StoreInv
<1>2. PICK r2 \in StoreStates, a \in {"release", "acquire", "rename"} :
        /\ store' = [store EXCEPT ![s] = r2] /\ at' = [at EXCEPT ![s] = a]
        /\ r2.closing = r.closing /\ r2.current = r.current
        /\ r2.durable = r.durable /\ r2.holds = r.holds
        /\ \/ q[1].kind = "close" /\ r2.phase = "closing" /\ a = "release"
           \/ q[1].kind = "init" /\ r2.phase = "initializing" /\ a = "acquire"
           \/ q[1].kind = "persist" /\ r2.phase = r.phase /\ a = "rename"
  <2>1. ASSUME NEW p \in {"closing", "initializing"}
        PROVE  \E r2 \in StoreStates :
                 /\ r2 = [r EXCEPT !.phase = p] /\ r2.phase = p
                 /\ r2.closing = r.closing /\ r2.current = r.current
                 /\ r2.durable = r.durable /\ r2.holds = r.holds
    <3>1. PICK r2 : r2 = [r EXCEPT !.phase = p]
      OBVIOUS
    <3>2. /\ r2 \in StoreStates /\ r2.phase = p
          /\ r2.closing = r.closing /\ r2.current = r.current
          /\ r2.durable = r.durable /\ r2.holds = r.holds
      BY <1>0, <2>1, <3>1 DEF StoreStates
    <3> QED  BY <3>1, <3>2
  <2>2. CASE q[1].kind = "close" /\ store' = [store EXCEPT ![s].phase = "closing"]
             /\ at' = [at EXCEPT ![s] = "release"]
    <3>1. PICK r2 \in StoreStates :
            /\ r2 = [r EXCEPT !.phase = "closing"] /\ r2.phase = "closing"
            /\ r2.closing = r.closing /\ r2.current = r.current
            /\ r2.durable = r.durable /\ r2.holds = r.holds
      BY <2>1
    <3>2. store' = [store EXCEPT ![s] = r2]
      BY <2>2, <3>1
    <3> QED  BY <2>2, <3>1, <3>2
  <2>3. CASE q[1].kind = "init" /\ store' = [store EXCEPT ![s].phase = "initializing"]
             /\ at' = [at EXCEPT ![s] = "acquire"]
    <3>1. PICK r2 \in StoreStates :
            /\ r2 = [r EXCEPT !.phase = "initializing"] /\ r2.phase = "initializing"
            /\ r2.closing = r.closing /\ r2.current = r.current
            /\ r2.durable = r.durable /\ r2.holds = r.holds
      BY <2>1
    <3>2. store' = [store EXCEPT ![s] = r2]
      BY <2>3, <3>1
    <3> QED  BY <2>3, <3>1, <3>2
  <2>4. CASE q[1].kind = "persist" /\ store' = store /\ at' = [at EXCEPT ![s] = "rename"]
    <3>1. store' = [store EXCEPT ![s] = r]
      BY <2>4, StoreFacts
    <3> QED  BY <1>0, <2>4, <3>1
  <2> QED  BY <1>1, <2>2, <2>3, <2>4 DEF Run
<1>3. r2.phase = "initializing" => ~r.holds
  BY <1>1, <1>2 DEF Control
<1>4. Control(r2, q, a)
  BY <1>1, <1>2, <1>3 DEF Control
<1>5. Ordered(r2, q, a, file) /\ OnDisk(r2, a, file, stable)
  BY <1>1, <1>2, <1>3 DEF Ordered, OnDisk, Loaded, Control
<1>6. StoreInv(s, r2, q, a, lock', file', stable')
  BY <1>0, <1>1, <1>2, <1>4, <1>5 DEF StoreInv
<1>7. Loaded(r) => Loaded(r2)
  BY <1>1, <1>2, <1>3 DEF Loaded
<1>8. ShownInv' /\ Elsewhere(s)
  BY <1>1 DEF CatalogInv, ShownInv, Covers, Elsewhere
<1>9. Confirms(s, r2)
  BY <1>1, <1>7 DEF CatalogInv, CallsInv, Confirms
<1>10. Moves(s, r2, q, a)
  BY <1>1, <1>2, StoreFacts DEF Moves
<1> QED  BY <1>6, <1>8, <1>9, <1>10, OneStoreMoves

\* While no confirmation goes on, the calls say nothing about the stores.
LEMMA ResumedCalls ==
  ASSUME CatalogInv, Resumed, calls' \subseteq calls, NEW s \in Stores, NEW r
  PROVE  Confirms(s, r)
  BY DEF CatalogInv, CallsInv, Resumed, Confirms

\* Synchronising the directory leaves the confirmed tokens covered.
LEMMA SyncCovers ==
  ASSUME CatalogInv, stable' = ConfirmDirectorySync(file),
         UNCHANGED <<file, shown, syncs, exposed>>
  PROVE  /\ ShownInv'
         /\ syncs => stable' = {file}
<1>1. CASE syncs
  BY <1>1 DEF ConfirmDirectorySync, CatalogInv, ShownInv, DiskInv, Covers
<1>2. CASE ~syncs
  BY <1>2 DEF ConfirmDirectorySync, CatalogInv, ShownInv, DiskInv, Covers
<1> QED  BY <1>1, <1>2

LEMMA CatalogAcquire ==
  ASSUME CatalogAssumption, CatalogInv, NEW s \in Stores, AcquireAuthority(s)
  PROVE  CatalogInv'
<1> DEFINE r == store[s]
           q == queue[s]
<1> USE StoreFacts
<1>1. /\ at[s] = "acquire" /\ stable' = ConfirmDirectorySync(file)
      /\ Resumed /\ UNCHANGED <<calls, file, shown, syncs, exposed>>
      /\ StoreInv(s, r, q, at[s], lock, file, stable)
      /\ Control(r, q, at[s]) /\ Ordered(r, q, at[s], file)
  BY DEF AcquireAuthority, StoreInv
<1>2. /\ ShownInv'
      /\ syncs => stable' = {file}
  BY <1>1, SyncCovers
<1>3. CASE lock = NoStore
  <2>1. /\ lock' = s /\ store' = [store EXCEPT ![s].holds = TRUE]
        /\ at' = [at EXCEPT ![s] = "load"] /\ queue' = queue
    BY <1>3 DEF AcquireAuthority
  <2>2. \A j \in Stores : ~store[j].holds
    BY <1>3 DEF CatalogAssumption
  <2>3. PICK r2 : r2 = [r EXCEPT !.holds = TRUE]
    OBVIOUS
  <2>4. /\ r2 \in StoreStates /\ r2.holds
        /\ r2.phase = r.phase /\ r2.closing = r.closing
    BY <2>3 DEF StoreStates
  <2>5. Moves(s, r2, q, "load") /\ Elsewhere(s)
    BY <1>1, <2>1, <2>2, <2>3 DEF Moves, Elsewhere
  <2>6. r.phase = "initializing" /\ Len(q) > 0 /\ q[1].kind = "init"
    BY <1>1 DEF Control
  <2>7. Control(r2, q, "load")
    BY <1>1, <2>4, <2>6 DEF Control
  <2>8. Ordered(r2, q, "load", file) /\ OnDisk(r2, "load", file, stable')
    BY <1>2, <2>4, <2>6 DEF Ordered, OnDisk, Loaded
  <2>9. StoreInv(s, r2, q, "load", lock', file', stable')
    BY <1>1, <2>1, <2>4, <2>7, <2>8 DEF StoreInv
  <2>10. Confirms(s, r2)
    BY <1>1, ResumedCalls
  <2> QED  BY <1>2, <2>5, <2>9, <2>10, OneStoreMoves
<1>4. CASE lock # NoStore
  <2>1. /\ lock' = lock /\ store' = [store EXCEPT ![s].phase = "failed"]
        /\ queue' = [queue EXCEPT ![s] = Tail(@)] /\ at' = [at EXCEPT ![s] = "idle"]
    BY <1>4 DEF AcquireAuthority, Settle
  <2>2. PICK r2 : r2 = [r EXCEPT !.phase = "failed"]
    OBVIOUS
  <2>3. r2 \in StoreStates /\ ~r2.holds /\ r2.phase = "failed" /\ r2.closing = r.closing
    BY <1>1, <2>2 DEF StoreStates, Control
  <2>4. q[1].kind = "init"
    BY <1>1 DEF Control
  <2>5. Control(r2, Tail(q), "idle") /\ Tail(q) \in Seq(Jobs)
    BY <1>1, <2>3, <2>4, QueueSettles
  <2>6. StoreInv(s, r2, Tail(q), "idle", lock', file', stable')
    BY <2>3, <2>5 DEF StoreInv, Ordered, OnDisk, Loaded
  <2>7. Moves(s, r2, Tail(q), "idle") /\ Elsewhere(s)
    BY <1>1, <1>2, <2>1, <2>2 DEF Moves, Elsewhere
  <2>8. Confirms(s, r2)
    BY <1>1, ResumedCalls
  <2> QED  BY <1>2, <2>6, <2>7, <2>8, OneStoreMoves
<1> QED  BY <1>3, <1>4

LEMMA CatalogLoad ==
  ASSUME CatalogInv, NEW s \in Stores, Load(s)
  PROVE  CatalogInv'
<1> DEFINE r == store[s]
           q == queue[s]
<1> USE StoreFacts
<1>1. /\ at[s] = "load" /\ Resumed
      /\ UNCHANGED <<calls, lock, file, stable, shown, syncs, exposed>>
      /\ store' = [store EXCEPT ![s].phase = "ready", ![s].current = file, ![s].durable = file]
      /\ queue' = [queue EXCEPT ![s] = Tail(@)] /\ at' = [at EXCEPT ![s] = "idle"]
      /\ StoreInv(s, r, q, at[s], lock, file, stable)
      /\ Control(r, q, at[s]) /\ OnDisk(r, at[s], file, stable)
  BY DEF Load, Settle, StoreInv
<1>2. r.holds /\ q[1].kind = "init" /\ r.phase = "initializing"
  BY <1>1 DEF Control
<1>3. PICK r2 : r2 = [phase |-> "ready", closing |-> r.closing, current |-> file,
                      durable |-> file, holds |-> r.holds]
  OBVIOUS
<1>4. r2 \in StoreStates
  BY <1>3 DEF StoreStates
<1>5. /\ r2.phase = "ready" /\ r2.closing = r.closing /\ r2.holds
      /\ r2.current = file /\ r2.durable = file
  BY <1>2, <1>3
<1>6. store' = [store EXCEPT ![s] = r2]
  <2>1. r = [phase |-> r.phase, closing |-> r.closing, current |-> r.current,
             durable |-> r.durable, holds |-> r.holds]
    BY DEF StoreStates
  <2>2. [[[r EXCEPT !.phase = "ready"] EXCEPT !.current = file] EXCEPT !.durable = file] = r2
    <3>1. PICK r0 : r0 = [r EXCEPT !.phase = "ready"]
      OBVIOUS
    <3>2. r0 = [phase |-> "ready", closing |-> r.closing, current |-> r.current,
                durable |-> r.durable, holds |-> r.holds]
      BY <2>1, <3>1
    <3>3. PICK r1 : r1 = [r0 EXCEPT !.current = file]
      OBVIOUS
    <3>4. r1 = [phase |-> "ready", closing |-> r.closing, current |-> file,
                durable |-> r.durable, holds |-> r.holds]
      BY <3>2, <3>3
    <3>5. [r1 EXCEPT !.durable = file] = r2
      BY <1>3, <3>4
    <3> QED  BY <3>1, <3>3, <3>5
  <2>3. store' = [store EXCEPT ![s] =
                    [[[r EXCEPT !.phase = "ready"] EXCEPT !.current = file] EXCEPT !.durable = file]]
    BY <1>1
  <2> QED  BY <2>2, <2>3
<1>7. Control(r2, Tail(q), "idle") /\ Tail(q) \in Seq(Jobs)
  BY <1>1, <1>2, <1>4, <1>5, QueueSettles
<1>8. \A i \in 1 .. Len(Tail(q)) : Tail(q)[i].kind # "persist"
  <2>1. \A i \in 1 .. Len(q) : q[i].kind # "persist"
    BY <1>1, <1>2 DEF Control
  <2>2. q \in Seq(Jobs) /\ Len(q) > 0
    BY <1>1 DEF StoreInv, Control
  <2>3. \A i \in 1 .. Len(Tail(q)) : Tail(q)[i] = q[i + 1] /\ i + 1 \in 1 .. Len(q)
    BY <2>2, Queues
  <2> QED  BY <2>1, <2>3
<1>9. Ordered(r2, Tail(q), "idle", file)
  BY <1>5, <1>8 DEF Ordered, Le
<1>10. OnDisk(r2, "idle", file, stable)
  <2>1. syncs => stable = {file}
    BY <1>1 DEF OnDisk
  <2> QED  BY <2>1 DEF OnDisk
<1>11. StoreInv(s, r2, Tail(q), "idle", lock', file', stable')
  <2>1. lock' = lock /\ file' = file /\ stable' = stable /\ lock = s
    BY <1>1, <1>2 DEF StoreInv
  <2> QED  BY <1>4, <1>7, <1>9, <1>10, <2>1 DEF StoreInv
<1>12. ShownInv' /\ Elsewhere(s)
  BY <1>1 DEF CatalogInv, ShownInv, Covers, Elsewhere
<1>13. Confirms(s, r2)
  BY <1>1, ResumedCalls
<1>14. Moves(s, r2, Tail(q), "idle")
  BY <1>1, <1>6 DEF Moves
<1> QED  BY <1>11, <1>12, <1>13, <1>14, OneStoreMoves

LEMMA CatalogInitializationFails ==
  ASSUME CatalogInv, NEW s \in Stores, InitializationFails(s)
  PROVE  CatalogInv'
<1> DEFINE r == store[s]
           q == queue[s]
<1> USE StoreFacts
<1>1. /\ at[s] \in {"acquire", "load"} /\ Resumed
      /\ UNCHANGED <<calls, file, stable, shown, syncs, exposed>>
      /\ lock' = IF r.holds THEN NoStore ELSE lock
      /\ store' = [store EXCEPT ![s].phase = "failed", ![s].holds = FALSE]
      /\ queue' = [queue EXCEPT ![s] = Tail(@)] /\ at' = [at EXCEPT ![s] = "idle"]
      /\ StoreInv(s, r, q, at[s], lock, file, stable) /\ Control(r, q, at[s])
  BY DEF InitializationFails, Settle, StoreInv
<1>2. PICK r1 : r1 = [r EXCEPT !.phase = "failed"]
  OBVIOUS
<1>3. r1 \in StoreStates /\ r1.phase = "failed" /\ r1.closing = r.closing
  BY <1>2 DEF StoreStates
<1>4. PICK r2 : r2 = [r1 EXCEPT !.holds = FALSE]
  OBVIOUS
<1>5. r2 \in StoreStates /\ ~r2.holds /\ r2.phase = "failed" /\ r2.closing = r.closing
  BY <1>3, <1>4 DEF StoreStates
<1>6. Control(r2, Tail(q), "idle") /\ Tail(q) \in Seq(Jobs)
  <2>1. q[1].kind = "init"
    BY <1>1 DEF Control
  <2> QED  BY <1>1, <1>5, <2>1, QueueSettles
<1>7. StoreInv(s, r2, Tail(q), "idle", lock', file', stable')
  BY <1>5, <1>6 DEF StoreInv, Ordered, OnDisk, Loaded
<1>8. Moves(s, r2, Tail(q), "idle")
  BY <1>1, <1>2, <1>4 DEF Moves
<1>9. Elsewhere(s)
  BY <1>1 DEF Elsewhere
<1>10. ShownInv'
  BY <1>1 DEF CatalogInv, ShownInv, Covers
<1>11. Confirms(s, r2)
  BY <1>1, ResumedCalls
<1> QED  BY <1>7, <1>8, <1>9, <1>10, <1>11, OneStoreMoves

\* A store that writes holds the marker; its token is the first that waits.
LEMMA WriterFacts ==
  ASSUME CatalogInv, NEW s \in Stores, at[s] \in {"rename", "sync"}
  PROVE  /\ queue[s] \in Seq(Jobs) /\ Len(queue[s]) > 0 /\ Head(queue[s]) = queue[s][1]
         /\ queue[s][1] \in Jobs /\ queue[s][1].token \in Named /\ queue[s][1].token.gen \in Nat
         /\ queue[s][1].kind = "persist"
         /\ store[s].phase \in {"ready", "blocked"} /\ store[s].holds /\ Loaded(store[s])
         /\ Control(store[s], queue[s], at[s]) /\ Ordered(store[s], queue[s], at[s], file)
         /\ Le(file, queue[s][1].token)
         /\ store[s].durable.gen < queue[s][1].token.gen
         /\ store[s].durable # store[s].current
         /\ Le(queue[s][1].token, store[s].current)
         /\ \A j \in Stores \ {s} : ~store[j].holds
<1> USE StoreFacts
<1>1. /\ Control(store[s], queue[s], at[s]) /\ Ordered(store[s], queue[s], at[s], file)
      /\ Len(queue[s]) > 0 /\ queue[s][1].kind = "persist"
  BY DEF StoreInv, Control
<1>2. Head(queue[s]) = queue[s][1] /\ queue[s][1] \in Jobs
  BY <1>1, Queues
<1>3. queue[s][1].token \in Named /\ queue[s][1].token.gen \in Nat
  BY <1>2 DEF Jobs, Named
<1>4. 1 \in 1 .. Len(queue[s])
  BY <1>1
<1>5. store[s].phase \in {"ready", "blocked"} /\ store[s].holds /\ Loaded(store[s])
  BY <1>1, <1>4 DEF Control, Loaded
<1>6. /\ Le(file, queue[s][1].token) /\ Le(queue[s][1].token, store[s].current)
      /\ store[s].durable.gen < queue[s][1].token.gen
  BY <1>1, <1>4, <1>5 DEF Ordered
<1>7. store[s].durable # store[s].current
  BY <1>3, <1>6 DEF Le
<1> QED  BY <1>1, <1>2, <1>3, <1>5, <1>6, <1>7

LEMMA CatalogRename ==
  ASSUME CatalogInv, NEW s \in Stores, Rename(s)
  PROVE  CatalogInv'
<1> DEFINE r == store[s]
           q == queue[s]
           t == queue[s][1].token
<1> USE StoreFacts
<1>0. at[s] = "rename" /\ Resumed
  BY DEF Rename
<1> USE <1>0, WriterFacts
<1>1. /\ file' = t /\ stable' = stable \cup {t} /\ at' = [at EXCEPT ![s] = "sync"]
      /\ UNCHANGED <<store, queue, calls, lock, shown, syncs, exposed>>
  BY DEF Rename
<1>2. Moves(s, r, q, "sync") /\ Elsewhere(s)
  BY <1>1 DEF Moves, Elsewhere
<1>3. Control(r, q, "sync")
  BY DEF Control
<1>4. Ordered(r, q, "sync", t)
  <2>1. Le(r.durable, t) /\ Le(t, r.current)
    BY DEF Le
  <2>2. ASSUME NEW i \in 1 .. Len(q), q[i].kind = "persist"
        PROVE  Le(t, q[i].token)
    <3>1. 1 \in 1 .. Len(q) /\ (i = 1 \/ 1 < i)
      BY Queues
    <3>2. 1 < i => t.gen < q[i].token.gen
      BY <2>2, <3>1 DEF Ordered
    <3> QED  BY <3>1, <3>2 DEF Le
  <2> QED  BY <2>1, <2>2 DEF Ordered
<1>5. StoreInv(s, r, q, "sync", lock', file', stable')
  BY <1>1, <1>3, <1>4 DEF StoreInv, OnDisk
<1>6. \A x \in Named : Covers(shown, x) /\ Le(x, t) => Covers(shown, t)
  <2>1. shown \in Seq(Named)
    BY DEF CatalogInv, ShownInv
  <2>2. \A i \in 1 .. Len(shown) : shown[i] \in Named
    BY <2>1
  <2>3. ASSUME NEW x \in Named, NEW y \in Named, Le(y, x), Le(x, t), t \in Named
        PROVE  Le(y, t)
    BY <2>3 DEF Le, Named
  <2>4. t \in Named
    OBVIOUS
  <2> QED  BY <2>2, <2>3, <2>4 DEF Covers
<1>7. ShownInv'
  <2>1. ~exposed => Covers(shown, t)
    BY <1>6 DEF CatalogInv, ShownInv
  <2>2. syncs => \A x \in stable' : Covers(shown, x)
    BY <1>1, <2>1 DEF CatalogInv, ShownInv
  <2> QED  BY <1>1, <2>1, <2>2 DEF CatalogInv, ShownInv, Covers
<1>8. Confirms(s, r)
  BY <1>1, ResumedCalls
<1> HIDE WriterFacts
<1> QED  BY <1>2, <1>5, <1>7, <1>8, OneStoreMoves

\* What waits behind a write, once it has left the queue.
LEMMA WaitersBehind ==
  ASSUME CatalogInv, NEW s \in Stores, at[s] \in {"rename", "sync"},
         NEW i \in 1 .. Len(Tail(queue[s])), Tail(queue[s])[i].kind = "persist"
  PROVE  /\ Le(file, Tail(queue[s])[i].token)
         /\ Le(Tail(queue[s])[i].token, store[s].current)
         /\ queue[s][1].token.gen < Tail(queue[s])[i].token.gen
         /\ store[s].durable.gen < Tail(queue[s])[i].token.gen
         /\ \A j \in 1 .. Len(Tail(queue[s])) :
              Tail(queue[s])[j].kind = "persist" /\ i < j =>
                Tail(queue[s])[i].token.gen < Tail(queue[s])[j].token.gen
<1> DEFINE q == queue[s]
<1> USE WriterFacts
<1>1. /\ Len(Tail(q)) = Len(q) - 1 /\ Len(q) \in Nat
      /\ \A k \in 1 .. (Len(q) - 1) : Tail(q)[k] = q[k + 1]
  BY Queues
<1>2. i + 1 \in 1 .. Len(q) /\ 1 \in 1 .. Len(q) /\ 1 < i + 1 /\ Tail(q)[i] = q[i + 1]
  BY <1>1
<1>3. ASSUME NEW j \in 1 .. Len(Tail(q)), Tail(q)[j].kind = "persist", i < j
      PROVE  Tail(q)[i].token.gen < Tail(q)[j].token.gen
  <2>1. j + 1 \in 1 .. Len(q) /\ i + 1 < j + 1 /\ Tail(q)[j] = q[j + 1]
    BY <1>1, <1>2, <1>3
  <2> QED  BY <1>2, <1>3, <2>1 DEF Ordered
<1> QED  BY <1>2, <1>3 DEF Ordered

LEMMA CatalogPersisted ==
  ASSUME CatalogInv, NEW s \in Stores, Persisted(s)
  PROVE  CatalogInv'
<1> DEFINE r == store[s]
           q == queue[s]
           t == queue[s][1].token
           p == IF store[s].current = t THEN "ready" ELSE store[s].phase
<1> USE StoreFacts
<1>0. at[s] = "sync" /\ Resumed
  BY DEF Persisted
<1> USE <1>0, WriterFacts
<1>1. /\ stable' = ConfirmDirectorySync(file)
      /\ store' = [store EXCEPT ![s].durable = t, ![s].phase = p]
      /\ calls' = IF Waiting(s, t) \in calls
                  THEN (calls \ {Waiting(s, t)}) \cup {Checking(s, t)}
                  ELSE calls
      /\ queue' = [queue EXCEPT ![s] = Tail(@)] /\ at' = [at EXCEPT ![s] = "idle"]
      /\ UNCHANGED <<lock, file, shown, syncs, exposed>>
  BY DEF Persisted, Settle
<1>2. /\ ShownInv'
      /\ syncs => stable' = {file}
  BY <1>1, SyncCovers
<1>3. PICK r1 : r1 = [r EXCEPT !.durable = t]
  OBVIOUS
<1>4. /\ r1 \in StoreStates /\ r1.durable = t /\ r1.phase = r.phase
      /\ r1.current = r.current /\ r1.holds = r.holds /\ r1.closing = r.closing
  BY <1>3 DEF StoreStates
<1>5. PICK r2 : r2 = [r1 EXCEPT !.phase = p]
  OBVIOUS
<1>6. /\ r2 \in StoreStates /\ r2.phase \in {"ready", "blocked"} /\ r2.durable = t
      /\ r2.current = r.current /\ r2.holds /\ r2.closing = r.closing
  BY <1>4, <1>5 DEF StoreStates
<1>7. Moves(s, r2, Tail(q), "idle") /\ Elsewhere(s)
  BY <1>1, <1>3, <1>5 DEF Moves, Elsewhere
<1>8. file = t
  BY DEF Ordered
<1>9. Control(r2, Tail(q), "idle") /\ Tail(q) \in Seq(Jobs)
  BY <1>6, QueueSettles
<1>10. Ordered(r2, Tail(q), "idle", file)
  BY <1>6, <1>8, WaitersBehind DEF Ordered, Le
<1>11. StoreInv(s, r2, Tail(q), "idle", lock', file', stable')
  BY <1>1, <1>2, <1>6, <1>9, <1>10 DEF StoreInv, OnDisk
<1>12. Loaded(r2)
  BY <1>6 DEF Loaded
<1>13. Confirms(s, r2)
  <2>1. \A c \in calls' : c \in calls \/ c.store = s
    BY <1>1 DEF Checking
  <2>2. CallsInv
    BY DEF CatalogInv
  <2> QED  BY <1>12, <2>1, <2>2 DEF CallsInv, Resumed, Confirms
<1> QED  BY <1>2, <1>7, <1>11, <1>13, OneStoreMoves

LEMMA CatalogPersistFails ==
  ASSUME CatalogInv, NEW s \in Stores, PersistFails(s)
  PROVE  CatalogInv'
<1> DEFINE r == store[s]
           q == queue[s]
           t == queue[s][1].token
           p == IF store[s].current = t THEN "blocked" ELSE store[s].phase
<1> USE StoreFacts
<1>0. at[s] \in {"rename", "sync"} /\ Resumed
  BY DEF PersistFails
<1> USE <1>0, WriterFacts
<1>1. /\ store' = [store EXCEPT ![s].phase = p]
      /\ calls' = calls \ {Waiting(s, t)}
      /\ queue' = [queue EXCEPT ![s] = Tail(@)] /\ at' = [at EXCEPT ![s] = "idle"]
      /\ UNCHANGED <<lock, file, stable, shown, syncs, exposed>>
  BY DEF PersistFails, Settle
<1>2. PICK r2 : r2 = [r EXCEPT !.phase = p]
  OBVIOUS
<1>3. /\ r2 \in StoreStates /\ r2.phase \in {"ready", "blocked"} /\ r2.durable = r.durable
      /\ r2.current = r.current /\ r2.holds /\ r2.closing = r.closing
  <2>1. p \in {"ready", "blocked"} /\ r \in StoreStates /\ r.holds
    OBVIOUS
  <2> QED  BY <1>2, <2>1 DEF StoreStates
<1>4. Moves(s, r2, Tail(q), "idle") /\ Elsewhere(s)
  BY <1>1, <1>2 DEF Moves, Elsewhere
<1>5. Control(r2, Tail(q), "idle") /\ Tail(q) \in Seq(Jobs)
  BY <1>3, QueueSettles
<1>6. Ordered(r2, Tail(q), "idle", file)
  BY <1>3, WaitersBehind DEF Ordered
<1>7. StoreInv(s, r2, Tail(q), "idle", lock', file', stable')
  BY <1>1, <1>3, <1>5, <1>6 DEF StoreInv, OnDisk
<1>8. ShownInv'
  BY <1>1 DEF CatalogInv, ShownInv, Covers
<1>9. Confirms(s, r2)
  BY <1>1, ResumedCalls
<1> QED  BY <1>4, <1>7, <1>8, <1>9, OneStoreMoves

\* A store that gave up the marker, closed or failed.
LEMMA CatalogReleases ==
  ASSUME CatalogInv, NEW s \in Stores,
         ReleaseAuthority(s) \/ ReleaseFails(s)
  PROVE  CatalogInv'
<1> DEFINE r == store[s]
           q == queue[s]
<1> USE StoreFacts
<1>1. PICK p \in {"failed", "closed"} :
        store' = [store EXCEPT ![s].holds = FALSE, ![s].phase = p]
  <2>1. CASE ReleaseAuthority(s)
    BY <2>1 DEF ReleaseAuthority
  <2>2. CASE ReleaseFails(s)
    <3>1. store' = [store EXCEPT ![s].phase = "failed", ![s].holds = FALSE]
      BY <2>2 DEF ReleaseFails
    <3>2. r = [phase |-> r.phase, closing |-> r.closing, current |-> r.current,
               durable |-> r.durable, holds |-> r.holds]
      BY DEF StoreStates
    <3>3. store' = [store EXCEPT ![s].holds = FALSE, ![s].phase = "failed"]
      BY <3>1, <3>2
    <3> QED  BY <3>3
  <2> QED  BY <2>1, <2>2
<1>2. /\ at[s] = "release" /\ Resumed
      /\ queue' = [queue EXCEPT ![s] = Tail(@)] /\ at' = [at EXCEPT ![s] = "idle"]
      /\ UNCHANGED <<calls, file, stable, shown, syncs, exposed>>
      /\ lock' = lock \/ (r.holds /\ lock' = NoStore)
      /\ StoreInv(s, r, q, at[s], lock, file, stable) /\ Control(r, q, at[s])
  BY DEF ReleaseAuthority, ReleaseFails, Settle, StoreInv
<1>3. PICK r1 : r1 = [r EXCEPT !.holds = FALSE]
  OBVIOUS
<1>4. r1 \in StoreStates /\ ~r1.holds /\ r1.closing = r.closing
  BY <1>3 DEF StoreStates
<1>5. PICK r2 : r2 = [r1 EXCEPT !.phase = p]
  OBVIOUS
<1>6. r2 \in StoreStates /\ ~r2.holds /\ r2.phase = p /\ r2.closing = r.closing
  BY <1>4, <1>5 DEF StoreStates
<1>7. Moves(s, r2, Tail(q), "idle")
  BY <1>1, <1>2, <1>3, <1>5 DEF Moves
<1>8. Control(r2, Tail(q), "idle") /\ Tail(q) \in Seq(Jobs)
  <2>1. q[1].kind = "close"
    BY <1>2 DEF Control
  <2> QED  BY <1>2, <1>6, <2>1, QueueSettles
<1>9. StoreInv(s, r2, Tail(q), "idle", lock', file', stable')
  BY <1>6, <1>8 DEF StoreInv, Ordered, OnDisk, Loaded
<1>10. Elsewhere(s)
  BY <1>2 DEF Elsewhere
<1>11. ShownInv'
  BY <1>2 DEF CatalogInv, ShownInv, Covers
<1>12. Confirms(s, r2)
  BY <1>2, ResumedCalls
<1> QED  BY <1>7, <1>9, <1>10, <1>11, <1>12, OneStoreMoves

\* All stores of the process end; what the disk shows is one of its tokens.
LEMMA CatalogDies ==
  ASSUME CatalogInv, Crash \/ PowerLoss
  PROVE  CatalogInv'
<1>1. /\ store' = [s \in Stores |->
                     IF store[s].phase = "new" /\ queue[s] = <<>> THEN store[s]
                     ELSE [Fresh EXCEPT !.phase = "dead"]]
      /\ queue' = [s \in Stores |-> <<>>] /\ at' = [s \in Stores |-> "idle"] /\ calls' = {}
      /\ UNCHANGED <<shown, syncs>>
  BY DEF Crash, PowerLoss, Die
<1>2. /\ [Fresh EXCEPT !.phase = "dead"] \in StoreStates
      /\ [Fresh EXCEPT !.phase = "dead"].phase = "dead"
      /\ ~[Fresh EXCEPT !.phase = "dead"].holds
  <2>1. NoToken \in Named
    BY DEF NoToken, Named
  <2> QED  BY <2>1 DEF Fresh, StoreStates
<1>3. ASSUME NEW s \in Stores
      PROVE  StoreInv(s, store[s], queue[s], at[s], lock, file, stable)'
  <2>1. queue'[s] \in Seq(Jobs) /\ Len(queue'[s]) = 0 /\ at'[s] = "idle"
    BY <1>1
  <2>2. store'[s] \in StoreStates /\ ~store'[s].holds /\ store'[s].phase \in {"new", "dead"}
    BY <1>1, <1>2, StoreFacts DEF StoreInv, Control
  <2> QED  BY <2>1, <2>2 DEF StoreInv, Control, Ordered, OnDisk, Loaded
<1>4. DiskInv'
  BY <1>1 DEF DiskInv
<1>5. ShownInv'
  <2>1. CASE Crash
    BY <1>1, <2>1 DEF Crash, CatalogInv, ShownInv, Covers
  <2>2. CASE PowerLoss
    <3>1. PICK x \in stable : file' = x /\ stable' = {x} /\ exposed' = (exposed \/ ~syncs)
      BY <2>2 DEF PowerLoss
    <3>2. syncs => ~exposed /\ Covers(shown, x)
      BY <3>1 DEF CatalogInv, ShownInv
    <3> QED  BY <1>1, <3>1, <3>2 DEF CatalogInv, ShownInv, Covers
  <2> QED  BY <2>1, <2>2
<1>6. CallsInv'
  BY <1>1 DEF CallsInv
<1> QED  BY <1>3, <1>4, <1>5, <1>6 DEF CatalogInv

LEMMA CatalogOperatorClears ==
  ASSUME CatalogInv, OperatorClears
  PROVE  CatalogInv'
<1>1. /\ ~store[lock].holds
      /\ UNCHANGED <<store, queue, at, calls, file, stable, shown, syncs, exposed>>
  BY DEF OperatorClears
<1>2. \A s \in Stores : ~store[s].holds
  BY <1>1, StoreFacts
<1>3. ASSUME NEW s \in Stores
      PROVE  StoreInv(s, store[s], queue[s], at[s], lock, file, stable)'
  BY <1>1, <1>2, <1>3, StoreFacts DEF StoreInv, OnDisk
<1> QED  BY <1>1, <1>3 DEF CatalogInv, DiskInv, ShownInv, CallsInv, Covers

LEMMA CatalogSteps ==
  ASSUME CatalogAssumption, CatalogInv, [Next]_vars
  PROVE  CatalogInv'
<1>1. ASSUME NEW s \in Stores, StoreStep(s)
      PROVE  CatalogInv'
  BY <1>1, CatalogRun, CatalogAcquire, CatalogLoad, CatalogRename, CatalogPersisted,
     CatalogReleases DEF StoreStep
<1>2. ASSUME NEW s \in Stores,
             \/ Open(s) \/ Close(s) \/ Confirm(s)
             \/ InitializationFails(s) \/ PersistFails(s)
             \/ ReleaseFails(s) \/ \E h \in Catalogs : Observe(s, h)
      PROVE  CatalogInv'
  BY <1>2, CatalogOpen, CatalogClose, CatalogConfirm, CatalogInitializationFails,
     CatalogPersistFails, CatalogReleases, CatalogObserve
<1>3. CASE \E c \in calls : Confirmed(c)
  BY <1>3, CatalogConfirmed
<1>4. CASE Crash \/ PowerLoss \/ OperatorClears
  BY <1>4, CatalogDies, CatalogOperatorClears
<1>5. CASE UNCHANGED vars
  BY <1>5 DEF vars, CatalogInv, StoreInv, DiskInv, ShownInv, CallsInv, Covers, OnDisk
<1> QED  BY <1>1, <1>2, <1>3, <1>4, <1>5 DEF Next

\* What the property says follows from the order of the tokens.
LEMMA CatalogNames == CatalogInv => GenerationsNameOneCatalog
<1> SUFFICES ASSUME CatalogInv PROVE GenerationsNameOneCatalog
  OBVIOUS
<1>1. DOMAIN shown = 1 .. Len(shown)
  BY DEF CatalogInv, ShownInv
<1>2. ~exposed => \A i, j \in DOMAIN shown : i < j => shown[i].gen < shown[j].gen
  BY <1>1 DEF CatalogInv, ShownInv
<1>3. ASSUME NEW s \in Stores, NEW t \in Tokens, IsCurrent(s, t)
      PROVE  file = t /\ (syncs => stable = {t})
  <2>1. /\ store[s].phase = "ready" /\ store[s].current = t /\ store[s].durable = t
    BY <1>3 DEF IsCurrent
  <2>2. /\ Loaded(store[s]) /\ Ordered(store[s], queue[s], at[s], file)
        /\ OnDisk(store[s], at[s], file, stable)
    BY <2>1, StoreFacts DEF StoreInv, Control, Loaded
  <2>3. file = t
    BY <2>1, <2>2, StoreFacts DEF Ordered, Le
  <2> QED  BY <2>1, <2>2, <2>3 DEF OnDisk
<1> QED  BY <1>2, <1>3 DEF GenerationsNameOneCatalog

(* ADR-0025: confirmed generations only grow and each names one catalog,   *)
(* over sessions, failed writes, crashes and power losses, and a token a   *)
(* store answers for is the one its file has.                              *)
THEOREM OlderCatalogsStayOld == Spec => []GenerationsNameOneCatalog
<1>1. Init => CatalogInv
  BY CatalogAssumption, CatalogStarts
<1>2. CatalogInv /\ [Next]_vars => CatalogInv'
  BY CatalogAssumption, CatalogSteps
<1>3. CatalogInv => GenerationsNameOneCatalog
  BY CatalogNames
<1> QED  BY <1>1, <1>2, <1>3, PTL DEF Spec

(***************************************************************************)
(* The feedback sequences.                                                 *)
(***************************************************************************)
FeedStores ==
  [phase : {"new", "initializing", "ready", "failed", "closing", "closed", "dead"},
   closing : BOOLEAN,
   durability : {"none", "power_loss_resilient", "process_restart_resilient"},
   records : [Keys -> Nat], holds : BOOLEAN]
FeedCalls ==
  [stage : {"new", "authenticating", "queued", "refused", "signing", "issued"},
   proc : Procs \cup {NoProc}, key : Keys \cup {Sequence!NoCall.key}, count : Nat, rev : Nat,
   first : Nat]
FeedJobs == {"init", "close"} \cup Calls
FeedPlaces == {"idle", "prepare", "acquire", "load", "reserve", "rename", "sync", "release"}

FeedTypes ==
  /\ fStore \in [Procs -> FeedStores] /\ fQueue \in [Procs -> Seq(FeedJobs)]
  /\ fAt \in [Procs -> FeedPlaces] /\ fCall \in [Calls -> FeedCalls]
  /\ fLock \in Procs \cup {NoProc}
  /\ fFile \in [Keys -> Nat] /\ fStable \subseteq [Keys -> Nat]
  /\ revision \in Nat /\ fSyncs \in BOOLEAN /\ fExposed \in BOOLEAN

(* The numbers of a call have been given to it. *)
GivenOut(r) == r.stage \in {"signing", "issued"}
LastOf(r) == r.first + r.count - 1

(* The calls behind `exclusive' wait for their own process, once each, in  *)
(* the order of the production states they project, and behind every call  *)
(* the process has answered.                                               *)
QueueInv(p, q, cs, rv) ==
  /\ \A i \in 1 .. Len(q) : q[i] \in Calls =>
       cs[q[i]].stage = "queued" /\ cs[q[i]].proc = p /\ cs[q[i]].rev <= rv
  /\ \A i, j \in 1 .. Len(q) : i < j /\ q[i] \in Calls /\ q[j] \in Calls =>
       q[i] # q[j] /\ cs[q[i]].rev <= cs[q[j]].rev
  /\ \A i \in 1 .. Len(q), c \in Calls :
       q[i] \in Calls /\ GivenOut(cs[c]) /\ cs[c].proc = p => cs[c].rev <= cs[q[i]].rev

(* What a ready process has in memory is in the file, up to the numbers    *)
(* that are being written; it is ready only while it holds the marker.     *)
ProcInv(p, r, q, a, lk, f, cs) ==
  /\ r.holds => lk = p /\ r.phase \notin {"new", "dead"}
  /\ r.phase = "ready" \/ a = "load" => r.holds
  /\ a # "idle" => Len(q) > 0
  /\ a \in {"prepare", "acquire", "load"} => r.phase = "initializing" /\ q[1] # "close"
  /\ a \in {"reserve", "rename", "sync"} => r.phase = "ready" /\ q[1] \in Calls
  /\ r.phase = "ready" =>
       f = IF a = "sync" THEN [r.records EXCEPT ![cs[q[1]].key] = @ + cs[q[1]].count]
           ELSE r.records

CallInv(r, rv) ==
  /\ IF r.stage = "new" THEN r.proc \notin Procs ELSE r.key \in Keys /\ r.count > 0
  /\ r.stage \in {"authenticating", "queued", "signing", "issued"} => r.proc \in Procs
  /\ GivenOut(r) => r.rev <= rv

(* Numbers that were given are in these contents of the file ... *)
Covered(cs, f) == \A c \in Calls : GivenOut(cs[c]) => LastOf(cs[c]) <= f[cs[c].key]

(* ... and no others; of one process the later ones are of a later state.  *)
Apart(r1, r2) ==
  GivenOut(r1) /\ GivenOut(r2) /\ r1.key = r2.key =>
    /\ LastOf(r1) < r2.first \/ LastOf(r2) < r1.first
    /\ r1.proc = r2.proc /\ LastOf(r1) < r2.first => r1.rev <= r2.rev

FreshInv(ss, cs, f, st, y) ==
  /\ Covered(cs, f) /\ (y => \A d \in st : Covered(cs, d))
  /\ \A p \in Procs : ss[p].phase = "ready" => Covered(cs, ss[p].records)
  /\ \A c, d \in Calls : c # d => Apart(cs[c], cs[d])

IssuedInv(es, cs) ==
  \A e \in es :
    /\ e.call \in Calls /\ cs[e.call].stage = "issued"
    /\ e = [key |-> cs[e.call].key, seq |-> e.seq, rev |-> cs[e.call].rev, call |-> e.call]
    /\ e.seq \in cs[e.call].first .. LastOf(cs[e.call])

FeedProcs ==
  \A p \in Procs : /\ ProcInv(p, fStore[p], fQueue[p], fAt[p], fLock, fFile, fCall)
                   /\ QueueInv(p, fQueue[p], fCall, revision)

FeedInv ==
  /\ FeedTypes /\ FeedProcs
  /\ \A c \in Calls : CallInv(fCall[c], revision)
  /\ ~fExposed => FreshInv(fStore, fCall, fFile, fStable, fSyncs)
  /\ IssuedInv(issued, fCall)

LEMMA FeedStarts ==
  ASSUME Sequence!SequenceAssumption, Sequence!Init
  PROVE  FeedInv
<1>1. /\ fStore = [p \in Procs |-> Sequence!Fresh] /\ fQueue = [p \in Procs |-> <<>>]
      /\ fAt = [p \in Procs |-> "idle"] /\ fCall = [c \in Calls |-> Sequence!NoCall]
      /\ fLock = NoProc /\ fFile = Sequence!Zero /\ fStable = {Sequence!Zero}
      /\ revision = 0 /\ issued = {} /\ fSyncs \in BOOLEAN /\ fExposed = FALSE
  BY DEF Sequence!Init
<1>2. Sequence!Zero \in [Keys -> Nat]
  BY DEF Sequence!Zero
<1>3. Sequence!Fresh \in FeedStores /\ ~Sequence!Fresh.holds /\ Sequence!Fresh.phase = "new"
  BY <1>2 DEF Sequence!Fresh, FeedStores
<1>4. Sequence!NoCall \in FeedCalls /\ Sequence!NoCall.stage = "new"
  <2>1. PICK k : k = Sequence!NoCall.key
    OBVIOUS
  <2>2. Sequence!NoCall = [stage |-> "new", proc |-> NoProc, key |-> k, count |-> 0, rev |-> 0,
                           first |-> 0]
    BY <2>1 DEF Sequence!NoCall
  <2> QED  BY <2>1, <2>2 DEF FeedCalls
<1>5. <<>> \in Seq(FeedJobs) /\ Len(<<>>) = 0
  OBVIOUS
<1>6. FeedTypes
  BY <1>1, <1>2, <1>3, <1>4, <1>5 DEF FeedTypes, FeedPlaces
<1>7. \A c \in Calls : fCall[c].stage = "new" /\ ~GivenOut(fCall[c])
  BY <1>1, <1>4 DEF GivenOut
<1>8. FeedProcs
  BY <1>1, <1>3, <1>5 DEF FeedProcs, ProcInv, QueueInv
<1>9. FreshInv(fStore, fCall, fFile, fStable, fSyncs)
  BY <1>7 DEF FreshInv, Covered, Apart
<1>10. \A c \in Calls : CallInv(fCall[c], revision)
  <2>1. Sequence!NoCall.proc = NoProc
    BY DEF Sequence!NoCall
  <2> QED  BY <1>1, <1>7, <2>1 DEF CallInv, GivenOut, Sequence!SequenceAssumption
<1> QED  BY <1>1, <1>6, <1>8, <1>9, <1>10 DEF FeedInv, IssuedInv

\* The calls of a step that gives no numbers: a call that has its numbers
\* keeps them, and an issued one stays so.
Calm ==
  \A c \in Calls :
    /\ GivenOut(fCall'[c]) =>
         /\ GivenOut(fCall[c])
         /\ fCall'[c].key = fCall[c].key /\ fCall'[c].first = fCall[c].first
         /\ fCall'[c].count = fCall[c].count /\ fCall'[c].rev = fCall[c].rev
         /\ fCall'[c].proc = fCall[c].proc
    /\ fCall[c].stage = "issued" => fCall'[c] = fCall[c]
CallsKept ==
  /\ fCall' \in [Calls -> FeedCalls] /\ Calm
  /\ \A c \in Calls : CallInv(fCall'[c], revision)

\* The calls queued at a process from the n-th on are untouched.
QueuedKept(p, n) ==
  \A i \in n .. Len(fQueue[p]) :
     fQueue[p][i] \in Calls => fCall'[fQueue[p][i]] = fCall[fQueue[p][i]]

LEMMA CalmCovers ==
  ASSUME Calm, NEW f, Covered(fCall, f)
  PROVE  Covered(fCall', f)
  BY DEF Calm, Covered, LastOf

LEMMA CalmIsFresh ==
  ASSUME Calm, FeedInv, fExposed => fExposed', fSyncs' = fSyncs,
         ~fExposed' => /\ Covered(fCall, fFile') /\ (fSyncs => \A d \in fStable' : Covered(fCall, d))
                       /\ \A p \in Procs : fStore'[p].phase = "ready" =>
                            Covered(fCall, fStore'[p].records)
  PROVE  ~fExposed' => FreshInv(fStore, fCall, fFile, fStable, fSyncs)'
<1> SUFFICES ASSUME ~fExposed'
             PROVE  FreshInv(fStore', fCall', fFile', fStable', fSyncs')
  OBVIOUS
<1>1. \A c, d \in Calls : c # d => Apart(fCall[c], fCall[d])
  BY DEF FeedInv, FreshInv
<1>2. \A c, d \in Calls : c # d => Apart(fCall'[c], fCall'[d])
  BY <1>1 DEF Calm, Apart, LastOf
<1> QED  BY <1>2, CalmCovers DEF FreshInv

LEMMA CalmIssues ==
  ASSUME Calm, FeedInv, issued' = issued
  PROVE  IssuedInv(issued', fCall')
  BY DEF Calm, FeedInv, IssuedInv

LEMMA QueueStays ==
  ASSUME FeedInv, CallsKept, NEW p \in Procs, QueuedKept(p, 1), revision' = revision
  PROVE  QueueInv(p, fQueue[p], fCall', revision')
<1> DEFINE q == fQueue[p]
<1>1. QueueInv(p, q, fCall, revision)
  BY DEF FeedInv, FeedProcs
<1>2. \A i \in 1 .. Len(q) : q[i] \in Calls => fCall'[q[i]] = fCall[q[i]]
  BY DEF QueuedKept
<1> HIDE DEF q
<1>3. QueueInv(p, q, fCall', revision)
  BY <1>1, <1>2 DEF QueueInv, CallsKept, Calm
<1> QED  BY <1>3 DEF q

LEMMA HeadStays ==
  ASSUME FeedInv, NEW p \in Procs, QueuedKept(p, 1), fAt[p] = "sync"
  PROVE  fCall'[fQueue[p][1]] = fCall[fQueue[p][1]]
<1>1. fQueue[p] \in Seq(FeedJobs) /\ ProcInv(p, fStore[p], fQueue[p], fAt[p], fLock, fFile, fCall)
  BY DEF FeedInv, FeedTypes, FeedProcs
<1>2. fQueue[p][1] \in Calls /\ 1 \in 1 .. Len(fQueue[p])
  BY <1>1 DEF ProcInv
<1> QED  BY <1>2 DEF QueuedKept

\* A step of one process, what it may do to the marker and the file while
\* another holds the marker, and the calls queued elsewhere.
FeedMoves(p, r, q, a) ==
  /\ fStore' = [fStore EXCEPT ![p] = r] /\ fQueue' = [fQueue EXCEPT ![p] = q]
  /\ fAt' = [fAt EXCEPT ![p] = a]
  /\ UNCHANGED <<revision, issued, fSyncs, fExposed>>

OthersKept(p) ==
  \A j \in Procs \ {p} :
     /\ QueuedKept(j, 1)
     /\ fStore[j].holds => fLock' = fLock /\ fFile' = fFile

FileKeeps ==
  /\ fLock' \in Procs \cup {NoProc} /\ fFile' \in [Keys -> Nat] /\ fStable' \subseteq [Keys -> Nat]
  /\ ~fExposed => Covered(fCall, fFile') /\ (fSyncs => \A d \in fStable' : Covered(fCall, d))

LEMMA FeedProcess ==
  ASSUME NEW p \in Procs, NEW r \in FeedStores, NEW q \in Seq(FeedJobs), NEW a \in FeedPlaces,
         FeedInv, FeedMoves(p, r, q, a), CallsKept, OthersKept(p), FileKeeps,
         ProcInv(p, r, q, a, fLock', fFile', fCall'), QueueInv(p, q, fCall', revision),
         ~fExposed /\ r.phase = "ready" => Covered(fCall, r.records)
  PROVE  FeedInv'
<1>1. /\ fStore'[p] = r /\ fQueue'[p] = q /\ fAt'[p] = a
      /\ \A j \in Procs \ {p} : fStore'[j] = fStore[j] /\ fQueue'[j] = fQueue[j] /\ fAt'[j] = fAt[j]
  BY DEF FeedInv, FeedTypes, FeedMoves
<1>2. revision' = revision /\ issued' = issued /\ fSyncs' = fSyncs /\ fExposed' = fExposed
  BY DEF FeedMoves
<1>3. FeedTypes'
  BY <1>2 DEF FeedInv, FeedTypes, FeedMoves, CallsKept, FileKeeps
<1>4. ASSUME NEW j \in Procs
      PROVE  /\ ProcInv(j, fStore'[j], fQueue'[j], fAt'[j], fLock', fFile', fCall')
             /\ QueueInv(j, fQueue'[j], fCall', revision')
  <2>1. CASE j = p
    BY <1>1, <1>2, <2>1
  <2>2. CASE j # p
    <3>1. ProcInv(j, fStore[j], fQueue[j], fAt[j], fLock, fFile, fCall)
      BY DEF FeedInv, FeedProcs
    <3>2. QueuedKept(j, 1) /\ (fStore[j].holds => fLock' = fLock /\ fFile' = fFile)
      BY <2>2 DEF OthersKept
    <3>3. fAt[j] = "sync" => fCall'[fQueue[j][1]] = fCall[fQueue[j][1]]
      BY <3>2, HeadStays
    <3>4. ProcInv(j, fStore[j], fQueue[j], fAt[j], fLock', fFile', fCall')
      BY <3>1, <3>2, <3>3 DEF ProcInv
    <3> QED  BY <1>1, <1>2, <2>2, <3>2, <3>4, QueueStays
  <2> QED  BY <2>1, <2>2
<1>5. \A c \in Calls : CallInv(fCall'[c], revision')
  BY <1>2 DEF CallsKept
<1>6. ~fExposed => \A j \in Procs : fStore'[j].phase = "ready" => Covered(fCall, fStore'[j].records)
  BY <1>1 DEF FeedInv, FreshInv
<1>7. ~fExposed' => FreshInv(fStore, fCall, fFile, fStable, fSyncs)'
  BY <1>2, <1>6, CalmIsFresh DEF FileKeeps, CallsKept
<1>8. IssuedInv(issued', fCall')
  BY <1>2, CalmIssues DEF CallsKept
<1> QED  BY <1>3, <1>4, <1>5, <1>7, <1>8 DEF FeedInv, FeedProcs

\* What Head, Tail and Append make of a queue of jobs.
LEMMA FeedQueues ==
  ASSUME NEW q \in Seq(FeedJobs)
  PROVE  /\ q # <<>> => Len(q) > 0
         /\ Len(q) > 0 =>
              /\ Head(q) = q[1] /\ q[1] \in FeedJobs
              /\ Tail(q) \in Seq(FeedJobs) /\ Len(Tail(q)) = Len(q) - 1
              /\ \A i \in 1 .. (Len(q) - 1) : Tail(q)[i] = q[i + 1]
         /\ \A x \in FeedJobs :
              /\ Append(q, x) \in Seq(FeedJobs) /\ Len(Append(q, x)) = Len(q) + 1
              /\ \A i \in 1 .. Len(q) : Append(q, x)[i] = q[i]
              /\ Append(q, x)[Len(q) + 1] = x
  OBVIOUS

\* The state of one process, ready to be moved.
LEMMA FeedFacts ==
  ASSUME FeedInv, NEW p \in Procs
  PROVE  /\ fStore[p] \in FeedStores /\ fQueue[p] \in Seq(FeedJobs) /\ fAt[p] \in FeedPlaces
         /\ fStore[p].records \in [Keys -> Nat] /\ fStore[p].holds \in BOOLEAN
         /\ ProcInv(p, fStore[p], fQueue[p], fAt[p], fLock, fFile, fCall)
  BY DEF FeedInv, FeedTypes, FeedProcs, FeedStores

LEMMA FeedQueueInv ==
  ASSUME FeedInv, NEW p \in Procs
  PROVE  QueueInv(p, fQueue[p], fCall, revision)
  BY DEF FeedInv, FeedProcs

LEMMA FeedSame ==
  ASSUME FeedInv, NEW p \in Procs
  PROVE  /\ fStore = [fStore EXCEPT ![p] = fStore[p]] /\ fQueue = [fQueue EXCEPT ![p] = fQueue[p]]
         /\ fAt = [fAt EXCEPT ![p] = fAt[p]]
  BY DEF FeedInv, FeedTypes

\* The marker names the process that holds it.
LEMMA FeedHolder ==
  ASSUME FeedInv
  PROVE  \A j \in Procs : fStore[j].holds => fLock = j
  BY DEF FeedInv, FeedProcs, ProcInv

\* The shared state, and the numbers it covers.
LEMMA FeedDisk ==
  ASSUME FeedInv
  PROVE  /\ fCall \in [Calls -> FeedCalls] /\ fLock \in Procs \cup {NoProc}
         /\ fFile \in [Keys -> Nat] /\ fStable \subseteq [Keys -> Nat]
         /\ ~fExposed => /\ Covered(fCall, fFile) /\ (fSyncs => \A d \in fStable : Covered(fCall, d))
                         /\ \A p \in Procs : fStore[p].phase = "ready" => Covered(fCall, fStore[p].records)
  BY DEF FeedInv, FeedTypes, FreshInv

LEMMA CallsStay ==
  ASSUME FeedInv, fCall' = fCall
  PROVE  CallsKept /\ \A p \in Procs : QueuedKept(p, 1) /\ QueuedKept(p, 2)
  BY DEF FeedInv, FeedTypes, CallsKept, Calm, QueuedKept

\* The call at the head of the queue is refused.
LEMMA RejectKeeps ==
  ASSUME Sequence!SequenceAssumption, FeedInv, NEW p \in Procs, Len(fQueue[p]) > 0,
         fCall' = fCall \/ Sequence!Reject(p)
  PROVE  CallsKept /\ QueuedKept(p, 2) /\ \A j \in Procs \ {p} : QueuedKept(j, 1)
<1>1. CASE fCall' = fCall
  BY <1>1, CallsStay
<1>2. CASE Sequence!Reject(p) /\ fQueue[p][1] \notin Calls
  <2>1. fCall' = fCall
    BY <1>2, FeedFacts, FeedQueues DEF Sequence!Reject
  <2> QED  BY <2>1, CallsStay
<1>3. CASE Sequence!Reject(p) /\ fQueue[p][1] \in Calls
  <2>1. PICK c \in Calls : c = fQueue[p][1]
    BY <1>3
  <2>2. fCall' = [fCall EXCEPT ![c].stage = "refused"]
    BY <1>3, <2>1, FeedFacts, FeedQueues DEF Sequence!Reject
  <2>3. fCall \in [Calls -> FeedCalls] /\ fQueue[p] \in Seq(FeedJobs) /\ QueueInv(p, fQueue[p], fCall, revision)
    BY FeedFacts, FeedQueueInv, FeedDisk
  <2>4. 1 \in 1 .. Len(fQueue[p])
    BY <2>3
  <2>5. fCall[c].stage = "queued" /\ fCall[c].proc = p
    BY <2>1, <2>3, <2>4 DEF QueueInv
  <2>6. /\ fCall'[c] = [fCall[c] EXCEPT !.stage = "refused"] /\ fCall'[c] \in FeedCalls
        /\ \A d \in Calls \ {c} : fCall'[d] = fCall[d]
    BY <2>2, <2>3 DEF FeedCalls
  <2>7. /\ fCall'[c].stage = "refused" /\ fCall'[c].key = fCall[c].key
        /\ fCall'[c].count = fCall[c].count
    BY <2>3, <2>6 DEF FeedCalls
  <2>8. CallsKept
    <3>1. fCall' \in [Calls -> FeedCalls]
      BY <2>2, <2>3, <2>6
    <3>2. Calm
      BY <2>5, <2>6, <2>7 DEF Calm, GivenOut
    <3>3. CallInv(fCall'[c], revision)
      BY <2>5, <2>7 DEF FeedInv, CallInv, GivenOut
    <3> QED  BY <2>6, <3>1, <3>2, <3>3 DEF CallsKept, FeedInv
  <2>9. QueuedKept(p, 2)
    <3>1. \A i \in 2 .. Len(fQueue[p]) : i \in 1 .. Len(fQueue[p]) /\ 1 < i
      BY <2>3
    <3>2. \A i \in 2 .. Len(fQueue[p]) : fQueue[p][i] \in Calls => fQueue[p][i] # c
      BY <2>1, <2>3, <2>4, <3>1 DEF QueueInv
    <3> QED  BY <2>6, <3>2 DEF QueuedKept
  <2>10. ASSUME NEW j \in Procs \ {p}
         PROVE  QueuedKept(j, 1)
    <3>1. QueueInv(j, fQueue[j], fCall, revision) /\ j # p
      BY FeedQueueInv
    <3>2. \A i \in 1 .. Len(fQueue[j]) : fQueue[j][i] \in Calls => fQueue[j][i] # c
      BY <2>5, <3>1 DEF QueueInv
    <3> QED  BY <2>6, <3>2 DEF QueuedKept
  <2> QED  BY <2>8, <2>9, <2>10
<1> QED  BY <1>1, <1>2, <1>3

LEMMA QueueShortens ==
  ASSUME FeedInv, NEW p \in Procs, Len(fQueue[p]) > 0, CallsKept, QueuedKept(p, 2)
  PROVE  Tail(fQueue[p]) \in Seq(FeedJobs) /\ QueueInv(p, Tail(fQueue[p]), fCall', revision)
<1> DEFINE q == fQueue[p]
           n == Tail(q)
<1>1. /\ n \in Seq(FeedJobs) /\ Len(n) = Len(q) - 1 /\ Len(q) \in Nat
      /\ \A i \in 1 .. (Len(q) - 1) : n[i] = q[i + 1]
  BY FeedFacts, FeedQueues
<1>2. QueueInv(p, q, fCall, revision)
  BY FeedQueueInv
<1>3. \A i \in 1 .. Len(n) : /\ i + 1 \in 1 .. Len(q) /\ n[i] = q[i + 1]
                             /\ q[i + 1] \in Calls => fCall'[q[i + 1]] = fCall[q[i + 1]]
  BY <1>1 DEF QueuedKept
<1> HIDE DEF q, n
<1>4. \A i, j \in 1 .. Len(n) : i < j => i + 1 < j + 1
  BY <1>1
<1>5. \A i, j \in 1 .. Len(n) : i < j /\ n[i] \in Calls /\ n[j] \in Calls =>
        n[i] # n[j] /\ fCall'[n[i]].rev <= fCall'[n[j]].rev
  BY <1>2, <1>3, <1>4 DEF QueueInv
<1>6. \A i \in 1 .. Len(n) : n[i] \in Calls =>
        fCall'[n[i]].stage = "queued" /\ fCall'[n[i]].proc = p /\ fCall'[n[i]].rev <= revision
  BY <1>2, <1>3 DEF QueueInv
<1>7. \A i \in 1 .. Len(n), c \in Calls :
        n[i] \in Calls /\ GivenOut(fCall'[c]) /\ fCall'[c].proc = p => fCall'[c].rev <= fCall'[n[i]].rev
  BY <1>2, <1>3 DEF QueueInv, CallsKept, Calm
<1> QED  BY <1>1, <1>5, <1>6, <1>7 DEF QueueInv, q, n

\* A job settles: the head leaves the queue, refused or answered.
LEMMA FeedSettles ==
  ASSUME Sequence!SequenceAssumption, FeedInv, NEW p \in Procs, NEW r \in FeedStores,
         Len(fQueue[p]) > 0, fStore' = [fStore EXCEPT ![p] = r], Sequence!Settle(p),
         fCall' = fCall \/ Sequence!Reject(p),
         UNCHANGED <<revision, issued, fSyncs, fExposed>>, fFile' = fFile, FileKeeps,
         \A j \in Procs \ {p} : fStore[j].holds => fLock' = fLock,
         r.holds => fLock' = p /\ r.phase \notin {"new", "dead"},
         r.phase = "ready" => r.holds /\ fFile = r.records
  PROVE  FeedInv'
<1>1. CallsKept /\ QueuedKept(p, 2) /\ \A j \in Procs \ {p} : QueuedKept(j, 1)
  BY RejectKeeps
<1>2. Tail(fQueue[p]) \in Seq(FeedJobs) /\ QueueInv(p, Tail(fQueue[p]), fCall', revision)
  BY <1>1, QueueShortens
<1>3. FeedMoves(p, r, Tail(fQueue[p]), "idle")
  BY DEF FeedMoves, Sequence!Settle
<1>4. OthersKept(p)
  BY <1>1 DEF OthersKept
<1>5. ProcInv(p, r, Tail(fQueue[p]), "idle", fLock', fFile', fCall')
  BY DEF ProcInv
<1>6. ~fExposed /\ r.phase = "ready" => Covered(fCall, r.records)
  BY DEF FileKeeps
<1> QED  BY <1>1, <1>2, <1>3, <1>4, <1>5, <1>6, FeedProcess DEF FeedPlaces

\* A job is queued behind the others.
LEMMA QueueGrows ==
  ASSUME FeedInv, NEW p \in Procs, NEW x \in FeedJobs, CallsKept, QueuedKept(p, 1),
         x \in Calls => /\ fCall'[x].stage = "queued" /\ fCall'[x].proc = p
                        /\ fCall'[x].rev = revision /\ fCall[x].stage = "authenticating"
  PROVE  /\ Append(fQueue[p], x) \in Seq(FeedJobs)
         /\ QueueInv(p, Append(fQueue[p], x), fCall', revision)
         /\ Len(fQueue[p]) > 0 => Append(fQueue[p], x)[1] = fQueue[p][1]
         /\ Len(Append(fQueue[p], x)) > 0
<1> DEFINE q == fQueue[p]
           n == Append(q, x)
<1>1. /\ n \in Seq(FeedJobs) /\ Len(n) = Len(q) + 1 /\ Len(q) \in Nat
      /\ \A i \in 1 .. Len(q) : n[i] = q[i]
      /\ n[Len(q) + 1] = x
  BY FeedFacts, FeedQueues
<1>2. QueueInv(p, q, fCall, revision) /\ fCall' \in [Calls -> FeedCalls] /\ revision \in Nat
  BY FeedQueueInv DEF CallsKept, FeedInv, FeedTypes
<1>3. \A i \in 1 .. Len(q) : q[i] \in Calls => fCall'[q[i]] = fCall[q[i]]
  BY DEF QueuedKept
<1> HIDE DEF q, n
<1>4. \A i \in 1 .. Len(n) : i \in 1 .. Len(q) \/ i = Len(q) + 1
  BY <1>1
<1>5. \A i \in 1 .. Len(n) : n[i] \in Calls =>
        fCall'[n[i]].stage = "queued" /\ fCall'[n[i]].proc = p /\ fCall'[n[i]].rev <= revision
  BY <1>1, <1>2, <1>3, <1>4 DEF QueueInv
<1>6. \A i, j \in 1 .. Len(n) : i < j => i \in 1 .. Len(q)
  BY <1>1
<1>7. \A i, j \in 1 .. Len(n) : i < j /\ n[i] \in Calls /\ n[j] \in Calls =>
        n[i] # n[j] /\ fCall'[n[i]].rev <= fCall'[n[j]].rev
  <2> SUFFICES ASSUME NEW i \in 1 .. Len(n), NEW j \in 1 .. Len(n), i < j,
                      n[i] \in Calls, n[j] \in Calls
               PROVE  n[i] # n[j] /\ fCall'[n[i]].rev <= fCall'[n[j]].rev
    OBVIOUS
  <2>1. n[i] = q[i] /\ i \in 1 .. Len(q) /\ fCall'[q[i]] = fCall[q[i]]
    BY <1>1, <1>3, <1>6
  <2>2. fCall[q[i]].stage = "queued" /\ fCall[q[i]].rev <= revision
    BY <1>2, <2>1 DEF QueueInv
  <2>3. CASE j \in 1 .. Len(q)
    BY <1>1, <1>2, <1>3, <2>1, <2>3 DEF QueueInv
  <2>4. CASE j = Len(q) + 1
    BY <1>1, <2>1, <2>2, <2>4
  <2> QED  BY <1>4, <2>3, <2>4
<1>8. \A i \in 1 .. Len(n), c \in Calls :
        n[i] \in Calls /\ GivenOut(fCall'[c]) /\ fCall'[c].proc = p => fCall'[c].rev <= fCall'[n[i]].rev
  <2> SUFFICES ASSUME NEW i \in 1 .. Len(n), NEW c \in Calls,
                      n[i] \in Calls, GivenOut(fCall'[c]), fCall'[c].proc = p
               PROVE  fCall'[c].rev <= fCall'[n[i]].rev
    OBVIOUS
  <2>1. GivenOut(fCall[c]) /\ fCall'[c].rev = fCall[c].rev /\ fCall[c].proc = p
    BY DEF CallsKept, Calm
  <2>2. fCall[c].rev <= revision
    BY <2>1 DEF FeedInv, CallInv
  <2>3. CASE i \in 1 .. Len(q)
    BY <1>1, <1>2, <1>3, <2>1, <2>3 DEF QueueInv
  <2>4. CASE i = Len(q) + 1
    BY <1>1, <2>1, <2>2, <2>4
  <2> QED  BY <1>4, <2>3, <2>4
<1>9. QueueInv(p, n, fCall', revision)
  BY <1>5, <1>7, <1>8 DEF QueueInv
<1>10. Len(q) > 0 => n[1] = q[1]
  BY <1>1
<1> QED  BY <1>1, <1>9, <1>10 DEF q, n

\* The file, the marker and the disk are left alone.
LEMMA FileStays ==
  ASSUME FeedInv, UNCHANGED <<fLock, fFile, fStable>>
  PROVE  FileKeeps
  BY DEF FeedInv, FeedTypes, FreshInv, FileKeeps

LEMMA FeedQueued ==
  ASSUME Sequence!SequenceAssumption, FeedInv, NEW p \in Procs,
         Sequence!Start(p) \/ Sequence!CloseStore(p)
  PROVE  FeedInv'
<1>0. /\ fQueue \in [Procs -> Seq(FeedJobs)]
      /\ fStore = [fStore EXCEPT ![p] = fStore[p]] /\ fStore[p] \in FeedStores
  BY FeedFacts DEF FeedInv, FeedTypes
<1>1. PICK x \in {"init", "close"}, r \in FeedStores :
        /\ fQueue' = [fQueue EXCEPT ![p] = Append(fQueue[p], x)]
        /\ fStore' = [fStore EXCEPT ![p] = r]
        /\ r = fStore[p] \/ r = [fStore[p] EXCEPT !.closing = TRUE]
  <2>1. CASE Sequence!Start(p)
    BY <1>0, <2>1 DEF Sequence!Start
  <2>2. CASE Sequence!CloseStore(p)
    <3>1. [fStore[p] EXCEPT !.closing = TRUE] \in FeedStores
      BY <1>0 DEF FeedStores
    <3> QED  BY <1>0, <2>2, <3>1 DEF Sequence!CloseStore
  <2> QED  BY <2>1, <2>2
<1>2. UNCHANGED <<fAt, fCall, fLock, fFile, fStable, revision, issued, fSyncs, fExposed>>
  BY DEF Sequence!Start, Sequence!CloseStore
<1>3. /\ r \in FeedStores /\ r.phase = fStore[p].phase /\ r.holds = fStore[p].holds
      /\ r.records = fStore[p].records
  BY <1>0, <1>1 DEF FeedStores
<1>4. x \in FeedJobs /\ x \notin Calls
  BY DEF Sequence!SequenceAssumption, FeedJobs
<1>5. CallsKept /\ \A j \in Procs : QueuedKept(j, 1)
  BY <1>2, CallsStay
<1>6. /\ Append(fQueue[p], x) \in Seq(FeedJobs)
      /\ QueueInv(p, Append(fQueue[p], x), fCall', revision)
      /\ Len(fQueue[p]) > 0 => Append(fQueue[p], x)[1] = fQueue[p][1]
      /\ Len(Append(fQueue[p], x)) > 0
  BY <1>4, <1>5, QueueGrows
<1>7. ProcInv(p, r, Append(fQueue[p], x), fAt[p], fLock', fFile', fCall')
  BY <1>2, <1>3, <1>6, FeedFacts DEF ProcInv
<1>8. FeedMoves(p, r, Append(fQueue[p], x), fAt[p])
  BY <1>1, <1>2, FeedSame DEF FeedMoves
<1>9. FileKeeps /\ OthersKept(p)
  BY <1>2, <1>5, FileStays DEF OthersKept
<1> QED  BY <1>3, <1>5, <1>6, <1>7, <1>8, <1>9, FeedFacts, FeedDisk, FeedProcess

\* A call that is not in a queue moves, and gets no numbers.
LEMMA OneCall ==
  ASSUME FeedInv, NEW c \in Calls, NEW x \in FeedCalls, fCall' = [fCall EXCEPT ![c] = x],
         fCall[c].stage \notin {"queued", "issued"}, x.stage \notin {"signing", "issued"},
         CallInv(x, revision)
  PROVE  CallsKept /\ \A p \in Procs : QueuedKept(p, 1)
<1>1. fCall' \in [Calls -> FeedCalls] /\ fCall'[c] = x /\ \A d \in Calls \ {c} : fCall'[d] = fCall[d]
  BY DEF FeedInv, FeedTypes
<1>2. Calm
  BY <1>1 DEF Calm, GivenOut
<1>3. CallsKept
  BY <1>1, <1>2 DEF CallsKept, FeedInv
<1>4. ASSUME NEW p \in Procs, NEW i \in 1 .. Len(fQueue[p]), fQueue[p][i] \in Calls
      PROVE  fCall'[fQueue[p][i]] = fCall[fQueue[p][i]]
  <2>1. fCall[fQueue[p][i]].stage = "queued"
    BY <1>4, FeedQueueInv DEF QueueInv
  <2> QED  BY <1>1, <1>4, <2>1
<1> QED  BY <1>3, <1>4 DEF QueuedKept

\* Nothing but the calls moves.
LEMMA OnlyCalls ==
  ASSUME FeedInv, CallsKept, \A p \in Procs : QueuedKept(p, 1), NEW p \in Procs,
         UNCHANGED <<fStore, fQueue, fAt, fLock, fFile, fStable, revision, issued, fSyncs, fExposed>>
  PROVE  FeedInv'
<1>1. FeedMoves(p, fStore[p], fQueue[p], fAt[p]) /\ FileKeeps /\ OthersKept(p)
  BY FeedSame, FileStays DEF FeedMoves, OthersKept
<1>2. fAt[p] = "sync" => fCall'[fQueue[p][1]] = fCall[fQueue[p][1]]
  BY HeadStays
<1>3. ProcInv(p, fStore[p], fQueue[p], fAt[p], fLock', fFile', fCall')
  BY <1>2, FeedFacts DEF ProcInv
<1>4. QueueInv(p, fQueue[p], fCall', revision)
  BY QueueStays
<1> QED  BY <1>1, <1>3, <1>4, FeedFacts, FeedDisk, FeedProcess

LEMMA FeedCallsMove ==
  ASSUME Sequence!SequenceAssumption, FeedInv, NEW c \in Calls,
         \/ \E p \in Procs, k \in Keys, n \in 1 .. 2 : Sequence!IssueVisibility(p, c, k, n)
         \/ Sequence!Unauthorized(c) \/ Sequence!SigningFails(c)
         \/ Sequence!Authenticated(c) /\ fStore[fCall[c].proc].closing
  PROVE  FeedInv'
<1>1. fCall[c] \in FeedCalls /\ CallInv(fCall[c], revision) /\ fCall \in [Calls -> FeedCalls]
  BY DEF FeedInv, FeedTypes
<1>2. UNCHANGED <<fStore, fQueue, fAt, fLock, fFile, fStable, revision, issued, fSyncs, fExposed>>
  BY DEF Sequence!IssueVisibility, Sequence!Unauthorized, Sequence!SigningFails,
         Sequence!Authenticated
<1>3. CASE \E p \in Procs, k \in Keys, n \in 1 .. 2 : Sequence!IssueVisibility(p, c, k, n)
  <2>1. PICK p \in Procs, k \in Keys, n \in 1 .. 2 : Sequence!IssueVisibility(p, c, k, n)
    BY <1>3
  <2>2. PICK x : x = [stage |-> "authenticating", proc |-> p, key |-> k, count |-> n, rev |-> 0,
                      first |-> 0]
    OBVIOUS
  <2>3. x \in FeedCalls /\ CallInv(x, revision) /\ x.stage = "authenticating"
    BY <2>2 DEF FeedCalls, CallInv, GivenOut
  <2>4. fCall' = [fCall EXCEPT ![c] = x] /\ fCall[c].stage = "new"
    BY <2>1, <2>2 DEF Sequence!IssueVisibility
  <2> QED  BY <1>2, <2>3, <2>4, OneCall, OnlyCalls
<1>4. CASE ~\E p \in Procs, k \in Keys, n \in 1 .. 2 : Sequence!IssueVisibility(p, c, k, n)
  <2>1. PICK x : x = [fCall[c] EXCEPT !.stage = "refused"]
    OBVIOUS
  <2>2. fCall' = [fCall EXCEPT ![c] = x] /\ fCall[c].stage \in {"authenticating", "signing"}
    BY <1>4, <2>1 DEF Sequence!Unauthorized, Sequence!SigningFails, Sequence!Authenticated
  <2>3. x \in FeedCalls /\ CallInv(x, revision) /\ x.stage = "refused" /\ fCall[c].proc \in Procs
    BY <1>1, <2>1, <2>2 DEF FeedCalls, CallInv, GivenOut
  <2> QED  BY <1>2, <2>2, <2>3, OneCall, OnlyCalls
<1> QED  BY <1>3, <1>4

LEMMA FeedAuthenticates ==
  ASSUME Sequence!SequenceAssumption, FeedInv, NEW c \in Calls,
         Sequence!Authenticated(c), ~fStore[fCall[c].proc].closing
  PROVE  FeedInv'
<1>1. fCall[c] \in FeedCalls /\ CallInv(fCall[c], revision) /\ fCall \in [Calls -> FeedCalls] /\ revision \in Nat
  BY DEF FeedInv, FeedTypes
<1>2. fCall[c].stage = "authenticating"
  BY DEF Sequence!Authenticated
<1>3. PICK p \in Procs : p = fCall[c].proc
  BY <1>1, <1>2 DEF CallInv
<1>4. PICK x : x = [fCall[c] EXCEPT !.stage = "queued", !.rev = revision]
  OBVIOUS
<1>5. /\ fCall' = [fCall EXCEPT ![c] = x] /\ fQueue' = [fQueue EXCEPT ![p] = Append(@, c)]
      /\ UNCHANGED <<fStore, fAt, fLock, fFile, fStable, revision, issued, fSyncs, fExposed>>
  BY <1>1, <1>3, <1>4 DEF Sequence!Authenticated, FeedCalls
<1>6. x \in FeedCalls /\ CallInv(x, revision) /\ x.stage = "queued" /\ x.proc = p /\ x.rev = revision
  BY <1>1, <1>2, <1>3, <1>4 DEF FeedCalls, CallInv, GivenOut
<1>7. CallsKept /\ \A j \in Procs : QueuedKept(j, 1)
  BY <1>2, <1>5, <1>6, OneCall
<1>8. c \in FeedJobs /\ fCall'[c] = x
  BY <1>1, <1>5 DEF FeedJobs
<1>9. /\ Append(fQueue[p], c) \in Seq(FeedJobs)
      /\ QueueInv(p, Append(fQueue[p], c), fCall', revision)
      /\ Len(fQueue[p]) > 0 => Append(fQueue[p], c)[1] = fQueue[p][1]
      /\ Len(Append(fQueue[p], c)) > 0
  BY <1>2, <1>6, <1>7, <1>8, QueueGrows
<1>10. fAt[p] = "sync" => fCall'[fQueue[p][1]] = fCall[fQueue[p][1]]
  BY <1>7, HeadStays
<1>11. ProcInv(p, fStore[p], Append(fQueue[p], c), fAt[p], fLock', fFile', fCall')
  BY <1>5, <1>9, <1>10, FeedFacts DEF ProcInv
<1>12. FeedMoves(p, fStore[p], Append(fQueue[p], c), fAt[p])
  BY <1>5, FeedSame DEF FeedMoves
<1>13. FileKeeps /\ OthersKept(p)
  BY <1>5, <1>7, FileStays DEF OthersKept
<1> QED  BY <1>7, <1>9, <1>11, <1>12, <1>13, FeedFacts, FeedDisk, FeedProcess

\* The running job goes on: the queue and the calls stay.
LEMMA FeedInPlace ==
  ASSUME FeedInv, NEW p \in Procs, NEW r \in FeedStores, NEW a \in FeedPlaces,
         fStore' = [fStore EXCEPT ![p] = r], fAt' = [fAt EXCEPT ![p] = a],
         UNCHANGED <<fQueue, fCall, revision, issued, fSyncs, fExposed>>, FileKeeps,
         \A j \in Procs \ {p} : fStore[j].holds => fLock' = fLock /\ fFile' = fFile,
         ProcInv(p, r, fQueue[p], a, fLock', fFile', fCall),
         ~fExposed /\ r.phase = "ready" => Covered(fCall, r.records)
  PROVE  FeedInv'
<1>1. CallsKept /\ \A j \in Procs : QueuedKept(j, 1)
  BY CallsStay
<1>2. FeedMoves(p, r, fQueue[p], a) /\ OthersKept(p)
  BY <1>1, FeedSame DEF FeedMoves, OthersKept
<1>3. ProcInv(p, r, fQueue[p], a, fLock', fFile', fCall') /\ QueueInv(p, fQueue[p], fCall', revision)
  BY FeedQueueInv
<1> QED  BY <1>1, <1>2, <1>3, FeedFacts, FeedProcess

\* The process a step is about.
LEMMA ProcFacts ==
  ASSUME FeedInv, NEW p \in Procs
  PROVE  /\ fQueue[p] # <<>> => Len(fQueue[p]) > 0
         /\ Len(fQueue[p]) > 0 => Head(fQueue[p]) = fQueue[p][1] /\ fQueue[p][1] \in FeedJobs
         /\ fAt[p] # "idle" => Len(fQueue[p]) > 0
         /\ fStore[p].phase \in {"new", "initializing", "ready", "failed", "closing", "closed", "dead"}
  BY FeedFacts, FeedQueues DEF ProcInv, FeedStores

LEMMA FeedRuns ==
  ASSUME Sequence!SequenceAssumption, FeedInv, NEW p \in Procs, Sequence!Run(p)
  PROVE  FeedInv'
<1>1. /\ fAt[p] = "idle" /\ Len(fQueue[p]) > 0
      /\ UNCHANGED <<fLock, fFile, fStable, revision, issued, fSyncs, fExposed>>
      /\ Head(fQueue[p]) = fQueue[p][1] /\ fQueue[p][1] \in FeedJobs
  BY ProcFacts DEF Sequence!Run
<1>2. FileKeeps
  BY <1>1, FileStays
<1>3. CASE fQueue[p][1] = "close" /\ fAt' = [fAt EXCEPT ![p] = "release"]
  <2>1. PICK r : r = [fStore[p] EXCEPT !.phase = "closing"]
    OBVIOUS
  <2>2. /\ fStore' = [fStore EXCEPT ![p] = r]
        /\ UNCHANGED <<fQueue, fCall>>
    <3>1. fStore' = [fStore EXCEPT ![p].phase = "closing"] /\ UNCHANGED <<fQueue, fCall>>
      BY <1>1, <1>3 DEF Sequence!Run
    <3> QED  BY <2>1, <3>1
  <2>3. r \in FeedStores /\ r.phase = "closing" /\ r.holds = fStore[p].holds
    BY <2>1, FeedFacts DEF FeedStores
  <2>4. ProcInv(p, r, fQueue[p], "release", fLock', fFile', fCall)
    BY <1>1, <2>3, FeedFacts DEF ProcInv
  <2> QED  BY <1>1, <1>2, <1>3, <2>2, <2>3, <2>4, FeedInPlace DEF FeedPlaces
<1>4. CASE fQueue[p][1] # "close" /\ fStore[p].phase = "ready"
  <2>1. fStore' = fStore /\ fCall' = fCall
    BY <1>1, <1>4 DEF Sequence!Run
  <2>2. CASE fQueue[p][1] = "init"
    <3>1. Sequence!Settle(p)
      BY <1>1, <1>4, <2>2 DEF Sequence!Run
    <3>2. fStore' = [fStore EXCEPT ![p] = fStore[p]] /\ fStore[p] \in FeedStores
      BY <2>1, FeedFacts, FeedSame
    <3>3. /\ fStore[p].holds => fLock' = p /\ fStore[p].phase \notin {"new", "dead"}
          /\ fStore[p].phase = "ready" => fStore[p].holds /\ fFile = fStore[p].records
      BY <1>1, FeedFacts DEF ProcInv
    <3> QED  BY <1>1, <1>2, <2>1, <3>1, <3>2, <3>3, FeedSettles
  <2>3. CASE fQueue[p][1] # "init"
    <3>1. fAt' = [fAt EXCEPT ![p] = "reserve"] /\ fQueue' = fQueue /\ fQueue[p][1] \in Calls
      BY <1>1, <1>4, <2>3 DEF Sequence!Run, FeedJobs
    <3>2. ProcInv(p, fStore[p], fQueue[p], "reserve", fLock', fFile', fCall)
      BY <1>1, <1>4, <3>1, FeedFacts DEF ProcInv
    <3>3. fStore' = [fStore EXCEPT ![p] = fStore[p]] /\ fStore[p] \in FeedStores
          /\ (~fExposed /\ fStore[p].phase = "ready" => Covered(fCall, fStore[p].records))
      BY <2>1, FeedFacts, FeedSame, FeedDisk
    <3> QED  BY <1>1, <1>2, <2>1, <3>1, <3>2, <3>3, FeedInPlace DEF FeedPlaces
  <2> QED  BY <2>2, <2>3
<1>5. CASE fQueue[p][1] # "close" /\ fStore[p].phase \in {"failed", "closing", "closed"}
  <2>1. fStore' = fStore /\ Sequence!Reject(p) /\ Sequence!Settle(p)
    BY <1>1, <1>5 DEF Sequence!Run
  <2>2. fStore' = [fStore EXCEPT ![p] = fStore[p]] /\ fStore[p] \in FeedStores
    BY <2>1, FeedFacts, FeedSame, FeedDisk
  <2>3. fStore[p].holds => fLock' = p /\ fStore[p].phase \notin {"new", "dead"}
    BY <1>1, FeedFacts DEF ProcInv
  <2> QED  BY <1>1, <1>2, <1>5, <2>1, <2>2, <2>3, FeedSettles
<1>6. CASE fQueue[p][1] # "close" /\ fStore[p].phase = "new"
  <2>1. PICK r : r = [fStore[p] EXCEPT !.phase = "initializing", !.durability = "power_loss_resilient"]
    OBVIOUS
  <2>2. /\ fStore' = [fStore EXCEPT ![p] = r] /\ fAt' = [fAt EXCEPT ![p] = "prepare"]
        /\ UNCHANGED <<fQueue, fCall>>
    <3>1. /\ fStore' = [fStore EXCEPT ![p].phase = "initializing",
                                      ![p].durability = "power_loss_resilient"]
          /\ fAt' = [fAt EXCEPT ![p] = "prepare"] /\ UNCHANGED <<fQueue, fCall>>
      BY <1>1, <1>6 DEF Sequence!Run
    <3>2. fStore \in [Procs -> FeedStores]
      BY DEF FeedInv, FeedTypes
    <3> QED  BY <2>1, <3>1, <3>2
  <2>3. r \in FeedStores /\ r.phase = "initializing" /\ r.holds = fStore[p].holds
    BY <2>1, FeedFacts DEF FeedStores
  <2>4. ProcInv(p, r, fQueue[p], "prepare", fLock', fFile', fCall)
    BY <1>1, <1>6, <2>3, FeedFacts DEF ProcInv
  <2> QED  BY <1>1, <1>2, <2>2, <2>3, <2>4, FeedInPlace DEF FeedPlaces
<1>7. CASE fQueue[p][1] = "close" /\ fAt' # [fAt EXCEPT ![p] = "release"]
  BY <1>1, <1>7 DEF Sequence!Run
<1>8. fStore[p].phase \in {"new", "ready", "failed", "closing", "closed"} \/ fQueue[p][1] = "close"
  BY <1>1, ProcFacts DEF Sequence!Run
<1> QED  BY <1>3, <1>4, <1>5, <1>6, <1>7, <1>8

\* The directory synchronised, or the store told that it cannot be.
LEMMA SyncKeeps ==
  ASSUME FeedInv, fStable' = Sequence!ConfirmDirectorySync(fFile),
         fFile' = fFile, fLock' \in Procs \cup {NoProc}
  PROVE  FileKeeps
<1>1. /\ fFile \in [Keys -> Nat] /\ fStable \subseteq [Keys -> Nat]
      /\ ~fExposed => /\ Covered(fCall, fFile)
                      /\ fSyncs => \A d \in fStable : Covered(fCall, d)
  BY DEF FeedInv, FeedTypes, FreshInv
<1>2. fStable' = IF fSyncs THEN {fFile} ELSE fStable \cup {fFile}
  BY DEF Sequence!ConfirmDirectorySync
<1> QED  BY <1>1, <1>2 DEF FileKeeps

LEMMA FeedPrepares ==
  ASSUME Sequence!SequenceAssumption, FeedInv, NEW p \in Procs, Sequence!PrepareDirectory(p)
  PROVE  FeedInv'
<1>1. PICK r : r = [fStore[p] EXCEPT !.durability = Sequence!Durability]
  OBVIOUS
<1>2. /\ fAt[p] = "prepare" /\ fStore' = [fStore EXCEPT ![p] = r] /\ fAt' = [fAt EXCEPT ![p] = "acquire"]
      /\ fStable' = Sequence!ConfirmDirectorySync(fFile)
      /\ UNCHANGED <<fQueue, fCall, fLock, fFile, revision, issued, fSyncs, fExposed>>
  BY <1>1 DEF Sequence!PrepareDirectory
<1>3. /\ r \in FeedStores /\ r.phase = fStore[p].phase /\ r.holds = fStore[p].holds
  BY <1>1, FeedFacts DEF FeedStores, Sequence!Durability
<1>4. ProcInv(p, r, fQueue[p], "acquire", fLock', fFile', fCall) /\ r.phase = "initializing"
  BY <1>2, <1>3, FeedFacts DEF ProcInv
<1>5. FileKeeps
  BY <1>2, FeedDisk, SyncKeeps
<1> QED  BY <1>2, <1>3, <1>4, <1>5, FeedInPlace DEF FeedPlaces

LEMMA FeedAcquires ==
  ASSUME Sequence!SequenceAssumption, FeedInv, NEW p \in Procs, Sequence!AcquireAuthority(p)
  PROVE  FeedInv'
<1>1. /\ fAt[p] = "acquire" /\ Len(fQueue[p]) > 0 /\ fStore[p].phase = "initializing"
      /\ UNCHANGED <<fFile, revision, issued, fSyncs, fExposed>>
  BY ProcFacts, FeedFacts DEF Sequence!AcquireAuthority, ProcInv
<1>2. CASE fLock = NoProc
  <2>1. PICK r : r = [fStore[p] EXCEPT !.holds = TRUE]
    OBVIOUS
  <2>2. /\ fStore' = [fStore EXCEPT ![p] = r] /\ fAt' = [fAt EXCEPT ![p] = "load"]
        /\ fStable' = Sequence!ConfirmDirectorySync(fFile) /\ fLock' = p
        /\ UNCHANGED <<fQueue, fCall>>
    BY <1>2, <2>1 DEF Sequence!AcquireAuthority
  <2>3. r \in FeedStores /\ r.phase = "initializing" /\ r.holds
    BY <1>1, <2>1, FeedFacts DEF FeedStores
  <2>4. ProcInv(p, r, fQueue[p], "load", fLock', fFile', fCall)
    BY <1>1, <2>2, <2>3, FeedFacts DEF ProcInv
  <2>5. FileKeeps
    BY <1>1, <2>2, SyncKeeps
  <2>6. \A j \in Procs : ~fStore[j].holds
    BY <1>2, FeedHolder, FeedDisk DEF Sequence!SequenceAssumption
  <2> QED  BY <1>1, <2>2, <2>3, <2>4, <2>5, <2>6, FeedInPlace DEF FeedPlaces
<1>3. CASE fLock # NoProc
  <2>1. PICK r : r = [fStore[p] EXCEPT !.phase = "failed"]
    OBVIOUS
  <2>2. /\ fStore' = [fStore EXCEPT ![p] = r] /\ Sequence!Reject(p) /\ Sequence!Settle(p)
        /\ UNCHANGED <<fLock, fStable>>
    BY <1>3, <2>1 DEF Sequence!AcquireAuthority
  <2>3. r \in FeedStores /\ r.phase = "failed" /\ (r.holds => fLock = p)
    BY <1>1, <2>1, FeedFacts, FeedHolder DEF FeedStores
  <2> QED  BY <1>1, <2>2, <2>3, FileStays, FeedSettles
<1> QED  BY <1>2, <1>3

LEMMA FeedLoads ==
  ASSUME Sequence!SequenceAssumption, FeedInv, NEW p \in Procs, Sequence!LoadOnce(p)
  PROVE  FeedInv'
<1>1. /\ fAt[p] = "load" /\ Len(fQueue[p]) > 0 /\ fStore[p].holds /\ fLock = p
      /\ fQueue[p][1] # "close" /\ Head(fQueue[p]) = fQueue[p][1] /\ fQueue[p][1] \in FeedJobs
      /\ UNCHANGED <<fCall, fLock, fFile, fStable, revision, issued, fSyncs, fExposed>>
  BY ProcFacts, FeedFacts DEF Sequence!LoadOnce, ProcInv
<1>2. PICK r : r = [fStore[p] EXCEPT !.phase = "ready", !.records = fFile]
  OBVIOUS
<1>3. fStore' = [fStore EXCEPT ![p] = r]
  <2>1. fStore' = [fStore EXCEPT ![p].phase = "ready", ![p].records = fFile]
        /\ fStore \in [Procs -> FeedStores]
    BY DEF Sequence!LoadOnce, FeedInv, FeedTypes
  <2> QED  BY <1>2, <2>1
<1>4. r \in FeedStores /\ r.phase = "ready" /\ r.holds /\ r.records = fFile
  <2>1. fStore[p] \in FeedStores /\ fFile \in [Keys -> Nat]
    BY FeedFacts, FeedDisk
  <2> QED  BY <1>1, <1>2, <2>1 DEF FeedStores
<1>5. FileKeeps
  BY <1>1, FileStays
<1>6. CASE fQueue[p][1] = "init"
  <2>1. Sequence!Settle(p)
    BY <1>1, <1>6 DEF Sequence!LoadOnce
  <2> QED  BY <1>1, <1>3, <1>4, <1>5, <2>1, FeedSettles
<1>7. CASE fQueue[p][1] # "init"
  <2>1. fAt' = [fAt EXCEPT ![p] = "reserve"] /\ fQueue' = fQueue /\ fQueue[p][1] \in Calls
    BY <1>1, <1>7 DEF Sequence!LoadOnce, FeedJobs
  <2>2. ProcInv(p, r, fQueue[p], "reserve", fLock', fFile', fCall)
    BY <1>1, <1>4, <2>1 DEF ProcInv
  <2>3. ~fExposed => Covered(fCall, r.records)
    BY <1>4, FeedDisk
  <2> QED  BY <1>1, <1>3, <1>4, <1>5, <2>1, <2>2, <2>3, FeedInPlace DEF FeedPlaces
<1> QED  BY <1>6, <1>7

LEMMA FeedInitializationFails ==
  ASSUME Sequence!SequenceAssumption, FeedInv, NEW p \in Procs, Sequence!InitializationFails(p)
  PROVE  FeedInv'
<1>1. /\ Len(fQueue[p]) > 0 /\ Sequence!Settle(p) /\ Sequence!Reject(p)
      /\ fLock' = IF fStore[p].holds THEN NoProc ELSE fLock
      /\ UNCHANGED <<fFile, fStable, revision, issued, fSyncs, fExposed>>
  BY ProcFacts DEF Sequence!InitializationFails
<1>2. PICK r : r = [fStore[p] EXCEPT !.phase = "failed", !.holds = FALSE]
  OBVIOUS
<1>3. fStore' = [fStore EXCEPT ![p] = r]
  <2>1. /\ fStore' = [fStore EXCEPT ![p].phase = "failed", ![p].holds = FALSE]
        /\ fStore \in [Procs -> FeedStores]
    BY DEF Sequence!InitializationFails, FeedInv, FeedTypes
  <2> QED  BY <1>2, <2>1
<1>4. r \in FeedStores /\ r.phase = "failed" /\ ~r.holds
  BY <1>2, FeedFacts DEF FeedStores
<1>5. FileKeeps
  BY <1>1, FeedDisk DEF FileKeeps
<1>6. \A j \in Procs \ {p} : fStore[j].holds => fLock' = fLock
  BY <1>1, FeedHolder
<1> QED  BY <1>1, <1>3, <1>4, <1>5, <1>6, FeedSettles

LEMMA FeedReserves ==
  ASSUME Sequence!SequenceAssumption, FeedInv, NEW p \in Procs, Sequence!Reserve(p)
  PROVE  FeedInv'
<1>1. /\ fAt[p] = "reserve" /\ Len(fQueue[p]) > 0
      /\ UNCHANGED <<fStore, fLock, fFile, fStable, revision, issued, fSyncs, fExposed>>
      /\ \/ fAt' = [fAt EXCEPT ![p] = "rename"] /\ UNCHANGED <<fQueue, fCall>>
         \/ Sequence!Reject(p) /\ Sequence!Settle(p)
  BY ProcFacts DEF Sequence!Reserve
<1>2. /\ fStore' = [fStore EXCEPT ![p] = fStore[p]] /\ fStore[p] \in FeedStores
      /\ ~fExposed /\ fStore[p].phase = "ready" => Covered(fCall, fStore[p].records)
  BY <1>1, FeedFacts, FeedSame, FeedDisk
<1>3. FileKeeps
  BY <1>1, FileStays
<1>4. /\ fStore[p].holds => fLock' = p /\ fStore[p].phase \notin {"new", "dead"}
      /\ fStore[p].phase = "ready" => fStore[p].holds /\ fFile = fStore[p].records
      /\ ProcInv(p, fStore[p], fQueue[p], "rename", fLock', fFile', fCall)
  BY <1>1, FeedFacts DEF ProcInv
<1>5. CASE fAt' = [fAt EXCEPT ![p] = "rename"] /\ UNCHANGED <<fQueue, fCall>>
  BY <1>1, <1>2, <1>3, <1>4, <1>5, FeedInPlace DEF FeedPlaces
<1>6. CASE Sequence!Reject(p) /\ Sequence!Settle(p)
  BY <1>1, <1>2, <1>3, <1>4, <1>6, FeedSettles
<1> QED  BY <1>1, <1>5, <1>6

\* The call whose numbers a process is writing, and the records it writes:
\* those in memory, with the key of the call advanced.
Reserving(p, c, n) ==
  /\ c = fQueue[p][1] /\ c = Head(fQueue[p]) /\ Len(fQueue[p]) > 0
  /\ fCall[c] \in FeedCalls /\ fCall[c].key \in Keys
  /\ fCall[c].stage = "queued" /\ fCall[c].proc = p /\ fCall[c].rev <= revision
  /\ fStore[p].phase = "ready" /\ fStore[p].holds /\ fLock = p
  /\ fStore[p].records \in [Keys -> Nat]
  /\ n = [fStore[p].records EXCEPT ![fCall[c].key] = @ + fCall[c].count]
  /\ n \in [Keys -> Nat] /\ n[fCall[c].key] = fStore[p].records[fCall[c].key] + fCall[c].count
  /\ \A k \in Keys : fStore[p].records[k] <= n[k]
  /\ fAt[p] = "sync" => fFile = n
  /\ fAt[p] = "rename" => fFile = fStore[p].records

LEMMA NextFacts ==
  ASSUME FeedInv, NEW p \in Procs, fAt[p] \in {"rename", "sync"}
  PROVE  \E c \in Calls : Reserving(p, c, Sequence!NextRecords(p))
<1>1. ProcInv(p, fStore[p], fQueue[p], fAt[p], fLock, fFile, fCall)
      /\ QueueInv(p, fQueue[p], fCall, revision) /\ fCall \in [Calls -> FeedCalls]
      /\ fStore[p].records \in [Keys -> Nat] /\ fQueue[p] \in Seq(FeedJobs)
  BY FeedFacts, FeedQueueInv, FeedDisk
<1>2. PICK c \in Calls : c = fQueue[p][1]
  BY <1>1 DEF ProcInv
<1>3. Len(fQueue[p]) > 0 /\ c = Head(fQueue[p]) /\ 1 \in 1 .. Len(fQueue[p])
  BY <1>1, <1>2, ProcFacts
<1>4. /\ fCall[c] \in FeedCalls /\ fCall[c].count \in Nat
      /\ fCall[c].stage = "queued" /\ fCall[c].proc = p /\ fCall[c].rev <= revision
  BY <1>1, <1>2, <1>3 DEF QueueInv, FeedCalls
<1>5. fCall[c].key \in Keys
  BY <1>4 DEF FeedInv, CallInv
<1>6. PICK n : n = Sequence!NextRecords(p)
  OBVIOUS
<1>7. n = [fStore[p].records EXCEPT ![fCall[c].key] = @ + fCall[c].count]
  BY <1>3, <1>6 DEF Sequence!NextRecords
<1>8. /\ n \in [Keys -> Nat] /\ n[fCall[c].key] = fStore[p].records[fCall[c].key] + fCall[c].count
      /\ \A k \in Keys : fStore[p].records[k] <= n[k]
  BY <1>1, <1>4, <1>5, <1>7
<1>9. /\ fStore[p].phase = "ready" /\ fStore[p].holds /\ fLock = p
      /\ fAt[p] = "sync" => fFile = n
      /\ fAt[p] = "rename" => fFile = fStore[p].records
  BY <1>1, <1>2, <1>7 DEF ProcInv
<1>10. Reserving(p, c, n)
  BY <1>1, <1>2, <1>3, <1>4, <1>5, <1>7, <1>8, <1>9 DEF Reserving
<1> QED  BY <1>6, <1>10

\* Contents that have no smaller numbers cover no less.
LEMMA CoverGrows ==
  ASSUME FeedInv, NEW f \in [Keys -> Nat], NEW g \in [Keys -> Nat],
         \A k \in Keys : f[k] <= g[k], Covered(fCall, f)
  PROVE  Covered(fCall, g)
<1> SUFFICES ASSUME NEW d \in Calls, GivenOut(fCall[d])
             PROVE  LastOf(fCall[d]) <= g[fCall[d].key]
  BY DEF Covered
<1>1. fCall[d] \in FeedCalls /\ CallInv(fCall[d], revision) /\ fCall[d].stage # "new"
  BY DEF FeedInv, FeedTypes, GivenOut
<1>2. PICK k \in Keys : k = fCall[d].key
  BY <1>1 DEF CallInv
<1>3. LastOf(fCall[d]) <= f[k]
  BY <1>2 DEF Covered
<1>4. PICK l \in Int : l = LastOf(fCall[d])
  BY <1>1 DEF LastOf, FeedCalls
<1>5. f[k] \in Nat /\ g[k] \in Nat /\ f[k] <= g[k]
  OBVIOUS
<1> QED  BY <1>2, <1>3, <1>4, <1>5

LEMMA FeedRenames ==
  ASSUME Sequence!SequenceAssumption, FeedInv, NEW p \in Procs, Sequence!Rename(p)
  PROVE  FeedInv'
<1>1. PICK n : n = Sequence!NextRecords(p)
  OBVIOUS
<1>2. /\ fAt[p] = "rename" /\ fFile' = n /\ fStable' = fStable \cup {n}
      /\ fAt' = [fAt EXCEPT ![p] = "sync"]
      /\ UNCHANGED <<fStore, fQueue, fCall, fLock, revision, issued, fSyncs, fExposed>>
  BY <1>1 DEF Sequence!Rename
<1>3. PICK c \in Calls : Reserving(p, c, n)
  BY <1>1, <1>2, NextFacts
<1>9. /\ c = fQueue[p][1] /\ Len(fQueue[p]) > 0 /\ fCall[c].key \in Keys
      /\ fStore[p].phase = "ready" /\ fStore[p].holds /\ fLock = p
      /\ fStore[p].records \in [Keys -> Nat]
      /\ n \in [Keys -> Nat] /\ \A k \in Keys : fStore[p].records[k] <= n[k]
  BY <1>3 DEF Reserving
<1>10. n = [fStore[p].records EXCEPT ![fCall[c].key] = @ + fCall[c].count]
  BY <1>3 DEF Reserving
<1>4. ~fExposed => Covered(fCall, fStore[p].records) /\ Covered(fCall, n)
  <2>1. ~fExposed => Covered(fCall, fStore[p].records)
    BY <1>9, FeedDisk
  <2>2. Covered(fCall, fStore[p].records) => Covered(fCall, n)
    BY <1>9, CoverGrows
  <2> QED  BY <2>1, <2>2
<1>5. FileKeeps
  <2>1. n \in [Keys -> Nat]
    BY <1>9
  <2> QED  BY <1>2, <1>4, <2>1, FeedDisk DEF FileKeeps
<1>6. ProcInv(p, fStore[p], fQueue[p], "sync", fLock', fFile', fCall)
  BY <1>2, <1>9, <1>10, FeedFacts DEF ProcInv
<1>7. \A j \in Procs \ {p} : ~fStore[j].holds
  BY <1>9, FeedHolder
<1>8. fStore' = [fStore EXCEPT ![p] = fStore[p]] /\ fStore[p] \in FeedStores
  BY <1>2, FeedFacts, FeedSame
<1> QED  BY <1>2, <1>4, <1>5, <1>6, <1>7, <1>8, FeedInPlace DEF FeedPlaces

LEMMA FeedPersistFails ==
  ASSUME Sequence!SequenceAssumption, FeedInv, NEW p \in Procs, Sequence!PersistFails(p)
  PROVE  FeedInv'
<1>1. PICK r : r = [fStore[p] EXCEPT !.phase = "failed"]
  OBVIOUS
<1>2. /\ fAt[p] \in {"rename", "sync"} /\ fStore' = [fStore EXCEPT ![p] = r]
      /\ Sequence!Reject(p) /\ Sequence!Settle(p) /\ Len(fQueue[p]) > 0
      /\ UNCHANGED <<fLock, fFile, fStable, revision, issued, fSyncs, fExposed>>
  BY <1>1, ProcFacts DEF Sequence!PersistFails
<1>3. r \in FeedStores /\ r.phase = "failed" /\ (r.holds => fLock = p)
  BY <1>1, FeedFacts, FeedHolder DEF FeedStores
<1>4. FileKeeps
  BY <1>2, FileStays
<1> QED  BY <1>2, <1>3, <1>4, FeedSettles

LEMMA FeedReleases ==
  ASSUME Sequence!SequenceAssumption, FeedInv, NEW p \in Procs,
         Sequence!ReleaseAuthority(p) \/ Sequence!ReleaseFails(p)
  PROVE  FeedInv'
<1>1. PICK x \in {"failed", "closed"} :
        /\ fStore' = [fStore EXCEPT ![p].phase = x, ![p].holds = FALSE]
        /\ fLock' = IF fLock = p THEN fLock' ELSE fLock
        /\ fLock' \in {fLock, NoProc}
        /\ fAt[p] = "release" /\ Sequence!Settle(p)
        /\ UNCHANGED <<fCall, fFile, fStable, revision, issued, fSyncs, fExposed>>
  <2>1. CASE Sequence!ReleaseAuthority(p)
    <3>1. /\ fLock' = IF fStore[p].holds /\ fLock = p THEN NoProc ELSE fLock
          /\ fStore' = [fStore EXCEPT ![p].holds = FALSE,
                          ![p].phase = IF fStore[p].holds /\ fLock # p THEN "failed" ELSE "closed"]
          /\ fAt[p] = "release" /\ Sequence!Settle(p)
          /\ UNCHANGED <<fCall, fFile, fStable, revision, issued, fSyncs, fExposed>>
      BY <2>1 DEF Sequence!ReleaseAuthority
    <3>2. PICK x \in {"failed", "closed"} :
            x = IF fStore[p].holds /\ fLock # p THEN "failed" ELSE "closed"
      OBVIOUS
    <3>3. fStore \in [Procs -> FeedStores]
      BY DEF FeedInv, FeedTypes
    <3>4. fStore' = [fStore EXCEPT ![p].phase = x, ![p].holds = FALSE]
      BY <3>1, <3>2, <3>3 DEF FeedStores
    <3> QED  BY <3>1, <3>2, <3>4
  <2>2. CASE Sequence!ReleaseFails(p)
    BY <2>2 DEF Sequence!ReleaseFails
  <2> QED  BY <2>1, <2>2
<1>2. PICK r : r = [fStore[p] EXCEPT !.phase = x, !.holds = FALSE]
  OBVIOUS
<1>3. fStore' = [fStore EXCEPT ![p] = r]
  <2>1. fStore \in [Procs -> FeedStores]
    BY DEF FeedInv, FeedTypes
  <2> QED  BY <1>1, <1>2, <2>1
<1>4. r \in FeedStores /\ r.phase = x /\ ~r.holds
  BY <1>2, FeedFacts DEF FeedStores
<1>5. FileKeeps
  BY <1>1, FeedDisk DEF FileKeeps
<1>6. Len(fQueue[p]) > 0
  BY <1>1, ProcFacts
<1>7. \A j \in Procs \ {p} : fStore[j].holds => fLock' = fLock
  BY <1>1, FeedHolder
<1> QED  BY <1>1, <1>3, <1>4, <1>5, <1>6, <1>7, FeedSettles

\* The directory is synchronised: the call at the head gets the numbers that
\* follow those in memory, and the memory moves on.
LEMMA FeedReserved ==
  ASSUME Sequence!SequenceAssumption, FeedInv, NEW p \in Procs, Sequence!Reserved(p)
  PROVE  FeedInv'
<1>1. PICK n : n = Sequence!NextRecords(p)
  OBVIOUS
<1>2. fAt[p] = "sync"
  BY DEF Sequence!Reserved
<1>3. PICK c \in Calls : Reserving(p, c, n)
  BY <1>1, <1>2, NextFacts
<1>4. PICK r : r = [fStore[p] EXCEPT !.records = n]
  OBVIOUS
<1>5. PICK x : x = [fCall[c] EXCEPT !.stage = "signing",
                                    !.first = fStore[p].records[fCall[c].key] + 1]
  OBVIOUS
<1>6. PICK q : q = Tail(fQueue[p])
  OBVIOUS
<1>7. /\ fStore \in [Procs -> FeedStores] /\ fQueue \in [Procs -> Seq(FeedJobs)]
      /\ fAt \in [Procs -> FeedPlaces] /\ fCall \in [Calls -> FeedCalls] /\ revision \in Nat
      /\ fFile \in [Keys -> Nat] /\ fStable \subseteq [Keys -> Nat]
  BY DEF FeedInv, FeedTypes
<1>8. /\ fStore' = [fStore EXCEPT ![p] = r] /\ fCall' = [fCall EXCEPT ![c] = x]
      /\ fQueue' = [fQueue EXCEPT ![p] = q] /\ fAt' = [fAt EXCEPT ![p] = "idle"]
      /\ fStable' = Sequence!ConfirmDirectorySync(fFile)
      /\ UNCHANGED <<fLock, fFile, revision, issued, fSyncs, fExposed>>
  <2>1. c = Head(fQueue[p])
    BY <1>3 DEF Reserving
  <2>2. /\ fStore' = [fStore EXCEPT ![p].records = n]
        /\ fCall' = [fCall EXCEPT ![c].stage = "signing",
                                  ![c].first = fStore[p].records[fCall[c].key] + 1]
    BY <1>1, <2>1 DEF Sequence!Reserved
  <2> QED  BY <1>4, <1>5, <1>6, <1>7, <2>2 DEF Sequence!Reserved, Sequence!Settle
<1>9. /\ fStore'[p] = r /\ fQueue'[p] = q /\ fAt'[p] = "idle" /\ fCall'[c] = x
      /\ \A j \in Procs \ {p} : fStore'[j] = fStore[j] /\ fQueue'[j] = fQueue[j] /\ fAt'[j] = fAt[j]
      /\ \A d \in Calls \ {c} : fCall'[d] = fCall[d]
  BY <1>7, <1>8
<1>10. /\ fCall[c] \in FeedCalls /\ fCall[c].key \in Keys /\ fCall[c].count \in Nat
       /\ fCall[c].stage = "queued" /\ fCall[c].proc = p /\ fCall[c].rev <= revision
       /\ fStore[p].phase = "ready" /\ fStore[p].holds /\ fLock = p
       /\ fStore[p].records \in [Keys -> Nat] /\ fStore[p].records[fCall[c].key] \in Nat
       /\ n \in [Keys -> Nat] /\ n[fCall[c].key] = fStore[p].records[fCall[c].key] + fCall[c].count
       /\ \A k \in Keys : fStore[p].records[k] <= n[k]
       /\ fFile = n /\ c = fQueue[p][1] /\ Len(fQueue[p]) > 0
  BY <1>2, <1>3 DEF Reserving, FeedCalls
<1>11. /\ x \in FeedCalls /\ x.stage = "signing" /\ x.key = fCall[c].key /\ x.count = fCall[c].count
       /\ x.rev = fCall[c].rev /\ x.proc = p /\ x.first = fStore[p].records[fCall[c].key] + 1
  <2>1. PICK m \in Nat : m = fStore[p].records[fCall[c].key]
    BY <1>10
  <2>2. x = [fCall[c] EXCEPT !.stage = "signing", !.first = m + 1] /\ m + 1 \in Nat
    BY <1>5, <2>1
  <2>3. fCall[c] \in FeedCalls
    BY <1>10
  <2>4. x \in FeedCalls /\ x.stage = "signing" /\ x.key = fCall[c].key /\ x.count = fCall[c].count
        /\ x.rev = fCall[c].rev /\ x.proc = fCall[c].proc /\ x.first = m + 1
    BY <2>2, <2>3 DEF FeedCalls
  <2>5. fCall[c].proc = p
    BY <1>10
  <2> QED  BY <2>1, <2>4, <2>5, Zenon
<1>12. /\ r \in FeedStores /\ r.phase = "ready" /\ r.holds /\ r.records = n
  <2>1. fStore[p] \in FeedStores
    BY <1>7
  <2>2. fStore[p].phase = "ready" /\ fStore[p].holds /\ n \in [Keys -> Nat]
    BY <1>10
  <2> QED  BY <1>4, <2>1, <2>2 DEF FeedStores
<1>13. GivenOut(x) /\ LastOf(x) = n[x.key] /\ n[x.key] \in Nat
  <2>1. PICK m \in Nat, k \in Nat : m = fStore[p].records[fCall[c].key] /\ k = fCall[c].count
    BY <1>10
  <2>2. n[x.key] = m + k /\ x.first = m + 1 /\ x.count = k
    BY <1>10, <1>11, <2>1
  <2>3. LastOf(x) = (m + 1) + k - 1
    BY <2>2 DEF LastOf
  <2> QED  BY <1>11, <2>1, <2>2, <2>3 DEF GivenOut
<1>14. /\ fQueue[p] \in Seq(FeedJobs) /\ q \in Seq(FeedJobs) /\ Len(q) = Len(fQueue[p]) - 1
       /\ \A i \in 1 .. Len(q) : /\ q[i] = fQueue[p][i + 1] /\ i + 1 \in 1 .. Len(fQueue[p]) /\ 1 < i + 1
                                 /\ q[i] \in Calls => q[i] # c
       /\ \A i, j \in 1 .. Len(q) : i < j => i + 1 < j + 1
  <2>1. /\ fQueue[p] \in Seq(FeedJobs) /\ q \in Seq(FeedJobs) /\ Len(q) = Len(fQueue[p]) - 1
        /\ \A i \in 1 .. (Len(fQueue[p]) - 1) : q[i] = fQueue[p][i + 1]
    BY <1>6, <1>7, <1>10, FeedQueues
  <2>2. \A i \in 1 .. Len(q) : q[i] = fQueue[p][i + 1] /\ i + 1 \in 1 .. Len(fQueue[p]) /\ 1 < i + 1
    BY <2>1
  <2>3. QueueInv(p, fQueue[p], fCall, revision) /\ 1 \in 1 .. Len(fQueue[p])
    BY <2>1, <1>10, FeedQueueInv
  <2>4. \A i \in 1 .. Len(q) : q[i] \in Calls => q[i] # c
    <3> SUFFICES ASSUME NEW i \in 1 .. Len(q), q[i] \in Calls
                 PROVE  q[i] # c
      OBVIOUS
    <3>1. q[i] = fQueue[p][i + 1] /\ i + 1 \in 1 .. Len(fQueue[p]) /\ 1 < i + 1
      BY <2>2
    <3>2. fQueue[p][1] \in Calls /\ fQueue[p][1] = c
      BY <1>10
    <3>3. fQueue[p][1] # fQueue[p][i + 1]
      BY <2>3, <3>1, <3>2 DEF QueueInv
    <3> QED  BY <3>1, <3>2, <3>3
  <2>5. \A i, j \in 1 .. Len(q) : i < j => i + 1 < j + 1
    BY <2>1
  <2> QED  BY <2>1, <2>2, <2>4, <2>5
<1>15. QueueInv(p, q, fCall', revision)
  <2>1. QueueInv(p, fQueue[p], fCall, revision) /\ 1 \in 1 .. Len(fQueue[p])
    BY <1>10, <1>14, FeedQueueInv
  <2>2. \A i \in 1 .. Len(q) : q[i] \in Calls => fCall'[q[i]] = fCall[q[i]]
    BY <1>9, <1>14
  <2>3. \A i \in 1 .. Len(q) : q[i] \in Calls =>
          fCall'[q[i]].stage = "queued" /\ fCall'[q[i]].proc = p /\ fCall'[q[i]].rev <= revision
    BY <1>14, <2>1, <2>2 DEF QueueInv
  <2>4. \A i, j \in 1 .. Len(q) : i < j /\ q[i] \in Calls /\ q[j] \in Calls =>
          q[i] # q[j] /\ fCall'[q[i]].rev <= fCall'[q[j]].rev
    <3> SUFFICES ASSUME NEW i \in 1 .. Len(q), NEW j \in 1 .. Len(q), i < j,
                        q[i] \in Calls, q[j] \in Calls
                 PROVE  q[i] # q[j] /\ fCall'[q[i]].rev <= fCall'[q[j]].rev
      OBVIOUS
    <3>1. /\ q[i] = fQueue[p][i + 1] /\ i + 1 \in 1 .. Len(fQueue[p])
          /\ q[j] = fQueue[p][j + 1] /\ j + 1 \in 1 .. Len(fQueue[p]) /\ i + 1 < j + 1
      BY <1>14
    <3>2. q[i] # q[j] /\ fCall[q[i]].rev <= fCall[q[j]].rev
      BY <2>1, <3>1 DEF QueueInv
    <3> QED  BY <2>2, <3>2
  <2>5. ASSUME NEW i \in 1 .. Len(q), NEW d \in Calls, q[i] \in Calls, GivenOut(fCall'[d]),
               fCall'[d].proc = p
        PROVE  fCall'[d].rev <= fCall'[q[i]].rev
    <3>1. CASE d = c
      <4>1. fCall[c].rev <= fCall[q[i]].rev
        <5>1. c = fQueue[p][1] /\ c \in Calls
          BY <1>10
        <5>2. q[i] = fQueue[p][i + 1] /\ i + 1 \in 1 .. Len(fQueue[p]) /\ 1 < i + 1
          BY <1>14
        <5> QED  BY <2>1, <2>5, <5>1, <5>2 DEF QueueInv
      <4> QED  BY <1>9, <1>11, <2>2, <2>5, <3>1, <4>1
    <3>2. CASE d # c
      <4>1. q[i] = fQueue[p][i + 1] /\ i + 1 \in 1 .. Len(fQueue[p])
        BY <1>14
      <4>2. fCall'[d] = fCall[d] /\ fCall'[q[i]] = fCall[q[i]]
        BY <1>9, <2>2, <2>5, <3>2
      <4> QED  BY <2>1, <2>5, <4>1, <4>2 DEF QueueInv
    <3> QED  BY <3>1, <3>2
  <2> QED  BY <2>3, <2>4, <2>5 DEF QueueInv
<1>16. ProcInv(p, r, q, "idle", fLock', fFile', fCall')
  BY <1>8, <1>10, <1>12 DEF ProcInv
<1>17. ASSUME NEW j \in Procs \ {p}
       PROVE  /\ ProcInv(j, fStore'[j], fQueue'[j], fAt'[j], fLock', fFile', fCall')
              /\ QueueInv(j, fQueue'[j], fCall', revision')
  <2>1. /\ ProcInv(j, fStore[j], fQueue[j], fAt[j], fLock, fFile, fCall)
        /\ QueueInv(j, fQueue[j], fCall, revision) /\ j # p
    BY FeedFacts, FeedQueueInv
  <2>2. ~fStore[j].holds
    BY <1>10, <2>1 DEF ProcInv
  <2>3. ProcInv(j, fStore[j], fQueue[j], fAt[j], fLock, fFile, fCall')
    BY <2>1, <2>2 DEF ProcInv
  <2>4. \A i \in 1 .. Len(fQueue[j]) : fQueue[j][i] \in Calls => fQueue[j][i] # c
    BY <1>10, <2>1 DEF QueueInv
  <2>5. QueueInv(j, fQueue[j], fCall', revision)
    BY <1>9, <1>11, <2>1, <2>4 DEF QueueInv
  <2> QED  BY <1>8, <1>9, <2>3, <2>5
<1>18. FeedTypes'
  <2>1. fStable' \subseteq [Keys -> Nat]
    BY <1>7, <1>8 DEF Sequence!ConfirmDirectorySync
  <2>2. fStore' \in [Procs -> FeedStores] /\ fCall' \in [Calls -> FeedCalls]
    BY <1>7, <1>8, <1>11, <1>12
  <2>3. fQueue' \in [Procs -> Seq(FeedJobs)] /\ fAt' \in [Procs -> FeedPlaces]
    BY <1>7, <1>8, <1>14 DEF FeedPlaces
  <2> QED  BY <1>7, <1>8, <2>1, <2>2, <2>3 DEF FeedInv, FeedTypes
<1>19. \A d \in Calls : CallInv(fCall'[d], revision')
  <2>1. CallInv(x, revision)
    <3>1. CallInv(fCall[c], revision)
      BY DEF FeedInv
    <3> QED  BY <1>10, <1>11, <3>1 DEF CallInv
  <2> QED  BY <1>8, <1>9, <2>1 DEF FeedInv
<1>20. IssuedInv(issued', fCall')
  <2>1. \A e \in issued : e.call \in Calls /\ e.call # c
    BY <1>10 DEF FeedInv, IssuedInv
  <2> QED  BY <1>8, <1>9, <2>1 DEF FeedInv, IssuedInv
<1>21. ASSUME ~fExposed
       PROVE  FreshInv(fStore', fCall', fFile', fStable', fSyncs')
  <2>1. Covered(fCall, fStore[p].records) /\ Covered(fCall, n)
        /\ (fSyncs => \A d \in fStable : Covered(fCall, d))
    BY <1>10, <1>21, FeedDisk
  <2>2. Covered(fCall', n)
    BY <1>9, <1>13, <2>1 DEF Covered
  <2>3. fSyncs' => \A d \in fStable' : Covered(fCall', d)
    BY <1>8, <1>10, <2>2 DEF Sequence!ConfirmDirectorySync
  <2>4. ASSUME NEW j \in Procs, fStore'[j].phase = "ready"
        PROVE  Covered(fCall', fStore'[j].records)
    <3>1. CASE j = p
      BY <1>9, <1>12, <2>2, <3>1
    <3>2. CASE j # p
      <4>1. fStore[j].phase = "ready" /\ ProcInv(j, fStore[j], fQueue[j], fAt[j], fLock, fFile, fCall)
        BY <1>9, <2>4, <3>2, FeedFacts
      <4>2. fLock = j
        BY <4>1 DEF ProcInv
      <4> QED  BY <1>10, <3>2, <4>2
    <3> QED  BY <3>1, <3>2
  <2>5. ASSUME NEW d \in Calls, d # c
        PROVE  Apart(x, fCall[d]) /\ Apart(fCall[d], x)
    <3> SUFFICES ASSUME GivenOut(fCall[d]), fCall[d].key = x.key
                 PROVE  Apart(x, fCall[d]) /\ Apart(fCall[d], x)
      BY DEF Apart
    <3>1. fCall[d] \in FeedCalls /\ fCall[d].first \in Nat /\ fCall[d].count \in Nat
          /\ fCall[d].rev \in Nat
      <4>1. fCall[d] \in FeedCalls
        BY <1>7
      <4> QED  BY <4>1 DEF FeedCalls
    <3>2. fCall[d].count > 0 /\ x.count > 0
      <4>1. CallInv(fCall[d], revision) /\ CallInv(fCall[c], revision)
        BY DEF FeedInv
      <4>2. fCall[d].stage # "new"
        BY DEF GivenOut
      <4>3. fCall[c].stage # "new" /\ x.count = fCall[c].count
        <5>1. fCall[c].stage = "queued"
          BY <1>10
        <5>2. x.count = fCall[c].count
          BY <1>11
        <5> QED  BY <5>1, <5>2
      <4> QED  BY <4>1, <4>2, <4>3 DEF CallInv
    <3>3. LastOf(fCall[d]) <= fStore[p].records[x.key]
      BY <2>1 DEF Covered
    <3>7. PICK m \in Nat, a \in Nat, b \in Nat, k \in Nat :
            /\ m = fStore[p].records[x.key] /\ k = x.count
            /\ a = fCall[d].first /\ b = fCall[d].count
      BY <1>10, <1>11, <3>1
    <3>8. /\ LastOf(x) = (m + 1) + k - 1 /\ LastOf(fCall[d]) = a + b - 1 /\ x.first = m + 1
          /\ k > 0 /\ b > 0 /\ a + b - 1 <= m
      <4>1. x.first = m + 1
        BY <1>11, <3>7
      <4> QED  BY <3>2, <3>3, <3>7, <4>1 DEF LastOf
    <3>9. m \in Int /\ a \in Int /\ b \in Int /\ k \in Int /\ ~((m + 1) + k - 1 < a)
      BY <3>7, <3>8
    <3>4. LastOf(fCall[d]) < x.first /\ fCall[d].first <= LastOf(fCall[d])
      BY <3>7, <3>8
    <3>5. ~(LastOf(x) < fCall[d].first)
      BY <3>7, <3>8, <3>9
    <3>6. fCall[d].proc = p => fCall[d].rev <= x.rev
      <4>1. QueueInv(p, fQueue[p], fCall, revision) /\ 1 \in 1 .. Len(fQueue[p])
        BY <1>10, <1>14, FeedFacts, FeedQueueInv
      <4>2. c = fQueue[p][1]
        BY <1>10
      <4>3. x.rev = fCall[c].rev
        BY <1>11
      <4> QED  BY <4>1, <4>2, <4>3 DEF QueueInv
    <3> QED  BY <1>11, <3>4, <3>5, <3>6 DEF Apart
  <2>6. \A d, e \in Calls : d # e => Apart(fCall[d], fCall[e])
    BY <1>21 DEF FeedInv, FreshInv
  <2>7. \A d, e \in Calls : d # e => Apart(fCall'[d], fCall'[e])
    BY <1>9, <2>5, <2>6
  <2> QED  BY <1>8, <1>10, <2>2, <2>3, <2>4, <2>7 DEF FreshInv
<1>22. FeedProcs'
  BY <1>8, <1>9, <1>15, <1>16, <1>17 DEF FeedProcs
<1> QED  BY <1>8, <1>18, <1>19, <1>20, <1>21, <1>22 DEF FeedInv

LEMMA FeedSigns ==
  ASSUME Sequence!SequenceAssumption, FeedInv, NEW c \in Calls, Sequence!Signed(c)
  PROVE  FeedInv'
<1>1. PICK x : x = [fCall[c] EXCEPT !.stage = "issued"]
  OBVIOUS
<1>2. /\ fCall[c].stage = "signing" /\ fCall' = [fCall EXCEPT ![c] = x]
      /\ UNCHANGED <<fStore, fQueue, fAt, fLock, fFile, fStable, revision, fSyncs, fExposed>>
  BY <1>1 DEF Sequence!Signed
<1>3. fCall \in [Calls -> FeedCalls] /\ fCall[c] \in FeedCalls /\ CallInv(fCall[c], revision)
  BY DEF FeedInv, FeedTypes
<1>4. /\ x \in FeedCalls /\ x.stage = "issued" /\ x.key = fCall[c].key /\ x.first = fCall[c].first
      /\ x.count = fCall[c].count /\ x.rev = fCall[c].rev /\ x.proc = fCall[c].proc
  BY <1>1, <1>3 DEF FeedCalls
<1>5. fCall' \in [Calls -> FeedCalls] /\ fCall'[c] = x /\ \A d \in Calls \ {c} : fCall'[d] = fCall[d]
  BY <1>2, <1>3, <1>4
<1>6. CallsKept
  <2>1. Calm
    BY <1>2, <1>4, <1>5 DEF Calm, GivenOut
  <2>2. CallInv(x, revision)
    BY <1>2, <1>3, <1>4 DEF CallInv, GivenOut
  <2> QED  BY <1>5, <2>1, <2>2 DEF CallsKept, FeedInv
<1>7. ASSUME NEW p \in Procs
      PROVE  QueuedKept(p, 1)
  <2>1. QueueInv(p, fQueue[p], fCall, revision)
    BY FeedQueueInv
  <2> QED  BY <1>2, <1>5, <2>1 DEF QueuedKept, QueueInv
<1>8. FeedProcs'
  <2> SUFFICES ASSUME NEW p \in Procs
               PROVE  /\ ProcInv(p, fStore[p], fQueue[p], fAt[p], fLock, fFile, fCall')
                      /\ QueueInv(p, fQueue[p], fCall', revision')
    BY <1>2 DEF FeedProcs
  <2>1. fAt[p] = "sync" => fCall'[fQueue[p][1]] = fCall[fQueue[p][1]]
    BY <1>7, HeadStays
  <2> QED  BY <1>2, <1>6, <1>7, <2>1, QueueStays, FeedFacts DEF ProcInv
<1>9. FeedTypes'
  BY <1>2, <1>5 DEF FeedInv, FeedTypes
<1>10. ~fExposed' => FreshInv(fStore, fCall, fFile, fStable, fSyncs)'
  <2>1. ~fExposed' => /\ Covered(fCall, fFile') /\ (fSyncs => \A d \in fStable' : Covered(fCall, d))
                      /\ \A p \in Procs : fStore'[p].phase = "ready" =>
                           Covered(fCall, fStore'[p].records)
    BY <1>2 DEF FeedInv, FreshInv
  <2> QED  BY <1>2, <1>6, <2>1, CalmIsFresh DEF CallsKept
<1>11. IssuedInv(issued', fCall')
  <2> SUFFICES ASSUME NEW e \in issued'
               PROVE  /\ e.call \in Calls /\ fCall'[e.call].stage = "issued"
                      /\ e = [key |-> fCall'[e.call].key, seq |-> e.seq, rev |-> fCall'[e.call].rev,
                              call |-> e.call]
                      /\ e.seq \in fCall'[e.call].first .. LastOf(fCall'[e.call])
    BY DEF IssuedInv
  <2>1. CASE e \in issued
    BY <1>6, <2>1 DEF FeedInv, IssuedInv, CallsKept, Calm
  <2>2. CASE e \notin issued
    <3>1. PICK q \in fCall[c].first .. (fCall[c].first + fCall[c].count - 1) :
            e = [key |-> fCall[c].key, seq |-> q, rev |-> fCall[c].rev, call |-> c]
      BY <2>2 DEF Sequence!Signed
    <3>2. e.call = c /\ e.seq = q /\ q \in fCall[c].first .. LastOf(fCall[c])
      BY <3>1 DEF LastOf
    <3> QED  BY <1>4, <1>5, <3>1, <3>2 DEF LastOf
  <2> QED  BY <2>1, <2>2
<1> QED  BY <1>2, <1>6, <1>8, <1>9, <1>10, <1>11 DEF FeedInv, CallsKept

LEMMA FeedProductionChanges ==
  ASSUME FeedInv, Sequence!ProductionChanges
  PROVE  FeedInv'
<1>1. /\ revision' = revision + 1 /\ revision \in Nat
      /\ UNCHANGED <<fStore, fQueue, fAt, fCall, fLock, fFile, fStable, issued, fSyncs, fExposed>>
  BY DEF Sequence!ProductionChanges, FeedInv, FeedTypes
<1>2. \A c \in Calls : fCall[c].rev \in Nat
  BY DEF FeedInv, FeedTypes, FeedCalls
<1>3. FeedProcs'
  <2> SUFFICES ASSUME NEW p \in Procs
               PROVE  QueueInv(p, fQueue[p], fCall, revision')
    BY <1>1 DEF FeedProcs, FeedInv
  <2>1. QueueInv(p, fQueue[p], fCall, revision)
    BY FeedQueueInv
  <2> QED  BY <1>1, <1>2, <2>1 DEF QueueInv
<1>4. \A c \in Calls : CallInv(fCall[c], revision')
  BY <1>1, <1>2 DEF FeedInv, CallInv
<1> QED  BY <1>1, <1>3, <1>4 DEF FeedInv, FeedTypes

\* Processes die: their calls that were not issued are lost, and the file is
\* what it was, or what the disk shows when no process holds the marker.
LEMMA FeedDies ==
  ASSUME Sequence!SequenceAssumption, FeedInv, NEW ps \in SUBSET Procs, Sequence!Die(ps),
         UNCHANGED <<revision, issued, fSyncs>>, fExposed' \in BOOLEAN, fExposed => fExposed',
         fLock' \in Procs \cup {NoProc}, fFile' \in [Keys -> Nat], fStable' \subseteq [Keys -> Nat],
         ~fExposed' => /\ Covered(fCall, fFile')
                       /\ fSyncs => \A d \in fStable' : Covered(fCall, d),
         \A j \in Procs \ ps : fStore[j].holds => fLock' = fLock /\ fFile' = fFile
  PROVE  FeedInv'
<1>1. PICK r : r = [Sequence!Fresh EXCEPT !.phase = "dead"]
  OBVIOUS
<1>2. r \in FeedStores /\ r.phase = "dead" /\ ~r.holds
  BY <1>1 DEF Sequence!Fresh, Sequence!Zero, FeedStores
<1>3. /\ fStore' = [p \in Procs |-> IF p \in ps THEN r ELSE fStore[p]]
      /\ fQueue' = [p \in Procs |-> IF p \in ps THEN <<>> ELSE fQueue[p]]
      /\ fAt' = [p \in Procs |-> IF p \in ps THEN "idle" ELSE fAt[p]]
  BY <1>1 DEF Sequence!Die
<1>4. fCall \in [Calls -> FeedCalls]
  BY DEF FeedInv, FeedTypes
<1>5. ASSUME NEW c \in Calls
      PROVE  /\ fCall'[c] \in FeedCalls
             /\ fCall'[c].key = fCall[c].key /\ fCall'[c].first = fCall[c].first
             /\ fCall'[c].count = fCall[c].count /\ fCall'[c].rev = fCall[c].rev
             /\ fCall'[c].proc = fCall[c].proc
             /\ fCall'[c].stage = fCall[c].stage \/ fCall'[c].stage = "refused"
             /\ fCall[c].stage = "issued" \/ fCall[c].proc \notin ps => fCall'[c] = fCall[c]
             /\ fCall'[c] = fCall[c] \/ fCall[c].proc \in ps
  <2>1. PICK y : y = [fCall[c] EXCEPT !.stage = "refused"]
    OBVIOUS
  <2>2. fCall'[c] = IF fCall[c].proc \in ps /\ fCall[c].stage # "issued" THEN y ELSE fCall[c]
    BY <2>1 DEF Sequence!Die
  <2>3. fCall[c] \in FeedCalls
    BY <1>4
  <2>4. /\ y \in FeedCalls /\ y.stage = "refused" /\ y.key = fCall[c].key /\ y.first = fCall[c].first
        /\ y.count = fCall[c].count /\ y.rev = fCall[c].rev /\ y.proc = fCall[c].proc
    BY <2>1, <2>3 DEF FeedCalls
  <2> QED  BY <2>2, <2>3, <2>4
<1>6. CallsKept
  <2>1. fCall' \in [Calls -> FeedCalls]
    BY <1>5 DEF Sequence!Die
  <2>2. Calm
    BY <1>5 DEF Calm, GivenOut
  <2>3. ASSUME NEW c \in Calls
        PROVE  CallInv(fCall'[c], revision)
    <3>1. CallInv(fCall[c], revision)
      BY DEF FeedInv
    <3> QED  BY <1>5, <3>1 DEF CallInv, GivenOut
  <2> QED  BY <2>1, <2>2, <2>3 DEF CallsKept
<1>7. ASSUME NEW p \in Procs
      PROVE  /\ ProcInv(p, fStore'[p], fQueue'[p], fAt'[p], fLock', fFile', fCall')
             /\ QueueInv(p, fQueue'[p], fCall', revision')
  <2>1. CASE p \in ps
    <3>1. fStore'[p] = r /\ fQueue'[p] = <<>> /\ fAt'[p] = "idle"
      BY <1>3, <2>1
    <3>2. Len(<<>>) = 0
      OBVIOUS
    <3> QED  BY <1>2, <3>1, <3>2 DEF ProcInv, QueueInv
  <2>2. CASE p \notin ps
    <3>1. fStore'[p] = fStore[p] /\ fQueue'[p] = fQueue[p] /\ fAt'[p] = fAt[p]
      BY <1>3, <2>2
    <3>2. QueuedKept(p, 1)
      <4>1. QueueInv(p, fQueue[p], fCall, revision)
        BY FeedQueueInv
      <4> QED  BY <1>5, <2>2, <4>1 DEF QueuedKept, QueueInv
    <3>3. fAt[p] = "sync" => fCall'[fQueue[p][1]] = fCall[fQueue[p][1]]
      BY <3>2, HeadStays
    <3>4. fStore[p].holds => fLock' = fLock /\ fFile' = fFile
      BY <2>2
    <3>5. ProcInv(p, fStore[p], fQueue[p], fAt[p], fLock', fFile', fCall')
      BY <3>3, <3>4, FeedFacts DEF ProcInv
    <3> QED  BY <1>6, <3>1, <3>2, <3>5, QueueStays
  <2> QED  BY <2>1, <2>2
<1>8. FeedTypes'
  <2>1. fStore' \in [Procs -> FeedStores] /\ fAt' \in [Procs -> FeedPlaces]
    BY <1>2, <1>3 DEF FeedInv, FeedTypes, FeedPlaces
  <2>2. fQueue' \in [Procs -> Seq(FeedJobs)]
    <3>1. <<>> \in Seq(FeedJobs)
      OBVIOUS
    <3> QED  BY <1>3, <3>1 DEF FeedInv, FeedTypes
  <2> QED  BY <1>6, <2>1, <2>2 DEF FeedInv, FeedTypes, CallsKept
<1>9. ~fExposed' => FreshInv(fStore, fCall, fFile, fStable, fSyncs)'
  <2>1. ASSUME ~fExposed', NEW p \in Procs, fStore'[p].phase = "ready"
        PROVE  Covered(fCall, fStore'[p].records)
    BY <1>2, <1>3, <2>1 DEF FeedInv, FreshInv
  <2> QED  BY <1>6, <2>1, CalmIsFresh DEF CallsKept
<1>10. IssuedInv(issued', fCall')
  BY <1>6, CalmIssues DEF CallsKept
<1> QED  BY <1>6, <1>7, <1>8, <1>9, <1>10 DEF FeedInv, FeedProcs, CallsKept

LEMMA FeedCrashes ==
  ASSUME Sequence!SequenceAssumption, FeedInv,
         (\E p \in Procs : Sequence!Crash(p)) \/ Sequence!PowerLoss
  PROVE  FeedInv'
<1>1. /\ fLock \in Procs \cup {NoProc} /\ fFile \in [Keys -> Nat] /\ fStable \subseteq [Keys -> Nat]
      /\ fSyncs \in BOOLEAN /\ fExposed \in BOOLEAN
      /\ ~fExposed => /\ Covered(fCall, fFile)
                      /\ fSyncs => \A d \in fStable : Covered(fCall, d)
  BY DEF FeedInv, FeedTypes, FreshInv
<1>2. CASE \E p \in Procs : Sequence!Crash(p)
  <2>1. PICK p \in Procs : Sequence!Crash(p)
    BY <1>2
  <2>2. /\ Sequence!Die({p}) /\ {p} \in SUBSET Procs
        /\ UNCHANGED <<fLock, fFile, fStable, revision, issued, fSyncs, fExposed>>
    BY <2>1 DEF Sequence!Crash
  <2> QED  BY <1>1, <2>2, FeedDies
<1>3. CASE Sequence!PowerLoss
  <2>1. PICK ps \in SUBSET Procs : ps = {p \in Procs : fStore[p].phase # "new"}
    OBVIOUS
  <2>2. PICK f \in fStable : fFile' = f /\ fStable' = {f}
    BY <1>3 DEF Sequence!PowerLoss
  <2>3. /\ Sequence!Die(ps) /\ fLock' \in {fLock, NoProc} /\ fExposed' = (fExposed \/ ~fSyncs)
        /\ UNCHANGED <<revision, issued, fSyncs>>
    BY <1>3, <2>1 DEF Sequence!PowerLoss
  <2>4. \A j \in Procs \ ps : ~fStore[j].holds
    BY <2>1, FeedFacts DEF ProcInv
  <2> QED  BY <1>1, <2>2, <2>3, <2>4, FeedDies
<1> QED  BY <1>2, <1>3

\* The marker is cleared only when nobody who is alive holds it.
LEMMA FeedOperatorClears ==
  ASSUME Sequence!SequenceAssumption, FeedInv, Sequence!OperatorClears
  PROVE  FeedInv'
<1>1. /\ fLock # NoProc /\ ~(Sequence!Alive(fLock) /\ fStore[fLock].holds) /\ fLock' = NoProc
      /\ UNCHANGED <<fStore, fQueue, fAt, fCall, fFile, fStable, revision, issued, fSyncs, fExposed>>
  BY DEF Sequence!OperatorClears
<1>2. PICK p \in Procs : p = fLock
  BY <1>1 DEF FeedInv, FeedTypes
<1>3. ~fStore[p].holds
  <2>1. fStore[p].holds => fStore[p].phase # "dead"
    BY FeedFacts DEF ProcInv
  <2> QED  BY <1>1, <1>2, <2>1 DEF Sequence!Alive
<1>4. \A j \in Procs : ~fStore[j].holds
  BY <1>2, <1>3, FeedHolder
<1>5. ProcInv(p, fStore[p], fQueue[p], fAt[p], fLock', fFile', fCall)
  BY <1>1, <1>3, FeedFacts DEF ProcInv
<1>6. FileKeeps
  BY <1>1, FeedDisk DEF FileKeeps
<1>7. /\ fStore' = [fStore EXCEPT ![p] = fStore[p]] /\ fAt' = [fAt EXCEPT ![p] = fAt[p]]
      /\ fStore[p] \in FeedStores /\ fAt[p] \in FeedPlaces
      /\ ~fExposed /\ fStore[p].phase = "ready" => Covered(fCall, fStore[p].records)
  BY <1>1, FeedFacts, FeedSame, FeedDisk
<1> QED  BY <1>1, <1>4, <1>5, <1>6, <1>7, FeedInPlace

LEMMA FeedSteps ==
  ASSUME Sequence!SequenceAssumption, FeedInv, [Sequence!Next]_(Sequence!vars)
  PROVE  FeedInv'
<1>1. CASE UNCHANGED Sequence!vars
  BY <1>1 DEF Sequence!vars, FeedInv, FeedTypes, FeedProcs
<1>2. ASSUME NEW p \in Procs, Sequence!ProcStep(p)
      PROVE  FeedInv'
  BY <1>2, FeedRuns, FeedPrepares, FeedAcquires, FeedLoads, FeedReserves, FeedRenames,
     FeedReserved, FeedReleases DEF Sequence!ProcStep
<1>3. ASSUME NEW c \in Calls, Sequence!CallStep(c) \/ Sequence!SigningFails(c)
      PROVE  FeedInv'
  BY <1>3, FeedCallsMove, FeedAuthenticates, FeedSigns DEF Sequence!CallStep
<1>4. CASE Sequence!Next
  BY <1>2, <1>3, <1>4, FeedQueued, FeedInitializationFails, FeedPersistFails, FeedReleases,
     FeedCrashes, FeedCallsMove, FeedProductionChanges, FeedOperatorClears DEF Sequence!Next
<1> QED  BY <1>1, <1>4

LEMMA FeedFresh == FeedInv => SequencesAreFresh
<1> SUFFICES ASSUME FeedInv, ~fExposed
             PROVE  /\ \A e, f \in issued : e.key = f.key =>
                         /\ e.seq = f.seq => e = f
                         /\ fCall[e.call].proc = fCall[f.call].proc /\ e.seq < f.seq => e.rev <= f.rev
                    /\ \A e \in issued :
                         /\ e.seq <= fFile[e.key]
                         /\ fSyncs => \A d \in fStable : e.seq <= d[e.key]
  BY DEF SequencesAreFresh, Sequence!SequencesAreFresh
<1>1. ASSUME NEW e \in issued
      PROVE  /\ e.call \in Calls /\ GivenOut(fCall[e.call])
             /\ e = [key |-> fCall[e.call].key, seq |-> e.seq, rev |-> fCall[e.call].rev, call |-> e.call]
             /\ e.seq \in fCall[e.call].first .. LastOf(fCall[e.call])
             /\ fCall[e.call].first \in Nat /\ LastOf(fCall[e.call]) \in Int
             /\ fCall[e.call].rev \in Nat /\ fCall[e.call].key \in Keys
  BY DEF FeedInv, FeedTypes, FeedCalls, IssuedInv, GivenOut, LastOf, CallInv
<1>2. ASSUME NEW e \in issued
      PROVE  /\ e.seq <= fFile[e.key]
             /\ fSyncs => \A d \in fStable : e.seq <= d[e.key]
  <2>1. /\ LastOf(fCall[e.call]) <= fFile[e.key]
        /\ fSyncs => \A d \in fStable : LastOf(fCall[e.call]) <= d[e.key]
    BY <1>1 DEF FeedInv, FreshInv, Covered
  <2>2. /\ fFile[e.key] \in Nat /\ \A d \in fStable : d[e.key] \in Nat
    <3>1. PICK k \in Keys : k = e.key
      BY <1>1
    <3>2. fFile[k] \in Nat /\ \A d \in fStable : d[k] \in Nat
      BY DEF FeedInv, FeedTypes
    <3> QED  BY <3>1, <3>2
  <2> QED  BY <1>1, <2>1, <2>2
<1>3. ASSUME NEW e \in issued, NEW f \in issued, e.key = f.key
      PROVE  /\ e.seq = f.seq => e = f
             /\ fCall[e.call].proc = fCall[f.call].proc /\ e.seq < f.seq => e.rev <= f.rev
  <2>1. CASE e.call = f.call
    BY <1>1, <1>3, <2>1
  <2>2. CASE e.call # f.call
    <3>1. Apart(fCall[e.call], fCall[f.call])
      BY <1>1, <2>2 DEF FeedInv, FreshInv
    <3> QED  BY <1>1, <1>3, <3>1 DEF Apart
  <2> QED  BY <2>1, <2>2
<1> QED  BY <1>2, <1>3

(* SequencesAreFresh: however many server processes share the directory,   *)
(* crash, lose power or fail to write, no number goes out twice for an     *)
(* audience, later numbers of a process carry no older state, and what     *)
(* went out is on disk, unless power was lost where directories cannot be  *)
(* synchronised.                                                           *)
THEOREM IssuedNumbersAreFresh == Sequence!Spec => []SequencesAreFresh
<1>1. Sequence!Init => FeedInv
  BY ServerFilesAssumption, FeedStarts
<1>2. FeedInv /\ [Sequence!Next]_(Sequence!vars) => FeedInv'
  BY ServerFilesAssumption, FeedSteps
<1>3. FeedInv => SequencesAreFresh
  BY FeedFresh
<1> QED  BY <1>1, <1>2, <1>3, PTL DEF Sequence!Spec

(***************************************************************************)
(* The documents of the storage.                                           *)
(***************************************************************************)

(* A request that persists waits for the directory, or writes the records  *)
(* it has serialized.                                                      *)
WriteShape(w) ==
  \/ w = Storage!Idle
  \/ w.pc = "mkdir" /\ w = [pc |-> "mkdir", asked |-> w.asked]
  \/ /\ w.pc \in {"write", "open"} /\ w.mixed \in BOOLEAN
     /\ w = [pc |-> w.pc, records |-> w.records, mixed |-> w.mixed]

Writing(ws, s) == ws[s].pc \in {"write", "open"}

(* While writes do not overlap there is at most one, of one text ...       *)
AloneInv(ws) ==
  \A s \in Storage!Slots : Writing(ws, s) =>
     /\ ~ws[s].mixed
     /\ \A q \in Storage!Slots : Writing(ws, q) => q = s

(* ... and once no change waits to be serialized, that text is the cache,  *)
(* or the cache is in the file.                                            *)
SettledInv(ws, c, f) ==
  (\A s \in Storage!Slots : ws[s].pc # "mkdir") =>
     IF \E s \in Storage!Slots : Writing(ws, s)
     THEN \A s \in Storage!Slots : Writing(ws, s) => ws[s].records = c
     ELSE Storage!ReadBack(f) = c

StorageInv ==
  /\ loaded \in BOOLEAN /\ raced \in BOOLEAN /\ failed \in BOOLEAN
  /\ writes = [s \in Storage!Slots |-> writes[s]]
  /\ \A s \in Storage!Slots : WriteShape(writes[s])
  /\ loaded => running
  /\ ~loaded => \A s \in Storage!Slots : writes[s] = Storage!Idle
  /\ ~raced => AloneInv(writes)
  /\ loaded /\ ~raced /\ ~failed => SettledInv(writes, cache, document)

LEMMA StorageStarts == Storage!Init => StorageInv
<1> SUFFICES ASSUME Storage!Init
             PROVE  StorageInv
  OBVIOUS
<1>1. /\ writes = [s \in Storage!Slots |-> Storage!Idle]
      /\ running = FALSE /\ loaded = FALSE /\ raced = FALSE /\ failed = FALSE
  BY DEF Storage!Init
<1>2. \A s \in Storage!Slots : writes[s] = Storage!Idle /\ writes[s].pc = "idle"
  BY <1>1 DEF Storage!Idle
<1>3. AloneInv(writes) /\ \A s \in Storage!Slots : WriteShape(writes[s])
  BY <1>2 DEF AloneInv, Writing, WriteShape
<1> QED  BY <1>1, <1>2, <1>3 DEF StorageInv

\* The write of one request moves.
LEMMA OneWrite ==
  ASSUME StorageInv, NEW s \in Storage!Slots, NEW w, WriteShape(w), writes' = [writes EXCEPT ![s] = w]
  PROVE  /\ writes' = [q \in Storage!Slots |-> writes'[q]]
         /\ \A q \in Storage!Slots : WriteShape(writes'[q])
         /\ writes'[s] = w /\ \A q \in Storage!Slots \ {s} : writes'[q] = writes[q]
  BY DEF StorageInv

LEMMA StoragePersists ==
  ASSUME StorageInv, NEW s \in Storage!Slots, NEW r, Storage!Ready(s), Storage!Persists(s, r),
         UNCHANGED <<running, document, raced, failed>>
  PROVE  StorageInv'
<1>1. PICK w : w = [pc |-> "mkdir", asked |-> r]
  OBVIOUS
<1>2. w.pc = "mkdir" /\ WriteShape(w)
  BY <1>1 DEF WriteShape
<1>3. writes' = [writes EXCEPT ![s] = w] /\ loaded' = TRUE /\ running /\ writes[s] = Storage!Idle
  BY <1>1 DEF Storage!Persists, Storage!Ready
<1>4. /\ writes' = [q \in Storage!Slots |-> writes'[q]]
      /\ \A q \in Storage!Slots : WriteShape(writes'[q])
      /\ writes'[s] = w /\ \A q \in Storage!Slots \ {s} : writes'[q] = writes[q]
  BY <1>2, <1>3, OneWrite
<1>5. ~raced' => AloneInv(writes')
  BY <1>2, <1>4 DEF StorageInv, AloneInv, Writing
<1>6. SettledInv(writes', cache', document')
  BY <1>2, <1>4 DEF SettledInv
<1> QED  BY <1>3, <1>4, <1>5, <1>6 DEF StorageInv

LEMMA StorageRequests ==
  ASSUME StorageInv, NEW s \in Storage!Slots, NEW i \in Ids,
         Storage!Save(s, i) \/ Storage!Archive(s, i) \/ Storage!Delete(s, i)
  PROVE  StorageInv'
<1>1. /\ Storage!Ready(s) /\ UNCHANGED <<running, document, raced, failed>>
      /\ \/ Storage!Persists(s, [Storage!Records EXCEPT ![i] =
                [revision |-> Storage!NextRevision(i), save |-> saves + 1]])
         \/ Storage!Persists(s, [Storage!Records EXCEPT ![i] = [revision |-> 0, save |-> saves + 1]])
         \/ Storage!Persists(s, [Storage!Records EXCEPT ![i] = Storage!Nothing])
  BY DEF Storage!Save, Storage!Archive, Storage!Delete
<1> QED  BY <1>1, StoragePersists

LEMMA StorageOpens ==
  ASSUME StorageInv, Storage!Start \/ Storage!Read \/ Storage!Crash
  PROVE  StorageInv'
<1>1. CASE Storage!Start
  BY <1>1 DEF Storage!Start, StorageInv
<1>2. CASE Storage!Read
  <2>1. /\ running' = running /\ running /\ ~loaded /\ loaded' = TRUE
        /\ cache' = Storage!ReadBack(document)
        /\ UNCHANGED <<document, writes, raced, failed>>
    BY <1>2 DEF Storage!Read, Storage!Records
  <2>2. \A s \in Storage!Slots : writes[s].pc = "idle"
    BY <2>1 DEF StorageInv, Storage!Idle
  <2>3. SettledInv(writes', cache', document')
    BY <2>1, <2>2 DEF SettledInv, Writing
  <2> QED  BY <2>1, <2>3 DEF StorageInv
<1>3. CASE Storage!Crash
  <2>1. /\ writes' = [s \in Storage!Slots |-> Storage!Idle] /\ loaded' = FALSE
        /\ raced' = FALSE /\ failed' = FALSE
    BY <1>3 DEF Storage!Crash
  <2> QED  BY <2>1 DEF StorageInv, WriteShape, AloneInv, Writing, Storage!Idle
<1> QED  BY <1>1, <1>2, <1>3

LEMMA StorageSerializes ==
  ASSUME StorageInv, NEW s \in Storage!Slots, Storage!Serialize(s)
  PROVE  StorageInv'
<1>1. PICK w : w = [pc |-> "write", records |-> cache, mixed |-> FALSE]
  OBVIOUS
<1>2. w.pc = "write" /\ w.records = cache /\ ~w.mixed /\ WriteShape(w)
  BY <1>1 DEF WriteShape
<1>3. /\ writes' = [writes EXCEPT ![s] = w] /\ writes[s].pc = "mkdir"
      /\ raced' = (raced \/ \E q \in Storage!Slots \ {s} : Writing(writes, q))
      /\ UNCHANGED <<running, loaded, cache, document, failed>>
  BY <1>1 DEF Storage!Serialize, Storage!Serializes, Storage!Under, Writing
<1>4. /\ writes' = [q \in Storage!Slots |-> writes'[q]]
      /\ \A q \in Storage!Slots : WriteShape(writes'[q])
      /\ writes'[s] = w /\ \A q \in Storage!Slots \ {s} : writes'[q] = writes[q]
  BY <1>2, <1>3, OneWrite
<1>5. loaded
  BY <1>3 DEF StorageInv, Storage!Idle
<1>6. ~raced' => \A q \in Storage!Slots : Writing(writes', q) => q = s
  BY <1>3, <1>4 DEF Writing
<1>7. ~raced' => AloneInv(writes') /\ SettledInv(writes', cache', document')
  BY <1>2, <1>3, <1>4, <1>6 DEF AloneInv, SettledInv, Writing
<1> QED  BY <1>3, <1>4, <1>5, <1>7 DEF StorageInv

LEMMA StorageTruncates ==
  ASSUME StorageInv, NEW s \in Storage!Slots, Storage!Truncate(s)
  PROVE  StorageInv'
<1>1. PICK w : w = [writes[s] EXCEPT !.pc = "open"]
  OBVIOUS
<1>2. /\ writes' = [writes EXCEPT ![s] = w] /\ writes[s].pc = "write"
      /\ UNCHANGED <<running, loaded, cache, raced, failed>>
  BY <1>1 DEF Storage!Truncate
<1>3. w = [pc |-> "open", records |-> writes[s].records, mixed |-> writes[s].mixed]
      /\ writes[s].mixed \in BOOLEAN
  BY <1>1, <1>2 DEF StorageInv, WriteShape, Storage!Idle
<1>4. w.pc = "open" /\ w.records = writes[s].records /\ w.mixed = writes[s].mixed /\ WriteShape(w)
  BY <1>3 DEF WriteShape
<1>5. /\ writes' = [q \in Storage!Slots |-> writes'[q]]
      /\ \A q \in Storage!Slots : WriteShape(writes'[q])
      /\ writes'[s] = w /\ \A q \in Storage!Slots \ {s} : writes'[q] = writes[q]
  BY <1>2, <1>4, OneWrite
<1>6. loaded
  BY <1>2 DEF StorageInv, Storage!Idle
<1>7. \A q \in Storage!Slots :
        /\ Writing(writes', q) <=> Writing(writes, q)
        /\ Writing(writes, q) => /\ writes'[q].records = writes[q].records
                                 /\ writes'[q].mixed = writes[q].mixed
        /\ writes'[q].pc = "mkdir" <=> writes[q].pc = "mkdir"
  BY <1>2, <1>4, <1>5 DEF Writing
<1>8. ~raced => AloneInv(writes')
  BY <1>7 DEF StorageInv, AloneInv
<1>9. Writing(writes', s)
  BY <1>4, <1>5 DEF Writing
<1>10. ~raced /\ ~failed => SettledInv(writes', cache', document')
  BY <1>2, <1>6, <1>7, <1>9 DEF StorageInv, SettledInv
<1> QED  BY <1>2, <1>5, <1>6, <1>8, <1>10 DEF StorageInv

LEMMA StorageLands ==
  ASSUME StorageInv, NEW s \in Storage!Slots, Storage!Land(s)
  PROVE  StorageInv'
<1>1. /\ writes[s].pc = "open"
      /\ document' = Storage!Whole(writes[s].records) \/ writes[s].mixed
      /\ writes' = [q \in Storage!Slots |->
                      IF q = s THEN Storage!Idle
                      ELSE IF writes[q].pc = "open" THEN [writes[q] EXCEPT !.mixed = TRUE]
                      ELSE writes[q]]
      /\ UNCHANGED <<running, loaded, cache, raced, failed>>
  BY DEF Storage!Land
<1>2. loaded /\ Writing(writes, s)
  BY <1>1 DEF StorageInv, Storage!Idle, Writing
<1>3. ASSUME NEW q \in Storage!Slots
      PROVE  WriteShape(writes'[q])
  <2>1. PICK w : w = [writes[q] EXCEPT !.mixed = TRUE]
    OBVIOUS
  <2>2. WriteShape(writes[q])
    BY DEF StorageInv
  <2>3. writes[q].pc = "open" => WriteShape(w)
    <3> SUFFICES ASSUME writes[q].pc = "open"
                 PROVE  WriteShape(w)
      OBVIOUS
    <3>1. writes[q] = [pc |-> "open", records |-> writes[q].records, mixed |-> writes[q].mixed]
      BY <2>2 DEF WriteShape, Storage!Idle
    <3>2. PICK r, m : writes[q] = [pc |-> "open", records |-> r, mixed |-> m]
      BY <3>1
    <3>3. w = [pc |-> "open", records |-> r, mixed |-> TRUE]
      <4>1. w = [[pc |-> "open", records |-> r, mixed |-> m] EXCEPT !.mixed = TRUE]
        BY <2>1, <3>2, Zenon
      <4> QED  BY <4>1
    <3> QED  BY <3>3 DEF WriteShape
  <2> QED  BY <1>1, <2>1, <2>2, <2>3 DEF WriteShape
<1>4. ~raced => \A q \in Storage!Slots :
        /\ ~Writing(writes', q)
        /\ writes[q].pc = "mkdir" => writes'[q].pc = "mkdir"
  BY <1>1, <1>2 DEF StorageInv, AloneInv, Writing, Storage!Idle
<1>5. ~raced => AloneInv(writes')
  BY <1>4 DEF AloneInv
<1>6. ~raced /\ ~failed => SettledInv(writes', cache', document')
  <2> SUFFICES ASSUME ~raced, ~failed, \A q \in Storage!Slots : writes'[q].pc # "mkdir"
               PROVE  Storage!ReadBack(document') = cache'
    BY <1>4 DEF SettledInv
  <2>1. \A q \in Storage!Slots : writes[q].pc # "mkdir"
    BY <1>4
  <2>2. writes[s].records = cache /\ ~writes[s].mixed
    BY <1>2, <2>1 DEF StorageInv, AloneInv, SettledInv
  <2>3. document' = Storage!Whole(cache)
    BY <1>1, <2>2
  <2> QED  BY <1>1, <2>3 DEF Storage!ReadBack, Storage!Whole
<1> QED  BY <1>1, <1>2, <1>3, <1>5, <1>6 DEF StorageInv

LEMMA StorageFails ==
  ASSUME StorageInv, NEW s \in Storage!Slots, Storage!WriteFails(s)
  PROVE  StorageInv'
<1>1. /\ writes' = [writes EXCEPT ![s] = Storage!Idle] /\ writes[s] # Storage!Idle /\ failed' = TRUE
      /\ UNCHANGED <<running, loaded, cache, document, raced>>
  BY DEF Storage!WriteFails
<1>2. WriteShape(Storage!Idle) /\ Storage!Idle.pc = "idle"
  BY DEF WriteShape, Storage!Idle
<1>3. /\ writes' = [q \in Storage!Slots |-> writes'[q]]
      /\ \A q \in Storage!Slots : WriteShape(writes'[q])
      /\ writes'[s] = Storage!Idle /\ \A q \in Storage!Slots \ {s} : writes'[q] = writes[q]
  BY <1>1, <1>2, OneWrite
<1>4. ~raced => AloneInv(writes')
  BY <1>2, <1>3 DEF StorageInv, AloneInv, Writing
<1> QED  BY <1>1, <1>3, <1>4 DEF StorageInv

LEMMA StorageSteps ==
  ASSUME StorageInv, [Storage!Next]_(Storage!vars)
  PROVE  StorageInv'
<1>1. CASE UNCHANGED Storage!vars
  BY <1>1 DEF Storage!vars, StorageInv, AloneInv, SettledInv, Writing
<1>2. CASE Storage!Next
  BY <1>2, StorageOpens, StorageRequests, StorageSerializes, StorageTruncates, StorageLands,
     StorageFails DEF Storage!Next, Storage!WriteStep
<1> QED  BY <1>1, <1>2

LEMMA StorageQuiet == StorageInv => QuietFileIsTheCache
<1> SUFFICES ASSUME StorageInv, loaded, ~raced, ~failed,
                    \A s \in Storage!Slots : writes[s] = Storage!Idle
             PROVE  Storage!ReadBack(document) = cache
  BY DEF QuietFileIsTheCache, Storage!QuietFileIsTheCache
<1>1. \A s \in Storage!Slots : writes[s].pc = "idle"
  BY DEF Storage!Idle
<1> QED  BY <1>1 DEF StorageInv, SettledInv, Writing

(* QuietFileIsTheCache: for any number of requests at once, a server with  *)
(* nothing left to write has on disk what it serves, unless a write failed *)
(* or two overlapped since it started.                                     *)
THEOREM QuietServersLoseNothing == Storage!Spec => []QuietFileIsTheCache
<1>1. Storage!Init => StorageInv
  BY StorageStarts
<1>2. StorageInv /\ [Storage!Next]_(Storage!vars) => StorageInv'
  BY StorageSteps
<1>3. StorageInv => QuietFileIsTheCache
  BY StorageQuiet
<1> QED  BY <1>1, <1>2, <1>3, PTL DEF Storage!Spec
==============================================================================
