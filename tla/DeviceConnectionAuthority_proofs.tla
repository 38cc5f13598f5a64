------------------- MODULE DeviceConnectionAuthority_proofs -------------------
(***************************************************************************)
(* One effective connection per credential, and barriers that hold, for    *)
(* every number of credentials, connections, queued transitions and        *)
(* running operations.                                                     *)
(***************************************************************************)
EXTENDS DeviceConnectionAuthority, TLAPS

(***************************************************************************)
(* The inductive invariant.  A connection is new until it presents an      *)
(* authority; only the one that holds the slot is active, quiescing or     *)
(* running anything.                                                       *)
(***************************************************************************)
ConnInv(k) ==
  /\ authority[k] = None <=> phase[k] = "new"
  /\ phase[k] \in {"active", "quiescing"} => HoldsSlot(k)
  /\ running[k] > 0 => HoldsSlot(k)
  /\ phase[k] = "gone" => transport[k] = "closed"

\* What a slot, and a transition that closes it, say of each other.
CredInv(c) ==
  /\ slots[c] # None =>
       /\ authority[slots[c]] # None /\ CredOf(slots[c]) = c
       /\ phase[slots[c]] \in {"active", "quiescing"}
       /\ credentialShows[c] = authority[slots[c]].show
  /\ At(c, "closing") => slots[c] # None
  /\ At(c, "closed") => slots[c] = None

\* A connection waits for a transition of its own credential.
WaitsFor(q, c, auth, ph) ==
  /\ q.conn \in Conns /\ auth[q.conn] # None /\ auth[q.conn].credential = c
  /\ q.stage = "queued" => ph[q.conn] = "waiting"

\* Only the first transition has begun, and none waits for two.
TasksFit(s, c, auth, ph) ==
  /\ \A i \in 1..Len(s) : i > 1 => s[i].stage = "queued"
  /\ \A i \in 1..Len(s) : s[i].kind = "connect" => WaitsFor(s[i], c, auth, ph)
  /\ \A i, j \in 1..Len(s) :
       i # j /\ s[i].kind = "connect" /\ s[j].kind = "connect" => s[i].conn # s[j].conn

TaskInv(c) == TasksFit(queue[c], c, authority, phase)

\* A barrier that still blocks the slot: its transition, which will close the
\* slot, is queued, or reported that it could not.
Revoking(c) ==
  \/ <<"revoke", c>> \in failures
  \/ \E i \in 1..Len(queue[c]) : queue[c][i].kind = "revoke"
Rotating(c, generation) ==
  \/ <<"rotate", c>> \in failures
  \/ \E i \in 1..Len(queue[c]) : /\ queue[c][i].kind = "rotate"
                                 /\ generation <= queue[c][i].generation
Archiving(c, show) ==
  \/ <<"archive", c>> \in failures
  \/ \E i \in 1..Len(queue[c]) : /\ queue[c][i].kind = "archive"
                                 /\ queue[c][i].show = show

BarrierInv(c) ==
  slots[c] # None => LET a == authority[slots[c]] IN
    /\ c \in revoked => Revoking(c)
    /\ a.generation <= retired[c] => Rotating(c, a.generation)
    /\ a.show \in archived => Archiving(c, a.show)

ConnectionInv ==
  /\ TypeOK
  /\ \A k \in Conns : ConnInv(k)
  /\ \A c \in Creds : CredInv(c) /\ TaskInv(c) /\ BarrierInv(c)
-----------------------------------------------------------------------------
(***************************************************************************)
(* What the three moves of a queue do to its transitions.                  *)
(***************************************************************************)
LEMMA Element ==
  ASSUME NEW S, NEW s \in Seq(S), NEW i \in 1..Len(s)
  PROVE  s[i] \in S
OBVIOUS

LEMMA AppendMoves ==
  ASSUME TypeOK, NEW c \in Creds, NEW task \in Tasks,
         queue'[c] = Append(queue[c], task)
  PROVE  /\ queue'[c] \in Seq(Tasks)
         /\ Len(queue[c]) \in Nat /\ Len(queue'[c]) = Len(queue[c]) + 1
         /\ \A i \in 1..Len(queue[c]) : queue'[c][i] = queue[c][i]
         /\ queue'[c][Len(queue[c]) + 1] = task
<1>1. queue[c] \in Seq(Tasks)
  BY DEF TypeOK, SlotTypes
<1>2. QED BY <1>1

LEMMA EnqueueMoves ==
  ASSUME TypeOK, NEW c \in Creds, NEW task \in Tasks, Enqueue(c, task)
  PROVE  /\ queue' \in [Creds -> Seq(Tasks)]
         /\ queue'[c] = Append(queue[c], task)
         /\ \A d \in Creds \ {c} : queue'[d] = queue[d]
<1>1. queue \in [Creds -> Seq(Tasks)] /\ queue[c] \in Seq(Tasks)
  BY DEF TypeOK, SlotTypes
<1>2. Append(queue[c], task) \in Seq(Tasks)
  BY <1>1
<1>3. QED BY <1>1, <1>2 DEF Enqueue

LEMMA AwaitMoves ==
  ASSUME TypeOK, NEW c \in Creds, NEW stage \in Stages, queue[c] # << >>,
         Await(c, stage)
  PROVE  /\ queue' \in [Creds -> Seq(Tasks)]
         /\ \A d \in Creds \ {c} : queue'[d] = queue[d]
         /\ Len(queue[c]) \in Nat /\ Len(queue'[c]) = Len(queue[c])
         /\ 1 \in 1..Len(queue[c])
         /\ \A i \in 1..Len(queue[c]) : i # 1 => queue'[c][i] = queue[c][i]
         /\ queue'[c][1] = [queue[c][1] EXCEPT !.stage = stage]
<1>1. queue[c] \in Seq(Tasks) /\ queue \in [Creds -> Seq(Tasks)]
  BY DEF TypeOK, SlotTypes
<1>2. 1 \in 1..Len(queue[c])
  BY <1>1
<1>3. queue[c][1] \in Tasks
  BY <1>1, <1>2, Element
<1>4. [queue[c][1] EXCEPT !.stage = stage] \in Tasks
  BY <1>3 DEF Tasks
<1>5. queue'[c] = [queue[c] EXCEPT ![1] = [queue[c][1] EXCEPT !.stage = stage]]
  BY <1>1 DEF Await
<1>6. queue'[c] \in Seq(Tasks)
  BY <1>1, <1>2, <1>4, <1>5
<1>7. QED BY <1>1, <1>2, <1>5, <1>6 DEF Await

LEMMA FinishMoves ==
  ASSUME TypeOK, NEW c \in Creds, queue[c] # << >>, NEW ok, Finish(c, ok)
  PROVE  /\ queue' \in [Creds -> Seq(Tasks)]
         /\ \A d \in Creds \ {c} : queue'[d] = queue[d]
         /\ Len(queue[c]) \in Nat /\ Len(queue[c]) = Len(queue'[c]) + 1
         /\ Len(queue'[c]) \in Nat
         /\ \A i \in 1..Len(queue'[c]) : queue'[c][i] = queue[c][i + 1]
<1>1. queue[c] \in Seq(Tasks) /\ queue \in [Creds -> Seq(Tasks)]
  BY DEF TypeOK, SlotTypes
<1>2. queue'[c] = Tail(queue[c])
  BY <1>1 DEF Finish
<1>3. Tail(queue[c]) \in Seq(Tasks)
  BY <1>1
<1>4. QED BY <1>1, <1>2, <1>3 DEF Finish

LEMMA FirstTask ==
  ASSUME TypeOK, NEW c \in Creds, queue[c] # << >>
  PROVE  1 \in 1..Len(queue[c]) /\ queue[c][1] \in Tasks
<1>1. queue[c] \in Seq(Tasks)
  BY DEF TypeOK, SlotTypes
<1>2. 1 \in 1..Len(queue[c])
  BY <1>1
<1>3. QED BY <1>1, <1>2, Element
-----------------------------------------------------------------------------
(***************************************************************************)
(* The transitions of a queue after each move: only the connection the     *)
(* first transition is about may stop waiting for it.                      *)
(***************************************************************************)
KeepsAuthority == \A k \in Conns : authority[k] # None => authority'[k] = authority[k]
KeepsWaiting(K) ==
  \A k \in Conns \ K : phase[k] = "waiting" => phase'[k] = "waiting"

\* The connection the first transition of c connects.
Connecting(c) == IF queue[c][1].kind = "connect" THEN {queue[c][1].conn} ELSE {}

LEMMA WaitsStill ==
  ASSUME NEW q, NEW c, NEW K, WaitsFor(q, c, authority, phase),
         KeepsAuthority, KeepsWaiting(K), q.stage = "queued" => q.conn \notin K
  PROVE  WaitsFor(q, c, authority', phase')
BY DEF WaitsFor, KeepsAuthority, KeepsWaiting

\* Another credential's queue does not notice.
LEMMA OtherTasksStay ==
  ASSUME NEW c \in Creds, NEW K, TaskInv(c), queue'[c] = queue[c],
         KeepsAuthority, KeepsWaiting(K),
         \A k \in K : authority[k].credential # c
  PROVE  TaskInv(c)'
<1>1. ASSUME NEW i \in 1..Len(queue[c]), queue[c][i].kind = "connect"
      PROVE WaitsFor(queue[c][i], c, authority', phase')
  <2>1. WaitsFor(queue[c][i], c, authority, phase)
    BY <1>1 DEF TaskInv, TasksFit
  <2>2. queue[c][i].conn \notin K
    BY <2>1 DEF WaitsFor
  <2>3. QED BY <2>1, <2>2, WaitsStill
<1>2. QED BY <1>1 DEF TaskInv, TasksFit

LEMMA TasksAfterAppend ==
  ASSUME TypeOK, NEW c \in Creds, NEW task \in Tasks,
         queue'[c] = Append(queue[c], task),
         TaskInv(c), KeepsAuthority, KeepsWaiting({}), task.stage = "queued",
         task.kind = "connect" =>
           authority[task.conn] = None /\ WaitsFor(task, c, authority', phase')
  PROVE  TaskInv(c)'
<1> DEFINE n == Len(queue[c])
<1>1. /\ n \in Nat /\ Len(queue'[c]) = n + 1
      /\ \A i \in 1..n : queue'[c][i] = queue[c][i]
      /\ queue'[c][n + 1] = task
  BY AppendMoves
<1>2. TasksFit(queue[c], c, authority, phase)
  BY DEF TaskInv
<1>3. ASSUME NEW i \in 1..n, queue[c][i].kind = "connect"
      PROVE /\ WaitsFor(queue[c][i], c, authority', phase')
            /\ task.kind = "connect" => queue[c][i].conn # task.conn
  <2>1. WaitsFor(queue[c][i], c, authority, phase)
    BY <1>2, <1>3 DEF TasksFit
  <2>2. WaitsFor(queue[c][i], c, authority', phase')
    BY <2>1, WaitsStill
  <2>3. QED BY <2>1, <2>2 DEF WaitsFor
<1>4. \A i \in 1..Len(queue'[c]) : i > 1 => queue'[c][i].stage = "queued"
  BY <1>1, <1>2 DEF TasksFit
<1>5. \A i \in 1..Len(queue'[c]) : queue'[c][i].kind = "connect" =>
        WaitsFor(queue'[c][i], c, authority', phase')
  <2>1. SUFFICES ASSUME NEW i \in 1..(n + 1), queue'[c][i].kind = "connect"
        PROVE WaitsFor(queue'[c][i], c, authority', phase')
    BY <1>1
  <2>2. CASE i = n + 1
    BY <1>1, <2>1, <2>2
  <2>3. CASE i # n + 1
    BY <1>1, <1>3, <2>1, <2>3
  <2>4. QED BY <2>2, <2>3
<1>6. \A i, j \in 1..Len(queue'[c]) :
        i # j /\ queue'[c][i].kind = "connect" /\ queue'[c][j].kind = "connect"
          => queue'[c][i].conn # queue'[c][j].conn
  <2>1. SUFFICES ASSUME NEW i \in 1..(n + 1), NEW j \in 1..(n + 1), i # j,
                        queue'[c][i].kind = "connect", queue'[c][j].kind = "connect"
        PROVE queue'[c][i].conn # queue'[c][j].conn
    BY <1>1
  <2>2. CASE i = n + 1
    BY <1>1, <1>3, <2>1, <2>2
  <2>3. CASE j = n + 1
    BY <1>1, <1>3, <2>1, <2>3
  <2>4. CASE i # n + 1 /\ j # n + 1
    <3>1. i \in 1..n /\ j \in 1..n
      BY <1>1, <2>4
    <3>2. QED BY <1>1, <1>2, <2>1, <3>1 DEF TasksFit
  <2>5. QED BY <2>2, <2>3, <2>4
<1>7. QED BY <1>4, <1>5, <1>6 DEF TaskInv, TasksFit

\* The first transition's own credential is that of its queue.
LEMMA ConnectingHere ==
  ASSUME TypeOK, NEW c \in Creds, queue[c] # << >>, TaskInv(c)
  PROVE  /\ \A k \in Connecting(c) :
              k \in Conns /\ authority[k] # None /\ authority[k].credential = c
         /\ \A i \in 1..Len(queue[c]) : i > 1 /\ queue[c][i].kind = "connect"
                                          => queue[c][i].conn \notin Connecting(c)
<1>1. 1 \in 1..Len(queue[c])
  BY FirstTask
<1>2. QED BY <1>1 DEF TaskInv, TasksFit, WaitsFor, Connecting

LEMMA TasksAfterAwait ==
  ASSUME TypeOK, NEW c \in Creds, NEW stage \in Stages \ {"queued"},
         queue[c] # << >>, Await(c, stage),
         \A d \in Creds : TaskInv(d), KeepsAuthority, KeepsWaiting(Connecting(c))
  PROVE  \A d \in Creds : TaskInv(d)'
<1>1. /\ \A d \in Creds \ {c} : queue'[d] = queue[d]
      /\ Len(queue[c]) \in Nat /\ Len(queue'[c]) = Len(queue[c])
      /\ 1 \in 1..Len(queue[c])
      /\ \A i \in 1..Len(queue[c]) : i # 1 => queue'[c][i] = queue[c][i]
      /\ queue'[c][1] = [queue[c][1] EXCEPT !.stage = stage]
      /\ queue[c][1] \in Tasks
  BY AwaitMoves, FirstTask
<1>2. \A d \in Creds \ {c} : TaskInv(d)'
  BY <1>1, ConnectingHere, OtherTasksStay
<1>3. /\ queue'[c][1].kind = queue[c][1].kind /\ queue'[c][1].conn = queue[c][1].conn
      /\ queue'[c][1].stage = stage
  BY <1>1 DEF Tasks
<1>4. TasksFit(queue[c], c, authority, phase)
  BY DEF TaskInv
<1>5. ASSUME NEW i \in 1..Len(queue[c]), queue'[c][i].kind = "connect"
      PROVE WaitsFor(queue'[c][i], c, authority', phase')
  <2>1. CASE i = 1
    <3>1. WaitsFor(queue[c][1], c, authority, phase)
      BY <1>1, <1>3, <1>4, <1>5, <2>1 DEF TasksFit
    <3>2. QED BY <1>3, <2>1, <3>1 DEF WaitsFor, KeepsAuthority
  <2>2. CASE i # 1
    <3>1. WaitsFor(queue[c][i], c, authority, phase) /\ queue'[c][i] = queue[c][i]
      BY <1>1, <1>4, <1>5, <2>2 DEF TasksFit
    <3>2. queue[c][i].conn \notin Connecting(c)
      BY <1>1, <1>5, <2>2, ConnectingHere
    <3>3. QED BY <3>1, <3>2, WaitsStill
  <2>3. QED BY <2>1, <2>2
<1>6. \A i \in 1..Len(queue[c]) : /\ queue'[c][i].kind = queue[c][i].kind
                                  /\ queue'[c][i].conn = queue[c][i].conn
                                  /\ i > 1 => queue'[c][i] = queue[c][i]
  <2>1. SUFFICES ASSUME NEW i \in 1..Len(queue[c])
        PROVE /\ queue'[c][i].kind = queue[c][i].kind
              /\ queue'[c][i].conn = queue[c][i].conn
              /\ i > 1 => queue'[c][i] = queue[c][i]
    OBVIOUS
  <2>2. CASE i = 1
    BY <1>3, <2>2
  <2>3. CASE i # 1
    BY <1>1, <2>3
  <2>4. QED BY <2>2, <2>3
<1>7. TaskInv(c)'
  BY <1>1, <1>4, <1>5, <1>6 DEF TaskInv, TasksFit
<1>8. QED BY <1>2, <1>7

LEMMA TasksAfterFinish ==
  ASSUME TypeOK, NEW c \in Creds, queue[c] # << >>, NEW ok, Finish(c, ok),
         \A d \in Creds : TaskInv(d), KeepsAuthority, KeepsWaiting(Connecting(c))
  PROVE  \A d \in Creds : TaskInv(d)'
<1>1. /\ \A d \in Creds \ {c} : queue'[d] = queue[d]
      /\ Len(queue[c]) \in Nat /\ Len(queue[c]) = Len(queue'[c]) + 1
      /\ Len(queue'[c]) \in Nat
      /\ \A i \in 1..Len(queue'[c]) : queue'[c][i] = queue[c][i + 1]
  BY FinishMoves
<1>2. \A d \in Creds \ {c} : TaskInv(d)'
  BY <1>1, ConnectingHere, OtherTasksStay
<1>3. TasksFit(queue[c], c, authority, phase)
  BY DEF TaskInv
<1>4. ASSUME NEW i \in 1..Len(queue[c]), i > 1, queue[c][i].kind = "connect"
      PROVE WaitsFor(queue[c][i], c, authority', phase')
  <2>1. WaitsFor(queue[c][i], c, authority, phase)
    BY <1>3, <1>4 DEF TasksFit
  <2>2. queue[c][i].conn \notin Connecting(c)
    BY <1>4, ConnectingHere
  <2>3. QED BY <2>1, <2>2, WaitsStill
<1>5. ASSUME NEW i \in 1..Len(queue'[c])
      PROVE i + 1 \in 1..Len(queue[c]) /\ i + 1 > 1 /\ queue'[c][i] = queue[c][i + 1]
  BY <1>1
<1>6. TaskInv(c)'
  <2>1. \A i \in 1..Len(queue'[c]) : queue'[c][i].stage = "queued"
    BY <1>3, <1>5 DEF TasksFit
  <2>2. \A i \in 1..Len(queue'[c]) : queue'[c][i].kind = "connect" =>
          WaitsFor(queue'[c][i], c, authority', phase')
    BY <1>4, <1>5
  <2>3. \A i, j \in 1..Len(queue'[c]) :
          i # j /\ queue'[c][i].kind = "connect" /\ queue'[c][j].kind = "connect"
            => queue'[c][i].conn # queue'[c][j].conn
    <3>1. SUFFICES ASSUME NEW i \in 1..Len(queue'[c]), NEW j \in 1..Len(queue'[c]),
                          i # j, queue'[c][i].kind = "connect",
                          queue'[c][j].kind = "connect"
          PROVE queue'[c][i].conn # queue'[c][j].conn
      OBVIOUS
    <3>2. i + 1 # j + 1
      BY <3>1
    <3>3. QED BY <1>3, <1>5, <3>1, <3>2 DEF TasksFit
  <2>4. QED BY <2>1, <2>2, <2>3 DEF TaskInv, TasksFit
<1>7. QED BY <1>2, <1>6
-----------------------------------------------------------------------------
(***************************************************************************)
(* The first transition and the pending barriers after each move.          *)
(***************************************************************************)
LEMMA HeadAfterAppend ==
  ASSUME TypeOK, NEW c \in Creds, NEW task \in Tasks,
         queue'[c] = Append(queue[c], task), task.stage = "queued",
         NEW stage, stage # "queued", At(c, stage)'
  PROVE  At(c, stage)
<1>1. /\ Len(queue[c]) \in Nat /\ Len(queue'[c]) = Len(queue[c]) + 1
      /\ \A i \in 1..Len(queue[c]) : queue'[c][i] = queue[c][i]
      /\ queue'[c][Len(queue[c]) + 1] = task /\ queue[c] \in Seq(Tasks)
  BY AppendMoves DEF TypeOK, SlotTypes
<1>2. CASE queue[c] = << >>
  BY <1>1, <1>2 DEF At
<1>3. CASE queue[c] # << >>
  BY <1>1, <1>3 DEF At
<1>4. QED BY <1>2, <1>3

LEMMA HeadAfterAwait ==
  ASSUME TypeOK, NEW c \in Creds, NEW stage \in Stages, queue[c] # << >>,
         Await(c, stage), NEW other, At(c, other)'
  PROVE  other = stage
<1>1. queue'[c][1] = [queue[c][1] EXCEPT !.stage = stage] /\ queue[c][1] \in Tasks
  BY AwaitMoves, FirstTask
<1>2. QED BY <1>1 DEF At, Tasks

LEMMA HeadAfterFinish ==
  ASSUME TypeOK, NEW c \in Creds, queue[c] # << >>, NEW ok, Finish(c, ok),
         TaskInv(c), NEW stage, At(c, stage)'
  PROVE  stage = "queued"
<1>1. /\ Len(queue[c]) \in Nat /\ Len(queue[c]) = Len(queue'[c]) + 1
      /\ queue'[c] \in Seq(Tasks)
      /\ \A i \in 1..Len(queue'[c]) : queue'[c][i] = queue[c][i + 1]
  BY FinishMoves
<1>2. 1 \in 1..Len(queue'[c])
  BY <1>1 DEF At
<1>3. queue'[c][1] = queue[c][2] /\ 2 \in 1..Len(queue[c])
  BY <1>1, <1>2
<1>4. QED BY <1>3 DEF At, TaskInv, TasksFit

\* A barrier pending on c stays so.
StaysPending(c) ==
  /\ Revoking(c) => Revoking(c)'
  /\ \A g : Rotating(c, g) => Rotating(c, g)'
  /\ \A s : Archiving(c, s) => Archiving(c, s)'

LEMMA PendingStill ==
  ASSUME NEW c \in Creds, queue'[c] = queue[c],
         \A kind \in BarrierKinds : <<kind, c>> \in failures => <<kind, c>> \in failures'
  PROVE  StaysPending(c)
BY DEF StaysPending, Revoking, Rotating, Archiving, BarrierKinds

LEMMA PendingAfterAppend ==
  ASSUME TypeOK, NEW c \in Creds, NEW task \in Tasks,
         queue'[c] = Append(queue[c], task), failures' = failures
  PROVE  /\ StaysPending(c)
         /\ task.kind = "revoke" => Revoking(c)'
         /\ \A g : task.kind = "rotate" /\ g <= task.generation => Rotating(c, g)'
         /\ task.kind = "archive" => Archiving(c, task.show)'
<1> DEFINE n == Len(queue[c])
<1>1. /\ n \in Nat /\ Len(queue'[c]) = n + 1
      /\ \A i \in 1..n : queue'[c][i] = queue[c][i]
      /\ queue'[c][n + 1] = task
  BY AppendMoves
<1> HIDE DEF n
<1>2. n + 1 \in 1..Len(queue'[c]) /\ \A i \in 1..n : i \in 1..Len(queue'[c])
  BY <1>1
<1>3. StaysPending(c)
  BY <1>1, <1>2 DEF StaysPending, Revoking, Rotating, Archiving, n
<1>4. QED BY <1>1, <1>2, <1>3 DEF Revoking, Rotating, Archiving

LEMMA PendingAfterAwait ==
  ASSUME TypeOK, NEW c \in Creds, NEW stage \in Stages, queue[c] # << >>,
         Await(c, stage), failures' = failures
  PROVE  StaysPending(c)
<1>1. /\ Len(queue'[c]) = Len(queue[c]) /\ queue[c][1] \in Tasks
      /\ \A i \in 1..Len(queue[c]) : i # 1 => queue'[c][i] = queue[c][i]
      /\ queue'[c][1] = [queue[c][1] EXCEPT !.stage = stage]
  BY AwaitMoves, FirstTask
<1>2. /\ queue'[c][1].kind = queue[c][1].kind
      /\ queue'[c][1].generation = queue[c][1].generation
      /\ queue'[c][1].show = queue[c][1].show
  BY <1>1 DEF Tasks
<1>3. \A i \in 1..Len(queue[c]) :
        /\ queue'[c][i].kind = queue[c][i].kind
        /\ queue'[c][i].generation = queue[c][i].generation
        /\ queue'[c][i].show = queue[c][i].show
  BY <1>1, <1>2
<1>4. QED BY <1>1, <1>3 DEF StaysPending, Revoking, Rotating, Archiving

\* What ends with a thrown error is reported; what ends well is the only
\* barrier that stops being pending.
LEMMA PendingAfterFinish ==
  ASSUME TypeOK, NEW c \in Creds, queue[c] # << >>, NEW ok \in BOOLEAN, Finish(c, ok)
  PROVE  LET q == queue[c][1] IN
         /\ Revoking(c) => Revoking(c)' \/ (ok /\ q.kind = "revoke")
         /\ \A g : Rotating(c, g) =>
              Rotating(c, g)' \/ (ok /\ q.kind = "rotate" /\ g <= q.generation)
         /\ \A s : Archiving(c, s) =>
              Archiving(c, s)' \/ (ok /\ q.kind = "archive" /\ q.show = s)
<1>1. /\ Len(queue[c]) \in Nat /\ Len(queue[c]) = Len(queue'[c]) + 1
      /\ Len(queue'[c]) \in Nat
      /\ \A i \in 1..Len(queue'[c]) : queue'[c][i] = queue[c][i + 1]
  BY FinishMoves
<1>2. \A i \in 1..Len(queue[c]) : i # 1 =>
        \E j \in 1..Len(queue'[c]) : queue'[c][j] = queue[c][i]
  <2>1. SUFFICES ASSUME NEW i \in 1..Len(queue[c]), i # 1
        PROVE \E j \in 1..Len(queue'[c]) : queue'[c][j] = queue[c][i]
    OBVIOUS
  <2>2. i - 1 \in 1..Len(queue'[c]) /\ (i - 1) + 1 = i
    BY <1>1, <2>1
  <2>3. QED BY <1>1, <2>2
<1>3. /\ \A f \in failures : f \in failures'
      /\ ~ok /\ queue[c][1].kind \in BarrierKinds => <<queue[c][1].kind, c>> \in failures'
  BY DEF Finish
<1>4. {"revoke", "rotate", "archive"} \subseteq BarrierKinds
  BY DEF BarrierKinds
<1>5. Revoking(c) => Revoking(c)' \/ (ok /\ queue[c][1].kind = "revoke")
  BY <1>2, <1>3, <1>4 DEF Revoking
<1>6. ASSUME NEW g, Rotating(c, g)
      PROVE Rotating(c, g)' \/ (/\ ok /\ queue[c][1].kind = "rotate"
                                /\ g <= queue[c][1].generation)
  BY <1>2, <1>3, <1>4, <1>6 DEF Rotating
<1>7. ASSUME NEW s, Archiving(c, s)
      PROVE Archiving(c, s)' \/ (ok /\ queue[c][1].kind = "archive" /\ queue[c][1].show = s)
  BY <1>2, <1>3, <1>4, <1>7 DEF Archiving
<1>8. QED BY <1>5, <1>6, <1>7
-----------------------------------------------------------------------------
(***************************************************************************)
(* Calls and the environment: they free no slot and grant none.            *)
(***************************************************************************)

LEMMA Shapes ==
  ASSUME ConnectionInv
  PROVE  /\ TypeOK /\ SlotTypes /\ BlockTypes
         /\ \A k \in Conns : ConnInv(k)
         /\ \A c \in Creds : CredInv(c) /\ TaskInv(c) /\ BarrierInv(c)
         /\ \A k \in Conns : authority[k] # None =>
              /\ authority[k] \in Authorities /\ CredOf(k) \in Creds
              /\ authority[k].show \in Shows /\ authority[k].generation \in 1..MaxGeneration
              /\ authority[k].expires \in Nat
BY AuthorityShape DEF ConnectionInv, TypeOK, SlotTypes, CredOf

\* The queue of c as it is, or with one transition of a call behind it.
Grows(c) ==
  \/ queue'[c] = queue[c]
  \/ \E task \in Tasks :
       /\ queue'[c] = Append(queue[c], task) /\ task.stage = "queued"
       /\ task.kind = "connect" =>
            authority[task.conn] = None /\ WaitsFor(task, c, authority', phase')

\* A connection presents its authority, quiesces its slot, or goes on.
Moves(k) ==
  \/ /\ phase'[k] = phase[k] /\ authority'[k] = authority[k]
     /\ phase[k] = "gone" => transport'[k] = transport[k]
  \/ HoldsSlot(k) /\ phase'[k] = "quiescing" /\ authority'[k] = authority[k]
  \/ phase[k] = "new" /\ phase'[k] \in {"waiting", "rejected"} /\ authority'[k] # None

LEMMA CallsKeepSlots ==
  ASSUME ConnectionInv, UNCHANGED <<slots, credentialShows, failures>>,
         \A k \in Conns : Moves(k), \A k \in Conns : running'[k] > 0 => HoldsSlot(k),
         \A c \in Creds : Grows(c)
  PROVE  /\ \A k \in Conns : ConnInv(k)'
         /\ \A c \in Creds : CredInv(c)' /\ TaskInv(c)'
         /\ KeepsAuthority /\ \A c \in Creds : StaysPending(c)
<1>1. /\ TypeOK /\ \A k \in Conns : ConnInv(k)
      /\ \A c \in Creds : CredInv(c) /\ TaskInv(c)
      /\ slots \in [Creds -> Conns \cup {None}]
      /\ authority \in [Conns -> Authorities \cup {None}]
  BY DEF ConnectionInv, TypeOK, SlotTypes
<1>2. KeepsAuthority
  BY <1>1 DEF KeepsAuthority, Moves, ConnInv
<1>3. KeepsWaiting({})
  <2>1. \A k \in Conns : phase[k] = "waiting" => ~HoldsSlot(k)
    BY <1>1, Shapes, NoneIsNothing DEF CredInv, HoldsSlot
  <2>2. QED BY <2>1 DEF KeepsWaiting, Moves
<1>4. ASSUME NEW k \in Conns PROVE HoldsSlot(k) => HoldsSlot(k)'
  BY <1>2 DEF HoldsSlot, CredOf, KeepsAuthority
<1>5. ASSUME NEW k \in Conns PROVE ConnInv(k)'
  BY <1>1, <1>4 DEF ConnInv, Moves, HoldsSlot
<1>6. ASSUME NEW c \in Creds
      PROVE /\ TaskInv(c)' /\ StaysPending(c)
            /\ \A stage \in {"closing", "closed"} : At(c, stage)' => At(c, stage)
  <2>1. CASE queue'[c] = queue[c]
    BY <1>1, <1>2, <1>3, <2>1, OtherTasksStay, PendingStill DEF At
  <2>2. CASE queue'[c] # queue[c]
    BY <1>1, <1>2, <1>3, <2>2, TasksAfterAppend, PendingAfterAppend, HeadAfterAppend
    DEF Grows
  <2>3. QED BY <2>1, <2>2
<1>7. ASSUME NEW c \in Creds PROVE CredInv(c)'
  <2>1. CASE slots[c] = None
    BY <1>1, <1>6, <2>1 DEF CredInv
  <2>2. CASE slots[c] # None
    <3>1. PICK k \in Conns : k = slots[c]
      BY <1>1, <2>2
    <3>2. /\ authority[k] # None /\ authority'[k] = authority[k]
          /\ phase[k] \in {"active", "quiescing"}
      BY <1>1, <1>2, <2>2, <3>1 DEF CredInv, KeepsAuthority
    <3>3. phase'[k] \in {"active", "quiescing"}
      BY <3>2 DEF Moves
    <3>4. QED BY <1>1, <1>6, <2>2, <3>1, <3>2, <3>3 DEF CredInv, CredOf
  <2>3. QED BY <2>1, <2>2
<1>8. QED BY <1>2, <1>5, <1>6, <1>7

\* A barrier's call blocks the slot no more than its transition answers for.
LEMMA BarrierAfterCall ==
  ASSUME NEW c \in Creds, TypeOK, CredInv(c), BarrierInv(c), slots' = slots, KeepsAuthority,
         StaysPending(c), c \in revoked' => c \in revoked \/ Revoking(c)',
         \A g : g <= retired'[c] => g <= retired[c] \/ Rotating(c, g)',
         \A s : s \in archived' =>
           s \in archived \/ (credentialShows[c] = s => Archiving(c, s)')
  PROVE  BarrierInv(c)'
<1>1. SUFFICES ASSUME slots[c] # None PROVE BarrierInv(c)'
  BY DEF BarrierInv
<1>2. slots[c] \in Conns /\ authority'[slots[c]] = authority[slots[c]]
        /\ credentialShows[c] = authority[slots[c]].show
  BY <1>1 DEF CredInv, KeepsAuthority, TypeOK, SlotTypes
<1>3. QED BY <1>1, <1>2 DEF BarrierInv, StaysPending

\* A task of a call.
LEMMA TaskType ==
  ASSUME NEW kind \in Kinds, NEW k \in Conns \cup {None}, NEW g \in 0..MaxGeneration,
         NEW s \in Shows \cup {None}
  PROVE  /\ Task(kind, k, g, s) \in Tasks /\ Task(kind, k, g, s).stage = "queued"
         /\ Task(kind, k, g, s).kind = kind /\ Task(kind, k, g, s).conn = k
         /\ Task(kind, k, g, s).generation = g /\ Task(kind, k, g, s).show = s
BY DEF Task, Tasks, Stages

LEMMA ConnectKeeps ==
  ASSUME ConnectionInv, NEW k \in Conns, NEW a \in Authorities, Connect(k, a)
  PROVE  ConnectionInv'
<1> DEFINE c == a.credential
           task == Task("connect", k, 0, None)
<1>1. c \in Creds /\ a # None /\ authority[k] = None
  BY AuthorityShape, NoneIsNothing, Shapes DEF ConnInv, Connect
<1>2. task \in Tasks /\ task.stage = "queued" /\ task.kind = "connect" /\ task.conn = k
  BY TaskType, CoordinatorBounds DEF Kinds
<1>3. /\ UNCHANGED <<slots, running, timer, blockVars, identityVars, clockVars, failures>>
      /\ authority' = [authority EXCEPT ![k] = a] /\ phase[k] = "new"
      /\ \/ /\ phase' = [phase EXCEPT ![k] = "rejected"]
            /\ transport' = [transport EXCEPT ![k] = "closing"] /\ queue' = queue
         \/ /\ phase' = [phase EXCEPT ![k] = "waiting"]
            /\ transport' = transport /\ Enqueue(c, task)
  BY DEF Connect
<1> HIDE DEF c, task
<1>4. authority'[k] = a /\ a.credential = c /\ a # None
  BY <1>1, <1>3, Shapes DEF SlotTypes, c
<1>5. queue' \in [Creds -> Seq(Tasks)]
  BY <1>1, <1>2, <1>3, EnqueueMoves, Shapes DEF SlotTypes
<1>6. TypeOK'
  BY <1>3, <1>5, Shapes DEF TypeOK, SlotTypes, BlockTypes, blockVars, identityVars, clockVars
<1>7. \A d \in Creds : Grows(d)
  <2>1. CASE queue' = queue
    BY <2>1 DEF Grows
  <2>2. CASE queue' # queue
    <3>1. Enqueue(c, task) /\ phase'[k] = "waiting"
      BY <1>3, <2>2, Shapes DEF SlotTypes
    <3>2. WaitsFor(task, c, authority', phase')
      BY <1>2, <1>4, <3>1 DEF WaitsFor
    <3>3. QED BY <1>1, <1>2, <3>1, <3>2, EnqueueMoves, Shapes DEF Grows
  <2>3. QED BY <2>1, <2>2
<1>8. \A j \in Conns : Moves(j)
  BY <1>3, <1>4, Shapes DEF Moves, SlotTypes
<1>9. \A j \in Conns : running'[j] > 0 => HoldsSlot(j)
  BY <1>3, Shapes DEF ConnInv
<1>10. /\ UNCHANGED <<slots, credentialShows, failures, retired, revoked, archived>>
  BY <1>3 DEF blockVars, identityVars
<1>11. /\ \A j \in Conns : ConnInv(j)'
       /\ \A d \in Creds : CredInv(d)' /\ TaskInv(d)'
       /\ KeepsAuthority /\ \A d \in Creds : StaysPending(d)
  BY <1>7, <1>8, <1>9, <1>10, CallsKeepSlots
<1>12. \A d \in Creds : BarrierInv(d)'
  BY <1>10, <1>11, BarrierAfterCall, Shapes
<1>13. QED BY <1>6, <1>11, <1>12 DEF ConnectionInv

\* Calls and timers that leave every connection's authority alone.
LEMMA QuietCallKeeps ==
  ASSUME ConnectionInv, TypeOK', UNCHANGED <<slots, authority, credentialShows, failures>>,
         \A k \in Conns : Moves(k), \A k \in Conns : running'[k] > 0 => HoldsSlot(k),
         \A c \in Creds : Grows(c),
         \A c \in Creds : StaysPending(c) =>
           /\ c \in revoked' => c \in revoked \/ Revoking(c)'
           /\ \A g : g <= retired'[c] => g <= retired[c] \/ Rotating(c, g)'
           /\ \A s : s \in archived' =>
                s \in archived \/ (credentialShows[c] = s => Archiving(c, s)')
  PROVE  ConnectionInv'
<1>1. /\ \A j \in Conns : ConnInv(j)'
      /\ \A d \in Creds : CredInv(d)' /\ TaskInv(d)'
      /\ KeepsAuthority /\ \A d \in Creds : StaysPending(d)
  BY CallsKeepSlots
<1>2. \A d \in Creds : BarrierInv(d)'
  BY <1>1, BarrierAfterCall, Shapes
<1>3. QED BY <1>1, <1>2 DEF ConnectionInv

\* What a call queues for one credential.
LEMMA EnqueueGrows ==
  ASSUME ConnectionInv, NEW c \in Creds, NEW task \in Tasks, Enqueue(c, task),
         task.stage = "queued", task.kind # "connect"
  PROVE  queue' \in [Creds -> Seq(Tasks)] /\ \A d \in Creds : Grows(d)
BY EnqueueMoves, Shapes DEF Grows

LEMMA OperationsKeep ==
  ASSUME ConnectionInv, NEW k \in Conns, Execute(k) \/ ReleaseOperation(k)
  PROVE  ConnectionInv'
<1>1. UNCHANGED <<slots, authority, phase, transport, timer, queue, blockVars,
                  identityVars, clockVars, failures>>
  BY DEF Execute, ReleaseOperation
<1>2. running' \in [Conns -> Nat] /\ \A j \in Conns : running'[j] > 0 => HoldsSlot(j)
  <2>1. running \in [Conns -> Nat] /\ \A j \in Conns : running[j] > 0 => HoldsSlot(j)
    BY Shapes DEF SlotTypes, ConnInv
  <2>2. CASE Execute(k)
    BY <2>1, <2>2 DEF Execute, Effective
  <2>3. CASE ReleaseOperation(k)
    <3>1. running[k] > 0 /\ running[k] - 1 \in Nat
      BY <2>1, <2>3 DEF ReleaseOperation
    <3>2. QED BY <2>1, <2>3, <3>1 DEF ReleaseOperation
  <2>4. QED BY <2>2, <2>3
<1>3. TypeOK'
  BY <1>1, <1>2, Shapes DEF TypeOK, SlotTypes, BlockTypes, blockVars, identityVars, clockVars
<1>4. (\A j \in Conns : Moves(j)) /\ (\A d \in Creds : Grows(d))
  BY <1>1 DEF Moves, Grows
<1>5. QED BY <1>1, <1>2, <1>3, <1>4, QuietCallKeeps DEF blockVars, identityVars

LEMMA WorldKeeps ==
  ASSUME ConnectionInv,
         Tick \/ \E k \in Conns : LoseWitness(k)
           \/ \E outcome \in {"closed", "failed"} : SettleClose(k, outcome)
  PROVE  ConnectionInv'
<1>1. UNCHANGED <<slots, authority, phase, running, timer, queue, blockVars,
                  identityVars, failures>>
  BY DEF Tick, LoseWitness, SettleClose
<1>2. /\ transport' \in [Conns -> {"open", "closing", "closed", "failed"}]
      /\ \A j \in Conns : phase[j] = "gone" => transport'[j] = transport[j]
  <2>1. CASE transport' = transport
    BY <2>1, Shapes DEF SlotTypes
  <2>2. ASSUME NEW k \in Conns, NEW outcome \in {"closed", "failed"}, SettleClose(k, outcome)
        PROVE  /\ transport' \in [Conns -> {"open", "closing", "closed", "failed"}]
               /\ \A j \in Conns : phase[j] = "gone" => transport'[j] = transport[j]
    BY <2>2, Shapes DEF SettleClose, SlotTypes, ConnInv
  <2>3. QED BY <2>1, <2>2 DEF Tick, LoseWitness
<1>3. now' \in Nat /\ stale' \subseteq Conns
  BY Shapes DEF Tick, LoseWitness, SettleClose, BlockTypes, clockVars
<1>4. TypeOK'
  BY <1>1, <1>2, <1>3, Shapes DEF TypeOK, SlotTypes, BlockTypes, blockVars, identityVars
<1>5. (\A j \in Conns : Moves(j)) /\ (\A d \in Creds : Grows(d))
  BY <1>1, <1>2 DEF Moves, Grows
<1>6. \A j \in Conns : running'[j] > 0 => HoldsSlot(j)
  BY <1>1, Shapes DEF ConnInv
<1>7. QED BY <1>1, <1>4, <1>5, <1>6, QuietCallKeeps DEF blockVars, identityVars

LEMMA RetireKeeps ==
  ASSUME ConnectionInv, NEW k \in Conns, Retire(k)
  PROVE  ConnectionInv'
<1> DEFINE task == Task("retire", k, 0, None)
<1>1. /\ HoldsSlot(k) /\ CredOf(k) \in Creds
      /\ phase' = [phase EXCEPT ![k] = "quiescing"] /\ Enqueue(CredOf(k), task)
      /\ UNCHANGED <<slots, authority, transport, running, timer, blockVars,
                     identityVars, clockVars, failures>>
  BY Shapes DEF Retire, HoldsSlot
<1>2. task \in Tasks /\ task.stage = "queued" /\ task.kind # "connect"
  BY TaskType, CoordinatorBounds DEF Kinds
<1> HIDE DEF task
<1>3. queue' \in [Creds -> Seq(Tasks)] /\ \A d \in Creds : Grows(d)
  BY <1>1, <1>2, EnqueueGrows
<1>4. TypeOK'
  BY <1>1, <1>3, Shapes DEF TypeOK, SlotTypes, BlockTypes, blockVars, identityVars, clockVars
<1>5. (\A j \in Conns : Moves(j)) /\ \A j \in Conns : running'[j] > 0 => HoldsSlot(j)
  BY <1>1, Shapes DEF Moves, SlotTypes, ConnInv
<1>6. QED BY <1>1, <1>3, <1>4, <1>5, QuietCallKeeps DEF blockVars, identityVars

\* An operation that finds its lease expired, and the expiry timer.
LEMMA ExpiryKeeps ==
  ASSUME ConnectionInv, NEW k \in Conns, ExecuteExpired(k) \/ ExpiryTimer(k)
  PROVE  ConnectionInv'
<1>1. UNCHANGED <<slots, authority, phase, transport, running, blockVars,
                  identityVars, clockVars, failures>>
  BY DEF ExecuteExpired, ExpiryTimer
<1>2. timer' \subseteq Conns
  BY Shapes DEF ExecuteExpired, ExpiryTimer, SlotTypes
<1>3. \/ queue' = queue
      \/ /\ CredOf(k) \in Creds
         /\ \E kind \in {"expired", "expiry"} : Enqueue(CredOf(k), Task(kind, k, 0, None))
  BY Shapes DEF ExecuteExpired, ExpiryTimer, Effective, HoldsSlot
<1>4. queue' \in [Creds -> Seq(Tasks)] /\ \A d \in Creds : Grows(d)
  <2>1. CASE queue' = queue
    BY <2>1, Shapes DEF Grows, SlotTypes
  <2>2. CASE queue' # queue
    <3>1. PICK kind \in {"expired", "expiry"} :
            CredOf(k) \in Creds /\ Enqueue(CredOf(k), Task(kind, k, 0, None))
      BY <1>3, <2>2
    <3>2. kind \in Kinds /\ 0 \in 0..MaxGeneration /\ kind # "connect"
      BY CoordinatorBounds DEF Kinds
    <3>3. QED BY <3>1, <3>2, TaskType, EnqueueGrows
  <2>3. QED BY <2>1, <2>2
<1>5. TypeOK'
  BY <1>1, <1>2, <1>4, Shapes
  DEF TypeOK, SlotTypes, BlockTypes, blockVars, identityVars, clockVars
<1>6. (\A j \in Conns : Moves(j)) /\ \A j \in Conns : running'[j] > 0 => HoldsSlot(j)
  BY <1>1, Shapes DEF Moves, ConnInv
<1>7. QED BY <1>1, <1>4, <1>5, <1>6, QuietCallKeeps DEF blockVars, identityVars

\* rotate and revoke: what they block is what their transition will close.
LEMMA RotateKeeps ==
  ASSUME ConnectionInv, NEW c \in Creds, NEW generation \in 1..MaxGeneration,
         RotateCredential(c, generation)
  PROVE  ConnectionInv'
<1> DEFINE task == Task("rotate", None, generation, None)
<1>1. /\ retired' = [retired EXCEPT ![c] = IF @ < generation THEN generation ELSE @]
      /\ Enqueue(c, task)
      /\ UNCHANGED <<slots, authority, phase, transport, running, timer, revoked,
                     archived, accepting, identityVars, clockVars, failures>>
  BY DEF RotateCredential
<1>2. /\ task \in Tasks /\ task.stage = "queued" /\ task.kind = "rotate"
      /\ task.generation = generation
  BY TaskType DEF Kinds
<1> HIDE DEF task
<1>3. /\ queue' \in [Creds -> Seq(Tasks)] /\ \A d \in Creds : Grows(d)
      /\ queue'[c] = Append(queue[c], task)
  BY <1>1, <1>2, EnqueueGrows, EnqueueMoves, Shapes
<1>4. retired' \in [Creds -> 0..MaxGeneration]
  BY <1>1, Shapes DEF BlockTypes
<1>5. TypeOK'
  BY <1>1, <1>3, <1>4, Shapes DEF TypeOK, SlotTypes, BlockTypes, identityVars, clockVars
<1>6. (\A j \in Conns : Moves(j)) /\ \A j \in Conns : running'[j] > 0 => HoldsSlot(j)
  BY <1>1, Shapes DEF Moves, ConnInv
<1>7. \A g : g <= generation => Rotating(c, g)'
  BY <1>1, <1>2, <1>3, PendingAfterAppend, Shapes
<1>8. \A d \in Creds : \A g : g <= retired'[d] => g <= retired[d] \/ Rotating(d, g)'
  BY <1>1, <1>7, Shapes DEF BlockTypes
<1>9. QED BY <1>1, <1>3, <1>5, <1>6, <1>8, QuietCallKeeps DEF identityVars

LEMMA RevokeKeeps ==
  ASSUME ConnectionInv, NEW c \in Creds, RevokeCredential(c)
  PROVE  ConnectionInv'
<1> DEFINE task == Task("revoke", None, 0, None)
<1>1. /\ revoked' = revoked \cup {c} /\ Enqueue(c, task)
      /\ UNCHANGED <<slots, authority, phase, transport, running, timer, retired,
                     archived, accepting, identityVars, clockVars, failures>>
  BY DEF RevokeCredential
<1>2. task \in Tasks /\ task.stage = "queued" /\ task.kind = "revoke"
  BY TaskType, CoordinatorBounds DEF Kinds
<1> HIDE DEF task
<1>3. /\ queue' \in [Creds -> Seq(Tasks)] /\ \A d \in Creds : Grows(d)
      /\ queue'[c] = Append(queue[c], task)
  BY <1>1, <1>2, EnqueueGrows, EnqueueMoves, Shapes
<1>4. TypeOK'
  BY <1>1, <1>3, Shapes DEF TypeOK, SlotTypes, BlockTypes, identityVars, clockVars
<1>5. (\A j \in Conns : Moves(j)) /\ \A j \in Conns : running'[j] > 0 => HoldsSlot(j)
  BY <1>1, Shapes DEF Moves, ConnInv
<1>6. Revoking(c)'
  BY <1>1, <1>2, <1>3, PendingAfterAppend, Shapes
<1>7. \A d \in Creds : d \in revoked' => d \in revoked \/ Revoking(d)'
  BY <1>1, <1>6
<1>8. QED BY <1>1, <1>3, <1>4, <1>5, <1>7, QuietCallKeeps DEF identityVars

\* Archiving a Show reaches the credentials the coordinator knows of it.
LEMMA ArchiveKeeps ==
  ASSUME ConnectionInv, NEW s \in Shows, ArchiveShow(s)
  PROVE  ConnectionInv'
<1> DEFINE task == Task("archive", None, 0, s)
<1>1. /\ archived' = archived \cup {s}
      /\ queue' = [c \in Creds |-> IF credentialShows[c] = s
                                   THEN Append(queue[c], task) ELSE queue[c]]
      /\ UNCHANGED <<slots, authority, phase, transport, running, timer, retired,
                     revoked, accepting, identityVars, clockVars, failures>>
  BY DEF ArchiveShow, AffectedCredentials
<1>2. task \in Tasks /\ task.stage = "queued" /\ task.kind = "archive" /\ task.show = s
  BY TaskType, CoordinatorBounds DEF Kinds
<1> HIDE DEF task
<1>3. \A d \in Creds : Grows(d)
  BY <1>1, <1>2 DEF Grows
<1>4. queue' \in [Creds -> Seq(Tasks)]
  <2>1. ASSUME NEW c \in Creds
        PROVE queue[c] \in Seq(Tasks) /\ Append(queue[c], task) \in Seq(Tasks)
    <3>1. queue[c] \in Seq(Tasks)
      BY Shapes DEF SlotTypes
    <3>2. QED BY <1>2, <3>1
  <2>2. QED BY <1>1, <2>1
<1>5. TypeOK'
  BY <1>1, <1>4, Shapes DEF TypeOK, SlotTypes, BlockTypes, identityVars, clockVars
<1>6. (\A j \in Conns : Moves(j)) /\ \A j \in Conns : running'[j] > 0 => HoldsSlot(j)
  BY <1>1, Shapes DEF Moves, ConnInv
<1>7. ASSUME NEW c \in Creds, credentialShows[c] = s PROVE Archiving(c, s)'
  <2>1. queue'[c] = Append(queue[c], task)
    BY <1>1, <1>7
  <2>2. QED BY <1>1, <1>2, <2>1, PendingAfterAppend, Shapes
<1>8. \A c \in Creds : \A show : show \in archived' =>
        show \in archived \/ (credentialShows[c] = show => Archiving(c, show)')
  BY <1>1, <1>7
<1>9. QED BY <1>1, <1>3, <1>5, <1>6, <1>8, QuietCallKeeps DEF identityVars

LEMMA ShutdownKeeps ==
  ASSUME ConnectionInv, Shutdown
  PROVE  ConnectionInv'
<1>1. /\ accepting' = FALSE
      /\ phase' = [k \in Conns |-> IF HoldsSlot(k) THEN "quiescing" ELSE phase[k]]
      /\ queue' = [c \in Creds |->
           IF slots[c] # None THEN Append(queue[c], Task("shutdown", slots[c], 0, None))
                              ELSE queue[c]]
      /\ UNCHANGED <<slots, authority, transport, running, timer, retired,
                     revoked, archived, identityVars, clockVars, failures>>
  BY DEF Shutdown
<1>2. \A c \in Creds : LET task == Task("shutdown", slots[c], 0, None) IN
        task \in Tasks /\ task.stage = "queued" /\ task.kind # "connect"
  <2>1. \A c \in Creds : slots[c] \in Conns \cup {None}
    BY Shapes DEF SlotTypes
  <2>2. "shutdown" \in Kinds /\ 0 \in 0..MaxGeneration /\ None \in Shows \cup {None}
    BY CoordinatorBounds DEF Kinds
  <2>3. ASSUME NEW c \in Creds
        PROVE LET task == Task("shutdown", slots[c], 0, None) IN
              task \in Tasks /\ task.stage = "queued" /\ task.kind # "connect"
    <3>1. PICK k \in Conns \cup {None} : k = slots[c]
      BY <2>1
    <3>2. QED BY <2>2, <3>1, TaskType
  <2>4. QED BY <2>3
<1>3. \A d \in Creds : Grows(d)
  BY <1>1, <1>2 DEF Grows
<1>4. queue' \in [Creds -> Seq(Tasks)]
  <2>1. ASSUME NEW c \in Creds
        PROVE /\ queue[c] \in Seq(Tasks)
              /\ Append(queue[c], Task("shutdown", slots[c], 0, None)) \in Seq(Tasks)
    <3>1. queue[c] \in Seq(Tasks) /\ Task("shutdown", slots[c], 0, None) \in Tasks
      BY <1>2, Shapes DEF SlotTypes
    <3>2. QED BY <3>1
  <2>2. QED BY <1>1, <2>1
<1>5. phase' \in [Conns -> {"new", "waiting", "rejected", "active", "quiescing", "gone"}]
  BY <1>1, Shapes DEF SlotTypes
<1>6. TypeOK'
  BY <1>1, <1>4, <1>5, Shapes DEF TypeOK, SlotTypes, BlockTypes, identityVars, clockVars
<1>7. (\A j \in Conns : Moves(j)) /\ \A j \in Conns : running'[j] > 0 => HoldsSlot(j)
  BY <1>1, Shapes DEF Moves, ConnInv
<1>8. QED BY <1>1, <1>3, <1>6, <1>7, QuietCallKeeps DEF identityVars
-----------------------------------------------------------------------------
(***************************************************************************)
(* The transitions of credential c.                                        *)
(***************************************************************************)

\* Nothing of another credential changes.
LEMMA OthersStay ==
  ASSUME ConnectionInv, NEW c \in Creds, NEW d \in Creds \ {c},
         slots'[d] = slots[d], authority' = authority, queue'[d] = queue[d],
         credentialShows'[d] = credentialShows[d],
         UNCHANGED <<retired, revoked, archived>>,
         \A k \in Conns : slots[d] = k => phase'[k] = phase[k],
         \A kind \in BarrierKinds : <<kind, d>> \in failures => <<kind, d>> \in failures'
  PROVE  CredInv(d)' /\ BarrierInv(d)'
<1>1. CredInv(d)'
  BY Shapes DEF CredInv, SlotTypes, CredOf, At
<1>2. StaysPending(d)
  BY PendingStill
<1>3. BarrierInv(d)'
  BY <1>2, Shapes DEF BarrierInv, StaysPending
<1>4. QED BY <1>1, <1>3

\* The barriers of c when the slot, if there is one, is the one it had.
LEMMA SameSlotBarriers ==
  ASSUME ConnectionInv, NEW c \in Creds, slots'[c] = slots[c], authority' = authority,
         UNCHANGED <<retired, revoked, archived>>, StaysPending(c)
  PROVE  BarrierInv(c)'
BY Shapes DEF BarrierInv, StaysPending

LEMMA RejectKeeps ==
  ASSUME ConnectionInv, NEW c \in Creds, NEW k \in Conns, queue[c] # << >>,
         queue[c][1].kind = "connect", queue[c][1].conn = k, phase[k] = "waiting",
         Reject(c, k), UNCHANGED <<authority, running, blockVars, clockVars>>
  PROVE  ConnectionInv'
<1>1. /\ phase' = [phase EXCEPT ![k] = "rejected"] /\ Await(c, "rejecting")
      /\ transport' = [transport EXCEPT ![k] = "closing"]
      /\ UNCHANGED <<slots, authority, running, timer, credentialShows,
                     audienceExpirations, retired, revoked, archived, accepting, now,
                     stale, failures>>
      /\ "rejecting" \in Stages \ {"queued"}
  BY DEF Reject, identityVars, blockVars, clockVars, Stages
<1>2. authority[k] # None /\ ~HoldsSlot(k) /\ \A d \in Creds : slots[d] # k
  BY Shapes, NoneIsNothing DEF ConnInv, CredInv, HoldsSlot
<1>3. /\ queue' \in [Creds -> Seq(Tasks)] /\ \A d \in Creds \ {c} : queue'[d] = queue[d]
      /\ \A stage : At(c, stage)' => stage = "rejecting"
  BY <1>1, AwaitMoves, HeadAfterAwait, Shapes
<1>4. TypeOK'
  BY <1>1, <1>3, Shapes DEF TypeOK, SlotTypes, BlockTypes
<1>5. \A d \in Creds : TaskInv(d)'
  <2>1. KeepsAuthority /\ KeepsWaiting(Connecting(c))
    BY <1>1, Shapes DEF KeepsAuthority, KeepsWaiting, Connecting, SlotTypes
  <2>2. QED BY <1>1, <2>1, TasksAfterAwait, Shapes
<1>6. \A j \in Conns : ConnInv(j)'
  BY <1>1, <1>2, Shapes DEF ConnInv, HoldsSlot, CredOf, SlotTypes
<1>7. \A d \in Creds \ {c} : CredInv(d)' /\ BarrierInv(d)'
  BY <1>1, <1>2, <1>3, OthersStay, Shapes DEF SlotTypes
<1>8. CredInv(c)'
  BY <1>1, <1>2, <1>3, Shapes DEF CredInv, CredOf, SlotTypes
<1>9. BarrierInv(c)'
  BY <1>1, PendingAfterAwait, SameSlotBarriers, Shapes
<1>10. QED BY <1>4, <1>5, <1>6, <1>7, <1>8, <1>9 DEF ConnectionInv

LEMMA StartCloseKeeps ==
  ASSUME ConnectionInv, NEW c \in Creds, queue[c] # << >>, slots[c] # None,
         StartClose(c), UNCHANGED <<slots, authority, running, blockVars, identityVars,
                                    clockVars, failures>>
  PROVE  ConnectionInv'
<1>1. PICK k \in Conns : k = slots[c]
  BY Shapes DEF SlotTypes
<1>2. /\ phase' = [phase EXCEPT ![k] = "quiescing"] /\ Await(c, "closing")
      /\ transport' = [transport EXCEPT ![k] = "closing"] /\ timer' = timer \ {k}
      /\ UNCHANGED <<slots, authority, running, credentialShows,
                     audienceExpirations, retired, revoked, archived, accepting, now,
                     stale, failures>>
      /\ "closing" \in Stages \ {"queued"}
  BY <1>1 DEF StartClose, identityVars, blockVars, clockVars, Stages
<1>3. /\ authority[k] # None /\ CredOf(k) = c /\ HoldsSlot(k)
      /\ phase[k] \in {"active", "quiescing"}
      /\ \A d \in Creds \ {c} : slots[d] # k
  BY <1>1, Shapes, NoneIsNothing DEF CredInv, HoldsSlot
<1>4. /\ queue' \in [Creds -> Seq(Tasks)] /\ \A d \in Creds \ {c} : queue'[d] = queue[d]
      /\ \A stage : At(c, stage)' => stage = "closing"
  BY <1>2, AwaitMoves, HeadAfterAwait, Shapes
<1>5. TypeOK'
  BY <1>2, <1>4, Shapes DEF TypeOK, SlotTypes, BlockTypes
<1>6. \A d \in Creds : TaskInv(d)'
  <2>1. KeepsAuthority /\ KeepsWaiting(Connecting(c))
    BY <1>2, <1>3, Shapes DEF KeepsAuthority, KeepsWaiting, Connecting, SlotTypes
  <2>2. QED BY <1>2, <2>1, TasksAfterAwait, Shapes
<1>7. \A j \in Conns : ConnInv(j)'
  BY <1>2, <1>3, Shapes DEF ConnInv, HoldsSlot, CredOf, SlotTypes
<1>8. \A d \in Creds \ {c} : CredInv(d)' /\ BarrierInv(d)'
  BY <1>2, <1>3, <1>4, OthersStay, Shapes DEF SlotTypes
<1>9. CredInv(c)'
  BY <1>1, <1>2, <1>3, <1>4, Shapes DEF CredInv, CredOf, SlotTypes
<1>10. BarrierInv(c)'
  BY <1>2, PendingAfterAwait, SameSlotBarriers, Shapes
<1>11. QED BY <1>5, <1>6, <1>7, <1>8, <1>9, <1>10 DEF ConnectionInv

\* A lease is granted only into a free slot, past every block.
LEMMA InstallKeeps ==
  ASSUME ConnectionInv, NEW c \in Creds, NEW k \in Conns, NEW scheduled \in BOOLEAN,
         queue[c] # << >>, queue[c][1].kind = "connect", queue[c][1].conn = k,
         phase[k] = "waiting", slots[c] = None, ~AuthorityBlock(authority[k]),
         Install(c, k, scheduled), UNCHANGED <<authority, running, blockVars, clockVars>>
  PROVE  ConnectionInv'
<1>1. /\ slots' = [slots EXCEPT ![c] = k]
      /\ credentialShows' = [credentialShows EXCEPT ![c] = authority[k].show]
      /\ audienceExpirations' = [audienceExpirations EXCEPT
           ![c][authority[k].generation] = authority[k].expires]
      /\ UNCHANGED <<authority, running, retired, revoked, archived, accepting, now, stale>>
  BY DEF Install, blockVars, clockVars
<1>2. \/ /\ phase' = [phase EXCEPT ![k] = "active"] /\ timer' = timer \cup {k}
         /\ Finish(c, TRUE) /\ transport' = transport
      \/ /\ phase' = [phase EXCEPT ![k] = "quiescing"] /\ Await(c, "closing")
         /\ transport' = [transport EXCEPT ![k] = "closing"] /\ timer' = timer
         /\ failures' = failures
  BY DEF Install
<1>3. "closing" \in Stages \ {"queued"} /\ 1 \in 1..Len(queue[c])
  BY FirstTask, Shapes DEF Stages
<1>4. /\ authority[k] # None /\ authority[k].credential = c /\ CredOf(k) = c
      /\ \A d \in Creds : slots[d] # k
  BY <1>3, Shapes, NoneIsNothing DEF TaskInv, TasksFit, WaitsFor, CredOf, CredInv
<1>5. /\ queue' \in [Creds -> Seq(Tasks)] /\ \A d \in Creds \ {c} : queue'[d] = queue[d]
      /\ ~At(c, "closed")'
  BY <1>2, <1>3, AwaitMoves, HeadAfterAwait, FinishMoves, HeadAfterFinish, Shapes
<1>6. /\ failures' \subseteq BarrierKinds \X Creds
      /\ \A d \in Creds, kind \in BarrierKinds :
           <<kind, d>> \in failures => <<kind, d>> \in failures'
  BY <1>2, Shapes DEF Finish, BlockTypes
<1>7. TypeOK'
  <2>1. audienceExpirations' \in [Creds -> [1..MaxGeneration -> Nat]]
    BY <1>1, <1>4, Shapes DEF BlockTypes
  <2>2. credentialShows' \in [Creds -> Shows \cup {None}]
    BY <1>1, <1>4, Shapes DEF BlockTypes
  <2>3. SlotTypes'
    <3>1. slots' \in [Creds -> Conns \cup {None}] /\ UNCHANGED <<authority, running>>
      BY <1>1, Shapes DEF SlotTypes
    <3>2. phase' \in [Conns -> {"new", "waiting", "rejected", "active",
                               "quiescing", "gone"}]
      <4>1. CASE phase' = [phase EXCEPT ![k] = "active"]
        BY <4>1, Shapes DEF SlotTypes
      <4>2. CASE phase' = [phase EXCEPT ![k] = "quiescing"]
        BY <4>2, Shapes DEF SlotTypes
      <4>3. QED BY <1>2, <4>1, <4>2
    <3>3. transport' \in [Conns -> {"open", "closing", "closed", "failed"}]
      BY <1>2, Shapes DEF SlotTypes
    <3>4. timer' \subseteq Conns
      BY <1>2, Shapes DEF SlotTypes
    <3>5. QED BY <1>5, <3>1, <3>2, <3>3, <3>4, Shapes DEF SlotTypes
  <2>4. QED BY <1>1, <1>6, <2>1, <2>2, <2>3, Shapes DEF TypeOK, BlockTypes
<1>8. \A d \in Creds : TaskInv(d)'
  <2>1. KeepsAuthority /\ KeepsWaiting(Connecting(c))
    BY <1>1, <1>2, Shapes DEF KeepsAuthority, KeepsWaiting, Connecting, SlotTypes
  <2>2. QED BY <1>2, <1>3, <2>1, TasksAfterAwait, TasksAfterFinish, Shapes
<1>9. phase'[k] \in {"active", "quiescing"} /\ slots'[c] = k
        /\ \A j \in Conns \ {k} : phase'[j] = phase[j] /\ transport'[j] = transport[j]
  BY <1>1, <1>2, Shapes DEF SlotTypes
<1>10. ASSUME NEW j \in Conns PROVE ConnInv(j)'
  <2>1. CASE j = k
    BY <1>1, <1>4, <1>9, <2>1 DEF ConnInv, HoldsSlot, CredOf
  <2>2. CASE j # k
    <3>1. ConnInv(j) /\ phase'[j] = phase[j] /\ transport'[j] = transport[j]
      BY <1>9, <2>2, Shapes
    <3>2. HoldsSlot(j) => HoldsSlot(j)'
      BY <1>1, <2>2, Shapes, NoneIsNothing DEF HoldsSlot, CredOf, SlotTypes
    <3>3. QED BY <1>1, <3>1, <3>2 DEF ConnInv
  <2>3. QED BY <2>1, <2>2
<1>11. \A d \in Creds \ {c} : CredInv(d)' /\ BarrierInv(d)'
  BY <1>1, <1>4, <1>5, <1>6, <1>9, OthersStay, Shapes DEF SlotTypes, BlockTypes
<1>12. CredInv(c)'
  <2>1. credentialShows'[c] = authority[k].show
    BY <1>1, Shapes DEF BlockTypes
  <2>2. k # None
    BY NoneIsNothing
  <2>3. QED BY <1>1, <1>4, <1>5, <1>9, <2>1, <2>2 DEF CredInv, CredOf
<1>13. BarrierInv(c)'
  <2>1. /\ c \notin revoked /\ ~(authority[k].generation <= retired[c])
        /\ authority[k].show \notin archived
    BY <1>4 DEF AuthorityBlock
  <2>2. QED BY <1>1, <1>9, <2>1 DEF BarrierInv
<1>14. QED BY <1>7, <1>8, <1>10, <1>11, <1>12, <1>13 DEF ConnectionInv

LEMMA ConnectTransitionKeeps ==
  ASSUME ConnectionInv, NEW c \in Creds, NEW scheduled \in BOOLEAN,
         BeginConnect(c, scheduled) \/ ResumeConnect(c, scheduled)
  PROVE  ConnectionInv'
<1>1. /\ queue[c] # << >> /\ queue[c][1].kind = "connect" /\ 1 \in 1..Len(queue[c])
      /\ UNCHANGED <<authority, running, blockVars, clockVars>>
  BY FirstTask, Shapes DEF BeginConnect, ResumeConnect, At
<1>2. PICK k \in Conns : k = queue[c][1].conn
  BY <1>1, Shapes DEF TaskInv, TasksFit, WaitsFor
<1>3. phase[k] = "waiting"
  BY <1>1, <1>2, Shapes DEF BeginConnect, ResumeConnect, At, TaskInv, TasksFit, WaitsFor
<1>4. \/ Reject(c, k)
      \/ StartClose(c) /\ slots[c] # None /\ UNCHANGED <<slots, identityVars, failures>>
      \/ Install(c, k, scheduled) /\ slots[c] = None /\ ~AuthorityBlock(authority[k])
  BY <1>2, Shapes DEF BeginConnect, ResumeConnect, CredInv
<1>5. QED BY <1>1, <1>2, <1>3, <1>4, RejectKeeps, StartCloseKeeps, InstallKeeps

\* A transition ends without touching a slot.
LEMMA FinishKeeps ==
  ASSUME ConnectionInv, NEW c \in Creds, queue[c] # << >>, NEW ok \in BOOLEAN,
         Finish(c, ok),
         UNCHANGED <<slots, authority, phase, transport, running, timer, blockVars,
                     identityVars, clockVars>>,
         (ok /\ slots[c] # None) =>
           /\ queue[c][1].kind # "revoke"
           /\ queue[c][1].kind = "rotate" =>
                ~(authority[slots[c]].generation <= queue[c][1].generation)
           /\ queue[c][1].kind = "archive" =>
                authority[slots[c]].show # queue[c][1].show
  PROVE  ConnectionInv'
<1>1. UNCHANGED <<slots, authority, phase, transport, running, timer, credentialShows,
                  audienceExpirations, retired, revoked, archived, accepting, now, stale>>
  BY DEF identityVars, blockVars, clockVars
<1>2. /\ queue' \in [Creds -> Seq(Tasks)] /\ \A d \in Creds \ {c} : queue'[d] = queue[d]
      /\ \A stage : At(c, stage)' => stage = "queued"
  BY FinishMoves, HeadAfterFinish, Shapes
<1>3. /\ failures' \subseteq BarrierKinds \X Creds
      /\ \A d \in Creds, kind \in BarrierKinds :
           <<kind, d>> \in failures => <<kind, d>> \in failures'
  BY Shapes DEF Finish, BlockTypes
<1>4. TypeOK'
  BY <1>1, <1>2, <1>3, Shapes DEF TypeOK, SlotTypes, BlockTypes
<1>5. \A d \in Creds : TaskInv(d)'
  <2>1. KeepsAuthority /\ KeepsWaiting(Connecting(c))
    BY <1>1 DEF KeepsAuthority, KeepsWaiting
  <2>2. QED BY <2>1, TasksAfterFinish, Shapes
<1>6. \A j \in Conns : ConnInv(j)'
  BY <1>1, Shapes DEF ConnInv, HoldsSlot, CredOf
<1>7. \A d \in Creds \ {c} : CredInv(d)' /\ BarrierInv(d)'
  BY <1>1, <1>2, <1>3, OthersStay
<1>8. CredInv(c)'
  BY <1>1, <1>2, Shapes DEF CredInv, CredOf
<1>9. BarrierInv(c)'
  <2>1. SUFFICES ASSUME slots[c] # None PROVE BarrierInv(c)'
    BY <1>1 DEF BarrierInv
  <2>2. LET q == queue[c][1] IN
         /\ Revoking(c) => Revoking(c)' \/ (ok /\ q.kind = "revoke")
         /\ \A g : Rotating(c, g) =>
              Rotating(c, g)' \/ (ok /\ q.kind = "rotate" /\ g <= q.generation)
         /\ \A s : Archiving(c, s) =>
              Archiving(c, s)' \/ (ok /\ q.kind = "archive" /\ q.show = s)
    BY PendingAfterFinish, Shapes
  <2>3. QED BY <1>1, <2>1, <2>2, Shapes DEF BarrierInv
<1>10. QED BY <1>4, <1>5, <1>6, <1>7, <1>8, <1>9 DEF ConnectionInv

LEMMA EndConnectKeeps ==
  ASSUME ConnectionInv, NEW c \in Creds, EndConnect(c)
  PROVE  ConnectionInv'
BY FinishKeeps DEF EndConnect

LEMMA BarrierTransitionKeeps ==
  ASSUME ConnectionInv, NEW c \in Creds, BeginBarrier(c) \/ EndBarrier(c)
  PROVE  ConnectionInv'
<1>1. CASE BeginBarrier(c) /\ slots[c] # None /\ Closes(queue[c][1], slots[c])
  BY <1>1, StartCloseKeeps DEF BeginBarrier, At
<1>2. CASE BeginBarrier(c) /\ ~(slots[c] # None /\ Closes(queue[c][1], slots[c]))
  <2>1. /\ Finish(c, TRUE) /\ queue[c] # << >>
        /\ UNCHANGED <<slots, authority, phase, transport, running, timer, blockVars,
                       identityVars, clockVars>>
    BY <1>2 DEF BeginBarrier, At
  <2>2. slots[c] # None =>
           /\ queue[c][1].kind # "revoke"
           /\ queue[c][1].kind = "rotate" =>
                ~(authority[slots[c]].generation <= queue[c][1].generation)
           /\ queue[c][1].kind = "archive" =>
                authority[slots[c]].show # queue[c][1].show
    BY <1>2 DEF Closes
  <2>3. QED BY <2>1, <2>2, FinishKeeps
<1>3. CASE EndBarrier(c)
  <2>1. /\ Finish(c, At(c, "closed")) /\ queue[c] # << >>
        /\ UNCHANGED <<slots, authority, phase, transport, running, timer, blockVars,
                       identityVars, clockVars>>
    BY <1>3 DEF EndBarrier, At
  <2>2. At(c, "closed") => slots[c] = None
    BY Shapes DEF CredInv
  <2>3. At(c, "closed") \in BOOLEAN
    BY DEF At
  <2>4. QED BY <2>1, <2>2, <2>3, FinishKeeps
<1>4. QED BY <1>1, <1>2, <1>3

\* The close is over: a drained slot is free, a failed one stays closed to
\* operations.
LEMMA EndCloseKeeps ==
  ASSUME ConnectionInv, NEW c \in Creds, EndClose(c)
  PROVE  ConnectionInv'
<1>1. At(c, "closing") /\ queue[c] # << >> /\ slots[c] # None
  BY Shapes DEF EndClose, At, CredInv
<1>2. PICK k \in Conns : k = slots[c]
  BY <1>1, Shapes DEF SlotTypes
<1>3. /\ authority[k] # None /\ CredOf(k) = c /\ HoldsSlot(k)
      /\ phase[k] \in {"active", "quiescing"}
      /\ \A d \in Creds \ {c} : slots[d] # k
  BY <1>1, <1>2, Shapes, NoneIsNothing DEF CredInv, HoldsSlot
<1>4. /\ transport[k] \in {"closed", "failed"} /\ running[k] = 0 /\ Await(c, transport[k])
      /\ UNCHANGED <<authority, transport, running, timer, credentialShows,
                     audienceExpirations, retired, revoked, archived, accepting, now, stale>>
      /\ \/ /\ transport[k] = "closed" /\ slots' = [slots EXCEPT ![c] = None]
            /\ phase' = [phase EXCEPT ![k] = "gone"]
            /\ failures' = {f \in failures : f[2] # c}
         \/ transport[k] = "failed" /\ UNCHANGED <<slots, phase, failures>>
  BY <1>2 DEF EndClose, identityVars, blockVars, clockVars
<1>5. transport[k] \in Stages \ {"queued"} /\ transport[k] # "closing"
  BY <1>4 DEF Stages
<1>6. /\ queue' \in [Creds -> Seq(Tasks)] /\ \A d \in Creds \ {c} : queue'[d] = queue[d]
      /\ \A stage : At(c, stage)' => stage = transport[k]
  BY <1>1, <1>4, <1>5, AwaitMoves, HeadAfterAwait, Shapes
<1>7. /\ failures' \subseteq BarrierKinds \X Creds
      /\ \A d \in Creds \ {c}, kind \in BarrierKinds :
           <<kind, d>> \in failures => <<kind, d>> \in failures'
  BY <1>4, Shapes DEF BlockTypes
<1>8. TypeOK'
  BY <1>4, <1>6, <1>7, Shapes DEF TypeOK, SlotTypes, BlockTypes
<1>9. \A d \in Creds : TaskInv(d)'
  <2>1. KeepsAuthority /\ KeepsWaiting(Connecting(c))
    BY <1>3, <1>4, Shapes DEF KeepsAuthority, KeepsWaiting, SlotTypes
  <2>2. QED BY <1>1, <1>4, <1>5, <2>1, TasksAfterAwait, Shapes
<1>10. ASSUME NEW j \in Conns PROVE ConnInv(j)'
  <2>1. CASE j = k
    BY <1>3, <1>4, <2>1, Shapes DEF ConnInv, HoldsSlot, CredOf, SlotTypes
  <2>2. CASE j # k
    <3>1. ConnInv(j) /\ phase'[j] = phase[j]
      BY <1>4, <2>2, Shapes DEF SlotTypes
    <3>2. HoldsSlot(j) => HoldsSlot(j)'
      BY <1>2, <1>4, <2>2, Shapes DEF HoldsSlot, CredOf, SlotTypes
    <3>3. QED BY <1>4, <3>1, <3>2 DEF ConnInv
  <2>3. QED BY <2>1, <2>2
<1>11. \A d \in Creds \ {c} : CredInv(d)' /\ BarrierInv(d)'
  BY <1>3, <1>4, <1>6, <1>7, OthersStay, Shapes DEF SlotTypes
<1>12. CredInv(c)' /\ BarrierInv(c)'
  <2>1. CASE transport[k] = "closed"
    <3>1. slots'[c] = None
      BY <1>4, <2>1, Shapes DEF SlotTypes
    <3>2. QED BY <1>5, <1>6, <3>1 DEF CredInv, BarrierInv
  <2>2. CASE transport[k] = "failed"
    <3>1. UNCHANGED <<slots, phase, failures>>
      BY <1>4, <2>2
    <3>2. CredInv(c)'
      BY <1>4, <1>5, <1>6, <2>2, <3>1, Shapes DEF CredInv, CredOf
    <3>3. BarrierInv(c)'
      BY <1>1, <1>4, <1>5, <3>1, PendingAfterAwait, SameSlotBarriers, Shapes
    <3>4. QED BY <3>2, <3>3
  <2>3. QED BY <1>4, <2>1, <2>2
<1>13. QED BY <1>8, <1>9, <1>10, <1>11, <1>12 DEF ConnectionInv

LEMMA StepsKeepConnections ==
  ASSUME ConnectionInv, [Next]_vars
  PROVE  ConnectionInv'
<1>1. ASSUME Calls PROVE ConnectionInv'
  BY <1>1, ConnectKeeps, OperationsKeep, ExpiryKeeps, RetireKeeps, RotateKeeps,
     RevokeKeeps, ArchiveKeeps, ShutdownKeeps DEF Calls
<1>2. ASSUME Environment PROVE ConnectionInv'
  BY <1>2, WorldKeeps, OperationsKeep, ExpiryKeeps
  DEF Environment, RescheduleFails, Deadline
<1>3. ASSUME NEW c \in Creds, Transition(c) PROVE ConnectionInv'
  BY <1>3, ConnectTransitionKeeps, EndConnectKeeps, BarrierTransitionKeeps,
     EndCloseKeeps DEF Transition
<1>4. ASSUME UNCHANGED vars PROVE ConnectionInv'
  <2>1. TypeOK' /\ UNCHANGED <<slots, authority, phase, transport, running, timer, queue,
                    credentialShows, retired, revoked, archived, failures>>
    BY <1>4, Shapes DEF vars, blockVars, identityVars, clockVars, TypeOK, SlotTypes, BlockTypes
  <2>2. /\ \A j \in Conns : Moves(j) /\ (running'[j] > 0 => HoldsSlot(j))
        /\ \A d \in Creds : Grows(d)
    BY <2>1, Shapes DEF Moves, Grows, ConnInv
  <2>3. QED BY <2>1, <2>2, QuietCallKeeps
<1>5. QED BY <1>1, <1>2, <1>3, <1>4 DEF Next

LEMMA InitConnections ==
  ASSUME Init
  PROVE  ConnectionInv
<1>1. TypeOK
  BY CoordinatorBounds DEF Init, TypeOK, SlotTypes, BlockTypes
<1>2. \A k \in Conns : ConnInv(k)
  BY DEF Init, ConnInv
<1>3. \A c \in Creds : CredInv(c) /\ TaskInv(c) /\ BarrierInv(c)
  <2>1. SUFFICES ASSUME NEW c \in Creds PROVE CredInv(c) /\ TaskInv(c) /\ BarrierInv(c)
    OBVIOUS
  <2>2. slots[c] = None /\ queue[c] = << >>
    BY DEF Init
  <2>3. QED BY <2>2 DEF CredInv, TaskInv, TasksFit, BarrierInv, At
<1>4. QED BY <1>1, <1>2, <1>3 DEF ConnectionInv
-----------------------------------------------------------------------------
\* The invariant holds in every state the coordinator reaches.
THEOREM ConnectionInvariant == Spec => []ConnectionInv
<1>1. ConnectionInv /\ [Next]_vars => ConnectionInv'
  BY StepsKeepConnections
<1>2. Init => ConnectionInv
  BY InitConnections
<1>3. QED BY <1>1, <1>2, PTL DEF Spec

\* A lease never overlaps its predecessor: a connection that no longer holds
\* its credential's slot is closed and runs nothing, in whatever order
\* replacements, barriers, timers and failing closes come.
THEOREM LeasesNeverOverlap == Spec => []PredecessorsAreGone
<1>1. ConnectionInv => PredecessorsAreGone
  <2>1. SUFFICES ASSUME ConnectionInv, NEW k \in Conns, authority[k] # None,
                        slots[CredOf(k)] # k
        PROVE /\ running[k] = 0
              /\ phase[k] = "gone" => transport[k] = "closed"
              /\ phase[k] \notin {"active", "quiescing"}
    BY DEF PredecessorsAreGone
  <2>2. ConnInv(k) /\ running[k] \in Nat /\ ~HoldsSlot(k)
    BY <2>1, Shapes DEF SlotTypes, HoldsSlot
  <2>3. QED BY <2>2 DEF ConnInv
<1>2. QED BY <1>1, ConnectionInvariant, PTL

\* A rotation, revocation or archival that resolved holds: no connection it is
\* about has the slot, also one whose connect was under way when it was called.
THEOREM ResolvedBarriersHold == Spec => []BarriersHold
<1>1. ConnectionInv => BarriersHold
  <2>1. SUFFICES ASSUME ConnectionInv, NEW c \in Creds, slots[c] # None
        PROVE /\ c \in revoked => ~Resolved("revoke", c)
              /\ authority[slots[c]].generation <= retired[c] => ~Resolved("rotate", c)
              /\ authority[slots[c]].show \in archived => ~Resolved("archive", c)
    BY DEF BarriersHold
  <2>2. BarrierInv(c)
    BY <2>1, Shapes
  <2>3. QED BY <2>1, <2>2 DEF BarrierInv, Revoking, Rotating, Archiving, Resolved
<1>2. QED BY <1>1, ConnectionInvariant, PTL
=============================================================================
