---------------------- MODULE DeviceConnectionAuthority ----------------------
(***************************************************************************)
(* DeviceConnectionAuthorityCoordinator: at most one effective connection  *)
(* per device credential, and barriers (replacement, rotation, revocation, *)
(* expiry, Show archival, shutdown) that stop new operations at once and   *)
(* resolve only when the affected connection is closed and drained.        *)
(*                                                                         *)
(* Each credential has a queue of transitions: enqueue counts a transition *)
(* immediately, the transition runs when the ones before it are over, and  *)
(* the stretches of its code between two awaits are the actions here.      *)
(* Connections, operations, timers and callers interleave freely between   *)
(* them.  A connection stands for its lease and its slot.                  *)
(***************************************************************************)
EXTENDS Integers, Sequences

CONSTANTS
  Creds, Shows, Conns,
  Authorities,      \* what a connection may present
  None,
  MaxGeneration,    \* bound: credential generations
  MaxTime,          \* bound: the clock
  MaxRunning,       \* bound: operations running on one connection
  MaxQueue          \* bound: transitions a caller adds to

ASSUME CoordinatorBounds ==
  /\ MaxGeneration \in Nat /\ MaxTime \in Nat
  /\ MaxRunning \in Nat /\ MaxQueue \in Nat
ASSUME AuthorityShape ==
  Authorities \subseteq [credential : Creds, generation : 1..MaxGeneration,
                         show : Shows, expires : Nat]
ASSUME NoneIsNothing ==
  None \notin Conns /\ None \notin Shows /\ None \notin Authorities

Kinds == {"connect", "retire", "rotate", "revoke", "archive", "shutdown",
          "expired", "expiry"}
BarrierKinds == {"rotate", "revoke", "archive", "shutdown"}
\* Where a transition is: not begun, awaiting closeSlot, resumed by a clean
\* or a failed close, awaiting the close of the rejected connection.
Stages == {"queued", "closing", "closed", "failed", "rejecting"}
Tasks == [kind : Kinds, conn : Conns \cup {None},
          generation : 0..MaxGeneration, show : Shows \cup {None},
          stage : Stages]

VARIABLES
  slots,            \* credential -> the connection that holds its slot
  authority,        \* connection -> the authority it presented, or None
  phase,            \* connection -> life of its slot
  transport,        \* connection -> state of its close()
  running,          \* connection -> runningOperations
  timer,            \* connections with an expiry scheduled
  queue,            \* credential -> transitions, the first may have begun
  retired, revoked, archived, accepting,
  credentialShows, audienceExpirations,
  now,
  stale,            \* connections whose currency witness answers false
  failures          \* <<kind, credential>> of barriers that threw while the
                    \* connection they could not close holds its slot

blockVars == <<retired, revoked, archived, accepting>>
identityVars == <<credentialShows, audienceExpirations>>
clockVars == <<now, stale>>
vars == <<slots, authority, phase, transport, running, timer, queue,
          blockVars, identityVars, clockVars, failures>>

CredOf(k) == authority[k].credential
HoldsSlot(k) == authority[k] # None /\ slots[CredOf(k)] = k
Bounded(c) == Len(queue[c]) < MaxQueue

\* The first transition of c is at the given stage.
At(c, stage) == queue[c] # << >> /\ queue[c][1].stage = stage
-----------------------------------------------------------------------------
(***************************************************************************)
(* The queue.  A transition is counted from the call until it ends, thrown *)
(* or not; then the next one may begin.                                    *)
(***************************************************************************)
Task(kind, k, generation, show) ==
  [kind |-> kind, conn |-> k, generation |-> generation, show |-> show,
   stage |-> "queued"]

Enqueue(c, task) == queue' = [queue EXCEPT ![c] = Append(@, task)]

Await(c, stage) == queue' = [queue EXCEPT ![c][1].stage = stage]

\* Fault: a transition that throws stays at the head of its queue.
FinishOnlyIfOk(c, ok) ==
  /\ queue' = IF ok THEN [queue EXCEPT ![c] = Tail(@)] ELSE queue
  /\ UNCHANGED failures

Finish(c, ok) ==
  /\ queue' = [queue EXCEPT ![c] = Tail(@)]
  /\ failures' = IF ok \/ queue[c][1].kind \notin BarrierKinds THEN failures
                 ELSE failures \cup {<<queue[c][1].kind, c>>}
-----------------------------------------------------------------------------
(***************************************************************************)
(* closeSlot: quiesce, cancel the expiry, start the transport's close,     *)
(* then await its outcome and the end of the running operations.           *)
(***************************************************************************)
StartClose(c) ==
  LET k == slots[c] IN
  /\ phase' = [phase EXCEPT ![k] = "quiescing"]
  /\ timer' = timer \ {k}
  /\ transport' = [transport EXCEPT ![k] = "closing"]
  /\ Await(c, "closing")

\* Fault: the close does not wait for the running operations.
EndCloseUndrained(c) ==
  LET k == slots[c] IN
  /\ At(c, "closing") /\ transport[k] \in {"closed", "failed"}
  /\ slots' = [slots EXCEPT ![c] = None]
  /\ phase' = [phase EXCEPT ![k] = "gone"]
  /\ Await(c, "closed")
  /\ UNCHANGED <<authority, transport, running, timer, blockVars,
                 identityVars, clockVars, failures>>

\* Both are over: a clean close frees the slot, a failed one leaves it
\* quiescing.
EndClose(c) ==
  LET k == slots[c] IN
  /\ At(c, "closing") /\ transport[k] \in {"closed", "failed"}
  /\ running[k] = 0
  /\ IF transport[k] = "closed"
     THEN /\ slots' = [slots EXCEPT ![c] = None]
          /\ phase' = [phase EXCEPT ![k] = "gone"]
          /\ failures' = {f \in failures : f[2] # c}
     ELSE UNCHANGED <<slots, phase, failures>>
  /\ Await(c, transport[k])
  /\ UNCHANGED <<authority, transport, running, timer, blockVars,
                 identityVars, clockVars>>

\* The outcome of a transport's close.
SettleClose(k, outcome) ==
  /\ transport[k] = "closing"
  /\ transport' = [transport EXCEPT ![k] = outcome]
  /\ UNCHANGED <<slots, authority, phase, running, timer, queue, blockVars,
                 identityVars, clockVars, failures>>
-----------------------------------------------------------------------------
(***************************************************************************)
(* connect.                                                                *)
(***************************************************************************)
AuthorityBlock(a) ==
  \/ a.credential \in revoked
  \/ a.show \in archived
  \/ a.generation <= retired[a.credential]
  \/ a.expires <= now

\* assertAuthorityIdentity: a credential keeps its Show, a generation its
\* expiration.
IdentityConflict(a) ==
  \/ credentialShows[a.credential] \notin {None, a.show}
  \/ audienceExpirations[a.credential][a.generation] \notin {0, a.expires}

\* The checks before the call is queued.
Connect(k, a) ==
  /\ phase[k] = "new"
  /\ authority' = [authority EXCEPT ![k] = a]
  /\ IF ~accepting \/ k \in stale \/ AuthorityBlock(a)
     THEN /\ phase' = [phase EXCEPT ![k] = "rejected"]
          /\ transport' = [transport EXCEPT ![k] = "closing"]
          /\ UNCHANGED queue
     ELSE /\ Bounded(a.credential)
          /\ phase' = [phase EXCEPT ![k] = "waiting"]
          /\ Enqueue(a.credential, Task("connect", k, 0, None))
          /\ UNCHANGED transport
  /\ UNCHANGED <<slots, running, timer, blockVars, identityVars, clockVars,
                 failures>>

\* rejectIncoming and closeRejected inside a transition.
Reject(c, k) ==
  /\ phase' = [phase EXCEPT ![k] = "rejected"]
  /\ transport' = [transport EXCEPT ![k] = "closing"]
  /\ Await(c, "rejecting")
  /\ UNCHANGED <<slots, timer, identityVars, failures>>

\* The lease is granted.  If its expiry cannot be scheduled the new slot is
\* closed at once and the call throws.
Install(c, k, scheduled) ==
  /\ slots' = [slots EXCEPT ![c] = k]
  /\ credentialShows' = [credentialShows EXCEPT ![c] = authority[k].show]
  /\ audienceExpirations' =
       [audienceExpirations EXCEPT
          ![c][authority[k].generation] = authority[k].expires]
  /\ IF scheduled
     THEN /\ phase' = [phase EXCEPT ![k] = "active"]
          /\ timer' = timer \cup {k}
          /\ Finish(c, TRUE)
          /\ UNCHANGED transport
     ELSE /\ phase' = [phase EXCEPT ![k] = "quiescing"]
          /\ transport' = [transport EXCEPT ![k] = "closing"]
          /\ Await(c, "closing")
          /\ UNCHANGED <<timer, failures>>

\* Fault: what was checked before the call was queued is not checked again.
BeginConnectTrusting(c, scheduled) ==
  LET k == queue[c][1].conn IN
  /\ At(c, "queued") /\ queue[c][1].kind = "connect"
  /\ IF ~accepting \/ IdentityConflict(authority[k]) THEN Reject(c, k)
     ELSE IF slots[c] # None
     THEN StartClose(c) /\ UNCHANGED <<slots, identityVars, failures>>
     ELSE Install(c, k, scheduled)
  /\ UNCHANGED <<authority, running, blockVars, clockVars>>

\* The transition begins: every check again, then the replacement.
BeginConnect(c, scheduled) ==
  LET k == queue[c][1].conn IN
  /\ At(c, "queued") /\ queue[c][1].kind = "connect"
  /\ IF \/ ~accepting \/ k \in stale
        \/ AuthorityBlock(authority[k]) \/ IdentityConflict(authority[k])
     THEN Reject(c, k)
     ELSE IF slots[c] # None
     THEN StartClose(c) /\ UNCHANGED <<slots, identityVars, failures>>
     ELSE Install(c, k, scheduled)
  /\ UNCHANGED <<authority, running, blockVars, clockVars>>

\* The predecessor's close is over.  accepting is not looked at again.
ResumeConnect(c, scheduled) ==
  LET k == queue[c][1].conn IN
  /\ At(c, "closed") \/ At(c, "failed")
  /\ queue[c][1].kind = "connect" /\ phase[k] = "waiting"
  /\ IF At(c, "failed") \/ AuthorityBlock(authority[k]) \/ k \in stale
     THEN Reject(c, k)
     ELSE Install(c, k, scheduled)
  /\ UNCHANGED <<authority, running, blockVars, clockVars>>

\* The call throws: the rejected connection's close is over, or the slot
\* without an expiry is closed.
EndConnect(c) ==
  LET k == queue[c][1].conn IN
  /\ queue[c] # << >> /\ queue[c][1].kind = "connect"
  /\ \/ At(c, "rejecting") /\ transport[k] \in {"closed", "failed"}
     \/ (At(c, "closed") \/ At(c, "failed")) /\ phase[k] # "waiting"
  /\ Finish(c, FALSE)
  /\ UNCHANGED <<slots, authority, phase, transport, running, timer,
                 blockVars, identityVars, clockVars>>
-----------------------------------------------------------------------------
(***************************************************************************)
(* execute.                                                                *)
(***************************************************************************)
\* requireEffectiveSlot, up to the expiration.
Effective(k) ==
  /\ HoldsSlot(k) /\ phase[k] = "active"
  /\ queue[CredOf(k)] = << >>
  /\ CredOf(k) \notin revoked /\ authority[k].show \notin archived
  /\ authority[k].generation > retired[CredOf(k)]

Execute(k) ==
  /\ Effective(k) /\ authority[k].expires > now
  /\ running[k] < MaxRunning
  /\ running' = [running EXCEPT ![k] = @ + 1]
  /\ UNCHANGED <<slots, authority, phase, transport, timer, queue, blockVars,
                 identityVars, clockVars, failures>>

\* The operation is refused and the expiration is queued.
ExecuteExpired(k) ==
  /\ Effective(k) /\ authority[k].expires <= now
  /\ Enqueue(CredOf(k), Task("expired", k, 0, None))
  /\ UNCHANGED <<slots, authority, phase, transport, running, timer,
                 blockVars, identityVars, clockVars, failures>>

ReleaseOperation(k) ==
  /\ running[k] > 0
  /\ running' = [running EXCEPT ![k] = @ - 1]
  /\ UNCHANGED <<slots, authority, phase, transport, timer, queue, blockVars,
                 identityVars, clockVars, failures>>
-----------------------------------------------------------------------------
(***************************************************************************)
(* Barriers.  What blocks later operations is set in the call itself.      *)
(***************************************************************************)
Retire(k) ==
  /\ HoldsSlot(k) /\ phase[k] = "active" /\ Bounded(CredOf(k))
  /\ phase' = [phase EXCEPT ![k] = "quiescing"]
  /\ Enqueue(CredOf(k), Task("retire", k, 0, None))
  /\ UNCHANGED <<slots, authority, transport, running, timer, blockVars,
                 identityVars, clockVars, failures>>

RotateCredential(c, generation) ==
  /\ Bounded(c)
  /\ retired' = [retired EXCEPT ![c] = IF @ < generation THEN generation
                                                         ELSE @]
  /\ Enqueue(c, Task("rotate", None, generation, None))
  /\ UNCHANGED <<slots, authority, phase, transport, running, timer, revoked,
                 archived, accepting, identityVars, clockVars, failures>>

RevokeCredential(c) ==
  /\ Bounded(c)
  /\ revoked' = revoked \cup {c}
  /\ Enqueue(c, Task("revoke", None, 0, None))
  /\ UNCHANGED <<slots, authority, phase, transport, running, timer, retired,
                 archived, accepting, identityVars, clockVars, failures>>

\* The credentials known to belong to the Show.
AffectedCredentials(s) == {c \in Creds : credentialShows[c] = s}

ArchiveShow(s) ==
  LET affected == AffectedCredentials(s) IN
  /\ \A c \in affected : Bounded(c)
  /\ archived' = archived \cup {s}
  /\ queue' = [c \in Creds |->
       IF c \in affected THEN Append(queue[c], Task("archive", None, 0, s))
                         ELSE queue[c]]
  /\ UNCHANGED <<slots, authority, phase, transport, running, timer, retired,
                 revoked, accepting, identityVars, clockVars, failures>>

Shutdown ==
  LET held == {c \in Creds : slots[c] # None} IN
  /\ accepting \/ held # {}
  /\ \A c \in held : Bounded(c)
  /\ accepting' = FALSE
  /\ phase' = [k \in Conns |-> IF HoldsSlot(k) THEN "quiescing" ELSE phase[k]]
  /\ queue' = [c \in Creds |->
       IF c \in held
       THEN Append(queue[c], Task("shutdown", slots[c], 0, None))
       ELSE queue[c]]
  /\ UNCHANGED <<slots, authority, transport, running, timer, retired,
                 revoked, archived, identityVars, clockVars, failures>>

(***************************************************************************)
(* The expiry timer: at the deadline it queues the close; before it (the   *)
(* longest delay of a timer is bounded) it schedules again, and queues the *)
(* close only if that fails.                                               *)
(***************************************************************************)
ExpiryTimer(k) ==
  /\ k \in timer
  /\ timer' = timer \ {k}
  /\ IF HoldsSlot(k) /\ phase[k] = "active"
     THEN Enqueue(CredOf(k), Task("expiry", k, 0, None))
     ELSE UNCHANGED queue
  /\ UNCHANGED <<slots, authority, phase, transport, running, blockVars,
                 identityVars, clockVars, failures>>

Deadline(k) ==
  k \in timer /\ authority[k].expires <= now /\ ExpiryTimer(k)

RescheduleFails(k) ==
  k \in timer /\ authority[k].expires > now /\ ExpiryTimer(k)

\* Which slot a barrier's transition closes when it begins.
Closes(task, k) ==
  CASE task.kind \in {"retire", "shutdown", "expiry"} -> k = task.conn
    [] task.kind = "expired" -> k = task.conn /\ authority[k].expires <= now
    [] task.kind = "rotate" -> authority[k].generation <= task.generation
    [] task.kind = "archive" -> authority[k].show = task.show
    [] OTHER -> TRUE

BeginBarrier(c) ==
  /\ At(c, "queued") /\ queue[c][1].kind # "connect"
  /\ IF slots[c] # None /\ Closes(queue[c][1], slots[c])
     THEN StartClose(c) /\ UNCHANGED failures
     ELSE Finish(c, TRUE) /\ UNCHANGED <<phase, transport, timer>>
  /\ UNCHANGED <<slots, authority, running, blockVars, identityVars,
                 clockVars>>

EndBarrier(c) ==
  /\ At(c, "closed") \/ At(c, "failed")
  /\ queue[c][1].kind # "connect"
  /\ Finish(c, At(c, "closed"))
  /\ UNCHANGED <<slots, authority, phase, transport, running, timer,
                 blockVars, identityVars, clockVars>>
-----------------------------------------------------------------------------
Tick ==
  /\ now < MaxTime /\ now' = now + 1
  /\ UNCHANGED <<slots, authority, phase, transport, running, timer, queue,
                 blockVars, identityVars, stale, failures>>

\* authorityIsCurrent turns false for a connection that is being admitted.
LoseWitness(k) ==
  /\ phase[k] \in {"new", "waiting"} /\ k \notin stale
  /\ stale' = stale \cup {k}
  /\ UNCHANGED <<slots, authority, phase, transport, running, timer, queue,
                 blockVars, identityVars, now, failures>>

Init ==
  /\ slots = [c \in Creds |-> None]
  /\ authority = [k \in Conns |-> None]
  /\ phase = [k \in Conns |-> "new"]
  /\ transport = [k \in Conns |-> "open"]
  /\ running = [k \in Conns |-> 0]
  /\ timer = {}
  /\ queue = [c \in Creds |-> << >>]
  /\ retired = [c \in Creds |-> 0]
  /\ revoked = {} /\ archived = {} /\ accepting = TRUE
  /\ credentialShows = [c \in Creds |-> None]
  /\ audienceExpirations = [c \in Creds |-> [g \in 1..MaxGeneration |-> 0]]
  /\ now = 0 /\ stale = {} /\ failures = {}

\* The transitions, run by the event loop.
Transition(c) ==
  \/ \E scheduled \in BOOLEAN : BeginConnect(c, scheduled)
                                  \/ ResumeConnect(c, scheduled)
  \/ EndConnect(c) \/ BeginBarrier(c) \/ EndClose(c) \/ EndBarrier(c)

Calls ==
  \/ \E k \in Conns, a \in Authorities : Connect(k, a)
  \/ \E k \in Conns : Execute(k) \/ ExecuteExpired(k) \/ Retire(k)
  \/ \E c \in Creds, generation \in 1..MaxGeneration :
       RotateCredential(c, generation)
  \/ \E c \in Creds : RevokeCredential(c)
  \/ \E s \in Shows : ArchiveShow(s)
  \/ Shutdown

Environment ==
  \/ Tick
  \/ \E k \in Conns :
       \/ LoseWitness(k) \/ RescheduleFails(k) \/ Deadline(k)
       \/ ReleaseOperation(k)
       \/ \E outcome \in {"closed", "failed"} : SettleClose(k, outcome)

Next == Calls \/ Environment \/ \E c \in Creds : Transition(c)

Spec == Init /\ [][Next]_vars
-----------------------------------------------------------------------------
SlotTypes ==
  /\ slots \in [Creds -> Conns \cup {None}]
  /\ authority \in [Conns -> Authorities \cup {None}]
  /\ phase \in [Conns -> {"new", "waiting", "rejected", "active",
                          "quiescing", "gone"}]
  /\ transport \in [Conns -> {"open", "closing", "closed", "failed"}]
  /\ running \in [Conns -> Nat]
  /\ timer \subseteq Conns
  /\ queue \in [Creds -> Seq(Tasks)]

BlockTypes ==
  /\ retired \in [Creds -> 0..MaxGeneration]
  /\ revoked \subseteq Creds /\ archived \subseteq Shows
  /\ accepting \in BOOLEAN
  /\ credentialShows \in [Creds -> Shows \cup {None}]
  /\ audienceExpirations \in [Creds -> [1..MaxGeneration -> Nat]]
  /\ now \in Nat /\ stale \subseteq Conns
  /\ failures \subseteq (BarrierKinds \X Creds)

\* The coordinator's maps hold what their declarations say.
TypeOK == SlotTypes /\ BlockTypes

(***************************************************************************)
(* A connection that held a credential's slot and no longer does is closed *)
(* and runs nothing: a new lease never overlaps an old one's operations.   *)
(***************************************************************************)
PredecessorsAreGone ==
  \A k \in Conns :
    (authority[k] # None /\ slots[CredOf(k)] # k) =>
      /\ running[k] = 0
      /\ phase[k] = "gone" => transport[k] = "closed"
      /\ phase[k] \notin {"active", "quiescing"}

(* No call of the barrier is queued and none failed to close its slot. *)
Resolved(kind, c) ==
  /\ \A i \in 1..Len(queue[c]) : queue[c][i].kind # kind
  /\ <<kind, c>> \notin failures

(***************************************************************************)
(* A barrier that resolved holds: after it, no connection the barrier is   *)
(* about has the slot, also when a connect was under way when it was       *)
(* invoked.                                                                *)
(***************************************************************************)
BarriersHold ==
  \A c \in Creds : slots[c] # None =>
    /\ c \in revoked => ~Resolved("revoke", c)
    /\ authority[slots[c]].generation <= retired[c] => ~Resolved("rotate", c)
    /\ authority[slots[c]].show \in archived => ~Resolved("archive", c)

(***************************************************************************)
(* "closes admission immediately and drains only already-admitted work     *)
(* during shutdown" (deviceConnectionAuthorityCoordinator.test.ts:650):    *)
(* once shutdown resolved, no connection is effective.                     *)
(***************************************************************************)
ShutdownHolds ==
  (~accepting /\ \A c \in Creds : Resolved("shutdown", c)) =>
    \A k \in Conns : ~Effective(k)

(***************************************************************************)
(* Fairness: the event loop runs a transition that can go on, timers fire  *)
(* at their deadline, transports settle (closeTransport terminates after a *)
(* timeout) and operations end.                                            *)
(***************************************************************************)
Fairness ==
  /\ \A c \in Creds : WF_vars(Transition(c))
  /\ \A k \in Conns :
       /\ WF_vars(Deadline(k)) /\ WF_vars(ReleaseOperation(k))
       /\ WF_vars(\E outcome \in {"closed", "failed"} : SettleClose(k, outcome))

FairSpec == Spec /\ Fairness

(***************************************************************************)
(* A revocation always ends: the credential's slot is freed or the         *)
(* revocation reports that its connection could not be closed, whatever    *)
(* transitions were queued before it.                                      *)
(***************************************************************************)
RevocationEnds ==
  \A c \in Creds :
    (c \in revoked) ~> (slots[c] = None \/ <<"revoke", c>> \in failures)

=============================================================================
