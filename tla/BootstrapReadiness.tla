------------------------- MODULE BootstrapReadiness -------------------------
(***************************************************************************)
(* A device connection from its first snapshot to readiness:               *)
(* DeviceBootstrapReadinessCoordinator (queue, emission lane, deadline,    *)
(* retries, the grant), the session that mounts it                         *)
(* (DeviceBootstrapSessionRuntime: onReady, the production observer,       *)
(* dispose), the ledger's connection session and the readiness registry.   *)
(* What happens on a target after readiness is PostReadySync's; here the   *)
(* post-ready coordinator only exists, and loses a target's readiness when *)
(* production changes it.                                                  *)
(*                                                                         *)
(* A frame's identity is its sequence number, what it says the version of  *)
(* its target.  Budget bounds the environment's events.                    *)
(***************************************************************************)
EXTENDS Integers, Sequences

CONSTANTS Targets,     \* the targets of the credential
          MaxRetries,  \* DEVICE_BOOTSTRAP_MAX_RETRIES
          Budget,      \* bound: events of the environment
          Faults       \* which of them the instance allows

BootstrapAssumption ==
  Targets \subseteq {"preview", "program"} /\ Targets # {} /\ MaxRetries \in Nat /\ Budget \in Nat

VARIABLES
  version,   \* what production holds for each target
  b,         \* the coordinator
  queue,     \* its queue of tasks
  granting,  \* the grant's task is suspended in onReady
  lane,      \* where the emission lane stands
  reserved,  \* last sequence handed out
  audit,     \* the connection's phase in the transition ledger
  session,   \* the mounted session: post-ready coordinator and disposal
  registry,  \* targets the readiness registry calls ready
  wire, back, dev,
  budget

vars == <<version, b, queue, granting, lane, reserved, audit, session, registry,
          wire, back, dev, budget>>

None == [seq |-> 0]

First(S) == IF "preview" \in S THEN "preview" ELSE "program"

Task(kind, t, n) == [kind |-> kind, target |-> t, n |-> n]
Pick == Task("pick", "preview", 0)

Init ==
  /\ version = [t \in Targets |-> 1]
  /\ b = [phase |-> "idle", reason |-> "none",
          epoch |-> [t \in Targets |-> 0],
          retries |-> [t \in Targets |-> 0],
          current |-> [t \in Targets |-> None],
          applied |-> [t \in Targets |-> 0],
          pending |-> {}, issued |-> {}, deadline |-> FALSE]
  /\ queue = <<Task("start", "preview", 0)>>
  /\ granting = FALSE
  /\ lane = [pc |-> "idle", target |-> "preview", epoch |-> 0, seq |-> 0, version |-> 0]
  /\ reserved = 0
  /\ audit = "not_ready"
  /\ session = [post |-> FALSE, disposed |-> FALSE]
  /\ registry = {}
  /\ wire = <<>> /\ back = <<>>
  /\ dev = [t \in Targets |-> [seq |-> 0, version |-> 0]]
  /\ budget = Budget

-----------------------------------------------------------------------------
At(pc) == lane.pc = pc
Waiting == At("idle") \/ At("creating") \/ At("transmit") \/ At("sending")

(* timers, messages, I/O and requests come only when no promise continuation
   is left to run; a task suspended in onReady holds the queue meanwhile *)
Settled == (queue = <<>> \/ granting) /\ Waiting

IsCurrent(t, a) == a.version = version[t] /\ ~a.aged

Bootstrapping(r) == r.phase = "bootstrapping"

CloseConnection(r, why) ==
  IF r.phase = "closed" THEN r
  ELSE [r EXCEPT !.phase = "closed", !.reason = why, !.pending = {}, !.deadline = FALSE,
                 !.current = [t \in Targets |-> IF @[t] = None THEN None
                                                ELSE [@[t] EXCEPT !.armed = FALSE]]]

Drop(r, t) == [r EXCEPT !.current[t] = None, !.applied[t] = 0]

ConsumeRetry(r, t) ==
  IF r.retries[t] >= MaxRetries THEN CloseConnection(Drop(r, t), "retries_exhausted")
  ELSE [Drop(r, t) EXCEPT !.retries[t] = @ + 1, !.pending = @ \cup {t}]

InvalidateStale(r, S) ==
  [r EXCEPT !.current = [t \in Targets |-> IF t \in S THEN None ELSE @[t]],
            !.applied = [t \in Targets |-> IF t \in S THEN 0 ELSE @[t]],
            !.pending = @ \cup S]

Complete(r) ==
  \A t \in Targets : /\ r.current[t] # None
                     /\ r.current[t].confirmed
                     /\ r.applied[t] = r.current[t].seq

(* grantReadinessIfComplete until the ledger is asked: a stale frame is
   issued again, otherwise the grant goes on *)
Grant(r) ==
  LET stale == {t \in Targets : ~IsCurrent(t, r.current[t])}
  IN  IF ~Complete(r) THEN r
      ELSE IF stale # {} THEN InvalidateStale(r, stale)
      ELSE [r EXCEPT !.phase = "ready", !.deadline = FALSE]

LaneStarts(r) == At("idle") /\ Bootstrapping(r) /\ r.pending # {}

(* transitions.close is part of every close *)
AuditAfter(r) ==
  IF r.phase = "closed" THEN "closed"
  ELSE IF r.phase = "ready" THEN "ready" ELSE audit

(* The end of a task that leaves r: the ledger may refuse the ready record,
   and then the grant fails closed. *)
FinishTask(r, l) ==
  LET granted == r.phase = "ready" /\ b.phase # "ready"
  IN  /\ \/ /\ b' = r
            /\ granting' = granted
            /\ UNCHANGED budget
         \/ /\ granted
            /\ "ledger" \in Faults /\ budget > 0 /\ budget' = budget - 1
            /\ b' = CloseConnection([r EXCEPT !.phase = "bootstrapping"], "internal_error")
            /\ UNCHANGED granting
      /\ audit' = AuditAfter(b')
      /\ queue' = Tail(queue) \o (IF LaneStarts(b') THEN <<Pick>> ELSE <<>>)
      /\ lane' = IF LaneStarts(b') THEN [lane EXCEPT !.pc = "pick"] ELSE l
      /\ UNCHANGED <<version, reserved, session, registry, wire, back, dev>>

Runs(kind) == queue # <<>> /\ ~granting /\ Head(queue).kind = kind
Arg == Head(queue)

-----------------------------------------------------------------------------
(* Tasks of the queue *)

(* Fault: no deadline is set. *)
StartUnbounded ==
  /\ Runs("start")
  /\ FinishTask([b EXCEPT !.phase = "bootstrapping", !.pending = Targets], lane)

Start ==
  /\ Runs("start")
  /\ FinishTask(IF b.phase # "idle" THEN b
                ELSE [b EXCEPT !.phase = "bootstrapping", !.deadline = TRUE,
                               !.pending = Targets], lane)

RunNotify ==
  /\ Runs("notify")
  /\ LET t == Arg.target
     IN  FinishTask(IF ~Bootstrapping(b) THEN b
                    ELSE [Drop(b, t) EXCEPT !.epoch[t] = @ + 1, !.pending = @ \cup {t}], lane)

(* acknowledge, for an answer that parses *)
RunAck ==
  /\ Runs("applied") \/ Runs("error")
  /\ LET t == Arg.target
         a == b.current[t]
         exact == a # None /\ a.seq = Arg.n
     IN  FinishTask(
           CASE b.phase = "closed" -> b
             [] b.phase # "closed" /\ Arg.n \notin b.issued ->
                  CloseConnection(b, "protocol_violation")
             [] b.phase = "ready" /\ Arg.n \in b.issued ->
                  IF ~exact \/ (Arg.kind = "applied" /\ b.applied[t] = Arg.n) THEN b
                  ELSE CloseConnection(b, "protocol_violation")
             [] Bootstrapping(b) /\ Arg.n \in b.issued ->
                  IF ~exact THEN b
                  ELSE IF ~IsCurrent(t, a) THEN InvalidateStale(b, {t})
                  ELSE IF Arg.kind = "error" THEN ConsumeRetry(b, t)
                  ELSE Grant([b EXCEPT !.current[t].armed = FALSE, !.applied[t] = Arg.n]), lane)

(* an answer that does not parse, names another target or is a delta's *)
RunMalformed ==
  /\ Runs("malformed")
  /\ FinishTask(CloseConnection(b, "protocol_violation"), lane)

RunTimeout ==
  /\ Runs("timeout")
  /\ LET t == Arg.target
     IN  FinishTask(IF Bootstrapping(b) /\ b.current[t] # None /\ b.current[t].seq = Arg.n
                    THEN ConsumeRetry(b, t) ELSE b, lane)

(* abort; when the session is being disposed of (n = 1) dispose goes on and
   closes the registry's lease *)
RunAbort ==
  /\ Runs("abort")
  /\ b' = CloseConnection(b, "internal_error")
  /\ audit' = "closed"
  /\ queue' = Tail(queue)
  /\ registry' = IF Arg.n = 1 THEN {} ELSE registry
  /\ UNCHANGED <<version, granting, lane, reserved, session, wire, back, dev, budget>>

-----------------------------------------------------------------------------
(* The emission lane *)

RunPick ==
  /\ Runs("pick")
  /\ LET t == First(b.pending)
     IN  IF ~Bootstrapping(b) \/ b.pending = {}
         THEN FinishTask(b, [lane EXCEPT !.pc = "finish"])
         ELSE FinishTask([b EXCEPT !.pending = @ \ {t}],
                         [lane EXCEPT !.pc = "emit", !.target = t])

LaneMoves(l, q) ==
  /\ lane' = l
  /\ queue' = q
  /\ UNCHANGED <<version, b, granting, reserved, audit, session, registry, wire, back, dev, budget>>

LaneLoop ==
  /\ At("loop")
  /\ IF Bootstrapping(b) THEN LaneMoves([lane EXCEPT !.pc = "pick"], Append(queue, Pick))
     ELSE LaneMoves([lane EXCEPT !.pc = "finish"], queue)

FinishPump ==
  /\ At("finish")
  /\ IF Bootstrapping(b) /\ b.pending # {}
     THEN LaneMoves([lane EXCEPT !.pc = "pick"], Append(queue, Pick))
     ELSE LaneMoves([lane EXCEPT !.pc = "idle"], queue)

(* emit until create awaits *)
EmitStart ==
  /\ At("emit")
  /\ LaneMoves(IF Bootstrapping(b)
               THEN [lane EXCEPT !.pc = "creating", !.epoch = b.epoch[lane.target],
                                 !.version = version[lane.target]]
               ELSE [lane EXCEPT !.pc = "loop"], queue)

CreateDone ==
  /\ At("creating") /\ Settled
  /\ reserved' = reserved + 1
  /\ lane' = [lane EXCEPT !.pc = "created", !.seq = reserved + 1]
  /\ UNCHANGED <<version, b, queue, granting, audit, session, registry, wire, back, dev, budget>>

EmitCheck ==
  /\ At("created")
  /\ LET kind == IF lane.version = version[lane.target] THEN "commit" ELSE "requeue"
     IN  IF ~Bootstrapping(b) THEN LaneMoves([lane EXCEPT !.pc = "loop"], queue)
         ELSE LaneMoves([lane EXCEPT !.pc = kind], Append(queue, Task(kind, lane.target, lane.seq)))

RunRequeue ==
  /\ Runs("requeue")
  /\ FinishTask(IF Bootstrapping(b) /\ b.epoch[lane.target] = lane.epoch
                THEN [b EXCEPT !.pending = @ \cup {lane.target}] ELSE b,
                [lane EXCEPT !.pc = "loop"])

RunCommit ==
  /\ Runs("commit")
  /\ LET t == lane.target
     IN  IF ~Bootstrapping(b) THEN FinishTask(b, [lane EXCEPT !.pc = "loop"])
         ELSE IF b.epoch[t] # lane.epoch
         THEN FinishTask([b EXCEPT !.pending = @ \cup {t}], [lane EXCEPT !.pc = "loop"])
         ELSE FinishTask(
                [b EXCEPT !.current[t] = [seq |-> lane.seq, version |-> lane.version,
                                          confirmed |-> FALSE, armed |-> FALSE, aged |-> FALSE],
                          !.applied[t] = 0],
                [lane EXCEPT !.pc = "committed"])

(* the snapshot is looked at once more before it is issued *)
EmitRecheck ==
  /\ At("committed")
  /\ IF lane.version = version[lane.target]
     THEN /\ b' = [b EXCEPT !.issued = @ \cup {lane.seq}]
          /\ lane' = [lane EXCEPT !.pc = "transmit"]
          /\ UNCHANGED queue
     ELSE /\ lane' = [lane EXCEPT !.pc = "stale"]
          /\ queue' = Append(queue, Task("stale", lane.target, lane.seq))
          /\ UNCHANGED b
  /\ UNCHANGED <<version, granting, reserved, audit, session, registry, wire, back, dev, budget>>

RunStale ==
  /\ Runs("stale")
  /\ FinishTask(IF Bootstrapping(b) THEN InvalidateStale(b, {lane.target}) ELSE b,
                [lane EXCEPT !.pc = "loop"])

Transmit ==
  /\ At("transmit") /\ Settled
  /\ wire' = Append(wire, [target |-> lane.target, seq |-> lane.seq, version |-> lane.version])
  /\ lane' = [lane EXCEPT !.pc = "sending"]
  /\ UNCHANGED <<version, b, queue, granting, reserved, audit, session, registry, back, dev, budget>>

SendDone ==
  /\ At("sending") /\ Settled
  /\ LaneMoves([lane EXCEPT !.pc = "sent"], Append(queue, Task("sent", lane.target, lane.seq)))

(* the task after the send, which may find that the answer came first *)
RunSent ==
  /\ Runs("sent") \/ Runs("sendFailed")
  /\ LET t == lane.target
         a == b.current[t]
         r == [b EXCEPT !.current[t].confirmed = TRUE]
     IN  FinishTask(
           IF ~Bootstrapping(b) \/ a = None \/ a.seq # lane.seq THEN b
           ELSE IF Arg.kind = "sendFailed" THEN ConsumeRetry(b, t)
           ELSE IF b.applied[t] = lane.seq THEN Grant(r)
           ELSE [r EXCEPT !.current[t].armed = TRUE],
           [lane EXCEPT !.pc = "loop"])

-----------------------------------------------------------------------------
(* The session around the coordinator *)

Spend(event) == event \in Faults /\ budget > 0 /\ budget' = budget - 1

(* Fault: every target is registered as ready. *)
MountUnchecked ==
  /\ granting /\ Waiting
  /\ session' = [session EXCEPT !.post = TRUE]
  /\ registry' = Targets
  /\ granting' = FALSE
  /\ UNCHANGED <<version, b, queue, lane, reserved, audit, wire, back, dev, budget>>

(* onReady after the ready message left: the post-ready coordinator is built
   on the applied frames, told of the ones production has left behind, and
   the registry is given what it calls ready *)
MountPostReady ==
  /\ granting /\ Waiting
  /\ session' = [session EXCEPT !.post = TRUE]
  /\ registry' = {t \in Targets : IsCurrent(t, b.current[t])}
  /\ granting' = FALSE
  /\ UNCHANGED <<version, b, queue, lane, reserved, audit, wire, back, dev, budget>>

(* the ready message is rejected: everything mounted is undone *)
ReadyMessageFails ==
  /\ Spend("ready")
  /\ granting /\ Waiting
  /\ b' = CloseConnection(b, "internal_error")
  /\ audit' = "closed"
  /\ granting' = FALSE
  /\ UNCHANGED <<version, queue, lane, reserved, session, registry, wire, back, dev>>

(* dispose: the transport closed, by itself or because the coordinator
   closed it *)
Dispose ==
  /\ Settled
  /\ ~session.disposed
  /\ \/ b.phase = "closed" /\ UNCHANGED budget
     \/ b.phase # "closed" /\ Spend("dispose")
  /\ session' = [session EXCEPT !.disposed = TRUE]
  /\ IF session.post
     THEN registry' = {} /\ UNCHANGED queue
     ELSE queue' = Append(queue, Task("abort", "preview", 1)) /\ UNCHANGED registry
  /\ UNCHANGED <<version, b, granting, lane, reserved, audit, wire, back, dev>>

Bursting == (Waiting \/ At("committed")) /\ (granting \/ \A i \in DOMAIN queue : queue[i].kind = "notify")

(* the production observer: the post-ready coordinator is told when there is
   one, the bootstrap coordinator otherwise *)
ProductionChanges(t) ==
  /\ Spend("change")
  /\ Bursting
  /\ version' = [version EXCEPT ![t] = @ + 1]
  /\ IF session.disposed THEN UNCHANGED <<queue, registry>>
     ELSE IF session.post THEN registry' = registry \ {t} /\ UNCHANGED queue
     ELSE queue' = Append(queue, Task("notify", t, 0)) /\ UNCHANGED registry
  /\ UNCHANGED <<b, granting, lane, reserved, audit, session, wire, back, dev>>

-----------------------------------------------------------------------------
(* Timers, failures and the device *)

EnvSends(q) ==
  /\ queue' = q
  /\ UNCHANGED <<version, granting, reserved, session, registry, wire, back, dev>>

(* the deadline does not wait for the queue *)
DeadlineFires ==
  /\ Settled
  /\ b.deadline
  /\ b' = CloseConnection(b, "deadline_exceeded")
  /\ audit' = "closed"
  /\ EnvSends(queue) /\ UNCHANGED <<lane, budget>>

TimeoutFires(t) ==
  /\ Settled
  /\ b.current[t] # None
  /\ b.current[t].armed
  /\ b' = [b EXCEPT !.current[t].armed = FALSE]
  /\ EnvSends(Append(queue, Task("timeout", t, b.current[t].seq)))
  /\ UNCHANGED <<lane, audit, budget>>

SnapshotAges(t) ==
  /\ Spend("age")
  /\ Settled
  /\ b.current[t] # None
  /\ b' = [b EXCEPT !.current[t].aged = TRUE]
  /\ EnvSends(queue) /\ UNCHANGED <<lane, audit>>

(* failInternal from the lane, outside the queue *)
CreateFails ==
  /\ Spend("create")
  /\ At("creating") /\ Settled
  /\ b' = CloseConnection(b, "internal_error")
  /\ audit' = AuditAfter(b')
  /\ lane' = [lane EXCEPT !.pc = "loop"]
  /\ EnvSends(queue)

SendFails ==
  /\ Spend("send")
  /\ At("transmit") \/ At("sending")
  /\ Settled
  /\ lane' = [lane EXCEPT !.pc = "sent"]
  /\ EnvSends(Append(queue, Task("sendFailed", lane.target, lane.seq)))
  /\ UNCHANGED <<b, audit>>

(* the device replaces its picture of a target by the snapshot; its steps
   are placed between two events of the server, which cannot see them before
   the answer arrives *)
DeviceHandles(answer) ==
  LET f == Head(wire)
  IN  /\ wire # <<>>
      /\ Settled
      /\ wire' = Tail(wire)
      /\ dev' = IF answer = "error" THEN dev
                ELSE [dev EXCEPT ![f.target] = [seq |-> f.seq, version |-> f.version]]
      /\ IF answer = "applied" THEN UNCHANGED budget ELSE Spend(answer)
      /\ back' = IF answer = "silence" THEN back ELSE Append(back, Task(answer, f.target, f.seq))
      /\ UNCHANGED <<version, b, queue, granting, lane, reserved, audit, session, registry>>

(* an answer is repeated, malformed, or names no frame that is ever issued *)
StrayAnswer(t, n) ==
  /\ Spend("stray")
  /\ Settled
  /\ back' = Append(back, Task(IF n = 0 THEN "malformed" ELSE "applied", t, n))
  /\ UNCHANGED <<version, b, queue, granting, lane, reserved, audit, session, registry, wire, dev>>

NeverIssued == -1

Receive ==
  /\ back # <<>>
  /\ Settled
  /\ back' = Tail(back)
  /\ queue' = Append(queue, Head(back))
  /\ UNCHANGED <<version, b, granting, lane, reserved, audit, session, registry, wire, dev, budget>>

-----------------------------------------------------------------------------
QueueStep ==
  \/ Start \/ RunNotify \/ RunAck \/ RunMalformed \/ RunTimeout \/ RunAbort
  \/ RunPick \/ RunRequeue \/ RunCommit \/ RunStale \/ RunSent

LaneStep == LaneLoop \/ FinishPump \/ EmitStart \/ CreateDone \/ EmitCheck
            \/ EmitRecheck \/ Transmit

EnvStep ==
  \/ \E t \in Targets : ProductionChanges(t) \/ TimeoutFires(t) \/ SnapshotAges(t)
  \/ DeadlineFires \/ CreateFails \/ SendFails \/ ReadyMessageFails
  \/ SendDone \/ MountPostReady \/ Dispose \/ Receive
  \/ \E a \in {"applied", "error", "silence"} : DeviceHandles(a)
  \/ \E t \in Targets : \E n \in {0, NeverIssued, dev[t].seq} : StrayAnswer(t, n)

Next == QueueStep \/ LaneStep \/ EnvStep

Spec == Init /\ [][Next]_vars

(* Continuations run, the deadline fires, and a closed transport disposes of
   its session.  A send or the ready message may hang: nothing is assumed of
   them, nor of the device. *)
Fairness ==
  /\ WF_vars(QueueStep)
  /\ WF_vars(LaneStep)
  /\ WF_vars(DeadlineFires)
  /\ WF_vars(b.phase = "closed" /\ Dispose)

-----------------------------------------------------------------------------
(* The registry calls a target ready only after the ledger holds the ready
   record, and only while the device shows production's state of it: a
   change while onReady awaited the ready message is not lost.  A session
   that was disposed of leaves no target ready behind, also when disposal met
   the grant half way. *)
RegistryIsCurrent ==
  /\ \A t \in registry : /\ audit # "not_ready"
                         /\ ~session.disposed => dev[t].version = version[t]
  /\ session.disposed /\ queue = <<>> /\ ~granting => registry = {}

(* Every connection leaves bootstrapping: a silent device, a hanging send or
   a stream of failures ends at the deadline if not before. *)
BootstrapEnds ==
  Fairness => (b.phase = "bootstrapping") ~> (b.phase \in {"ready", "closed"})
=============================================================================
