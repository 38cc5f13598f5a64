--------------------------- MODULE PostReadySync ---------------------------
(***************************************************************************)
(* The coordinator that keeps a ready device's picture of Preview and      *)
(* Program current (DevicePostReadySyncCoordinator), the registry that     *)
(* tells the HTTP routes which targets are ready                           *)
(* (DeviceTargetReadinessRegistry), the production observer that feeds it  *)
(* (DeviceBootstrapSessionRuntime), and a device that follows the delta    *)
(* protocol (reduceAdmittedDeviceControlFrame).                            *)
(*                                                                         *)
(* The coordinator is one object touched by several callers: a queue       *)
(* (enqueue) runs one task at a time, and one pump outside it prepares and *)
(* sends frames, handing every decision back to the queue.  A task is one  *)
(* action; the pump's code between two awaits is one action.  A frame's    *)
(* identity is its sequence number: the issuer is fixed for a connection   *)
(* and the hash is a function of the frame.  What a frame says is the      *)
(* version of its target: a number that grows with every production or     *)
(* catalog change of that target.                                          *)
(*                                                                         *)
(* Bounds: Budget counts what the environment does (changes, periodic      *)
(* confirmations, key rotations, failures, lost or wrong answers); nothing *)
(* the coordinator does is bounded.                                        *)
(***************************************************************************)
EXTENDS Integers, Sequences, FiniteSets

CONSTANTS Targets,     \* the targets of the device's credential
          MaxRetries,  \* DEVICE_DELTA_MAX_RETRIES
          Budget,      \* bound: events of the environment
          Faults       \* which environment events the instance allows

Buses == {"preview", "program"}

SyncAssumption == Targets \subseteq Buses /\ Targets # {} /\ MaxRetries \in Nat /\ Budget \in Nat

VARIABLES
  version,   \* what production holds for each target
  issuer,    \* FALSE once the signing key was rotated
  s,         \* the coordinator, with the targets it reported ready to the registry
  queue,     \* tasks waiting in the coordinator's queue
  pump,      \* where the pump stands
  reserved,  \* last sequence the sequence store handed out
  wire,      \* frames on their way to the device
  back,      \* acknowledgements on their way to the server
  dev,       \* the frame the device applied last, for each target
  budget

vars == <<version, issuer, s, queue, pump, reserved, wire, back, dev, budget>>

None == [seq |-> 0]

InOrder(S) == (IF "preview" \in S THEN <<"preview">> ELSE <<>>)
              \o (IF "program" \in S THEN <<"program">> ELSE <<>>)
First(S) == IF "preview" \in S THEN "preview" ELSE "program"

Task(kind, t, n) == [kind |-> kind, target |-> t, n |-> n]
Pick == Task("pick", "preview", 0)

Idle == [pc |-> "idle", target |-> "preview", epoch |-> 0, seq |-> 0, base |-> 0,
         version |-> 0, retry |-> FALSE]

Attempt(p) ==
  [seq |-> p.seq, version |-> p.version, base |-> p.base, retries |-> 0,
   confirmed |-> FALSE, inFlight |-> FALSE, early |-> "none", armed |-> FALSE, aged |-> FALSE]

(***************************************************************************)
(* The start: every target was acknowledged in bootstrap, so the device    *)
(* and the coordinator agree on a base for each.                           *)
(***************************************************************************)
Init ==
  /\ version = [t \in Buses |-> 1]
  /\ issuer = TRUE
  /\ s = [phase |-> "ready", reason |-> "none",
          epoch |-> [t \in Targets |-> 0],
          base |-> [t \in Targets |-> [seq |-> 1, version |-> 1]],
          current |-> [t \in Targets |-> None],
          handle |-> [t \in Targets |-> 1],
          timers |-> {<<t, 1>> : t \in Targets},
          requested |-> {},
          ready |-> Targets,
          work |-> [t \in Targets |-> "none"],
          latest |-> 1]
  /\ queue = <<>>
  /\ pump = Idle
  /\ reserved = 1
  /\ wire = <<>>
  /\ back = <<>>
  /\ dev = [t \in Targets |-> [seq |-> 1, version |-> 1]]
  /\ budget = Budget

-----------------------------------------------------------------------------
(* The coordinator's own operators, on its state r *)

(* Fault: only the key and the age are compared, not what production holds. *)
IsCurrentByKey(t, a) == issuer /\ ~a.aged

IsCurrent(t, a) == issuer /\ a.version = version[t] /\ ~a.aged

CancelConfirmation(r, t) ==
  [r EXCEPT !.timers = @ \ {<<t, r.handle[t]>>}, !.handle[t] = 0]

ScheduleConfirmation(r, t) ==
  LET n == r.base[t].seq
  IN  [CancelConfirmation(r, t) EXCEPT !.handle[t] = n, !.timers = @ \cup {<<t, n>>}]

(* closeConnection: the first close wins *)
CloseConnection(r, why) ==
  IF r.phase = "closed" THEN r
  ELSE [r EXCEPT !.phase = "closed", !.reason = why,
                 !.work = [t \in Targets |-> "none"],
                 !.timers = {p \in @ : r.handle[p[1]] # p[2]},
                 !.handle = [t \in Targets |-> 0],
                 !.current = [t \in Targets |->
                    IF @[t] = None THEN None ELSE [@[t] EXCEPT !.armed = FALSE]],
                 !.requested = Targets, !.ready = {}]

RetryOrClose(r, t) ==
  IF r.current[t].retries >= MaxRetries THEN CloseConnection(r, "retries_exhausted")
  ELSE [r EXCEPT !.current[t].armed = FALSE, !.current[t].confirmed = FALSE,
                 !.work[t] = "resend"]

InvalidateCurrent(r, t) ==
  [r EXCEPT !.epoch[t] = @ + 1, !.current[t] = None,
            !.requested = @ \cup {t}, !.ready = @ \ {t}, !.work[t] = "create"]

(* the end of processAck: the acknowledged frame becomes the base *)
AdvanceBase(r, t) ==
  LET a == r.current[t]
  IN  ScheduleConfirmation(
        [r EXCEPT !.base[t] = [seq |-> a.seq, version |-> a.version],
                  !.current[t] = None, !.requested = @ \ {t}, !.ready = @ \cup {t}], t)

(* a foreign answer has the number n and the identity of no frame *)
ProcessAck(r, t, n, status) ==
  LET a == r.current[t]
      names(frame) == status # "foreign" /\ n = frame.seq
  IN CASE r.phase = "closed" -> r
       [] r.phase # "closed" /\ names(r.base[t]) ->
            IF status = "applied" THEN r ELSE CloseConnection(r, "protocol_violation")
       [] r.phase # "closed" /\ ~names(r.base[t]) /\ a = None ->
            IF n <= r.latest THEN r ELSE CloseConnection(r, "protocol_violation")
       [] r.phase # "closed" /\ ~names(r.base[t]) /\ a # None /\ ~names(a) ->
            IF n < a.seq THEN r ELSE CloseConnection(r, "protocol_violation")
       [] r.phase # "closed" /\ ~names(r.base[t]) /\ a # None /\ names(a) ->
            CASE a.inFlight ->
                   IF a.early \notin {"none", status} THEN CloseConnection(r, "protocol_violation")
                   ELSE [r EXCEPT !.current[t].early = status]
              [] ~a.inFlight /\ ~a.confirmed -> r
              [] ~a.inFlight /\ a.confirmed ->
                   IF status = "error" THEN RetryOrClose(r, t)
                   ELSE IF IsCurrent(t, a) THEN AdvanceBase(r, t)
                   ELSE InvalidateCurrent(r, t)

HasWork(r) == r.phase = "ready" /\ \E t \in Targets : r.work[t] # "none"

(* A step of the queue: it leaves r, and starts the pump if there is work *)
Finish(r) ==
  LET starts == pump.pc = "idle" /\ HasWork(r)
  IN  /\ s' = r
      /\ queue' = Tail(queue) \o (IF starts THEN <<Pick>> ELSE <<>>)
      /\ pump' = IF starts THEN [pump EXCEPT !.pc = "pick"] ELSE pump

(* The task at the head of the queue runs.  enqueue chains the next task one
   promise after the one that ends, so what the pump awaited of a task (pick
   and commit: issueNew up to create, resend, sendAttempt up to its own task)
   goes on before the next task does. *)
Runs(kind) ==
  queue # <<>> /\ Head(queue).kind = kind /\ pump.pc \notin {"create", "resend", "enter"}

Env == <<version, issuer, reserved, wire, back, dev, budget>>

At(pc) == pump.pc = pc

(* The event loop delivers a timer, a packet of the device or the end of an
   I/O operation only when no continuation of a promise is left to run: the
   queue has drained and the pump waits for something outside.  A packet
   delivers all its messages in one synchronous run, before any of their
   tasks. *)
Waiting == At("idle") \/ At("creating") \/ At("transmit") \/ At("sending")
Settled == queue = <<>> /\ Waiting
Delivering ==
  Waiting /\ \A i \in DOMAIN queue : queue[i].kind \in {"applied", "error", "foreign", "malformed"}

-----------------------------------------------------------------------------
(* Tasks of the queue *)

(* notifyStateChanged, the part that waits its turn *)
RunNotify ==
  /\ Runs("notify")
  /\ LET t == Head(queue).target
         r == CancelConfirmation(s, t)
     IN  Finish(IF s.phase = "closed" THEN s
                ELSE [r EXCEPT !.epoch[t] = @ + 1, !.current[t] = None, !.work[t] = "create"])
  /\ UNCHANGED Env

RunAck ==
  /\ Runs("applied") \/ Runs("error") \/ Runs("foreign")
  /\ Finish(ProcessAck(s, Head(queue).target, Head(queue).n, Head(queue).kind))
  /\ UNCHANGED Env

(* an acknowledgement that does not parse, or names a target or a mode the
   connection does not have *)
RunMalformed ==
  /\ Runs("malformed")
  /\ Finish(CloseConnection(s, "protocol_violation"))
  /\ UNCHANGED Env

(* the task of scheduleConfirmation *)
RunConfirm ==
  /\ Runs("confirm")
  /\ LET t == Head(queue).target
         r == [s EXCEPT !.handle[t] = 0]
     IN  Finish(IF s.phase # "ready" \/ s.base[t].seq # Head(queue).n \/ s.current[t] # None
                THEN r
                ELSE [r EXCEPT !.requested = @ \cup {t}, !.ready = @ \ {t},
                               !.work[t] = "create"])
  /\ UNCHANGED Env

IsPending(r, t, n) == r.phase = "ready" /\ r.current[t] # None /\ r.current[t].seq = n

RunTimeout ==
  /\ Runs("timeout")
  /\ LET t == Head(queue).target
     IN  Finish(IF IsPending(s, t, Head(queue).n) THEN RetryOrClose(s, t) ELSE s)
  /\ UNCHANGED Env

(* abort: an internal failure *)
RunAbort ==
  /\ Runs("abort")
  /\ Finish(CloseConnection(s, "internal_error"))
  /\ UNCHANGED Env

(* dispose: the transport is gone already *)
RunDispose ==
  /\ Runs("dispose")
  /\ Finish(CloseConnection(s, "transport.closed"))
  /\ UNCHANGED Env

-----------------------------------------------------------------------------
(* The pump and the tasks it awaits *)

PumpTask(r, p) ==
  /\ s' = r
  /\ pump' = p
  /\ queue' = Tail(queue)
  /\ UNCHANGED Env

(* runPump chooses the first target with work *)
RunPick ==
  /\ Runs("pick")
  /\ LET W == {t \in Targets : s.work[t] # "none"}
         t == First(W)
     IN  IF W = {} THEN PumpTask(s, [pump EXCEPT !.pc = "finish"])
         ELSE PumpTask([s EXCEPT !.work[t] = "none"],
                       [pump EXCEPT !.pc = s.work[t], !.target = t])

(* One pass of runPump's loop ended *)
PumpLoop ==
  /\ At("loop")
  /\ IF s.phase = "ready"
     THEN /\ queue' = Append(queue, Pick)
          /\ pump' = [pump EXCEPT !.pc = "pick"]
     ELSE /\ pump' = [pump EXCEPT !.pc = "finish"]
          /\ UNCHANGED queue
  /\ UNCHANGED s /\ UNCHANGED Env

FinishPump ==
  /\ At("finish")
  /\ IF HasWork(s)
     THEN queue' = Append(queue, Pick) /\ pump' = [pump EXCEPT !.pc = "pick"]
     ELSE pump' = [pump EXCEPT !.pc = "idle"] /\ UNCHANGED queue
  /\ UNCHANGED s /\ UNCHANGED Env

(* issueNew until create awaits: what production holds is captured here *)
IssueStart ==
  /\ At("create")
  /\ LET t == pump.target
     IN  IF s.phase # "ready"
         THEN pump' = [pump EXCEPT !.pc = "loop"] /\ UNCHANGED s
         ELSE IF ~issuer
         THEN /\ s' = CloseConnection(s, "issuer_rotated")
              /\ pump' = [pump EXCEPT !.pc = "loop"]
         ELSE /\ pump' = [pump EXCEPT !.pc = "creating", !.epoch = s.epoch[t],
                            !.base = s.base[t].seq, !.version = version[t]]
              /\ UNCHANGED s
  /\ UNCHANGED queue /\ UNCHANGED Env

(* create returns: the sequence is reserved last and never given back *)
CreateDone ==
  /\ At("creating") /\ Settled
  /\ reserved' = reserved + 1
  /\ pump' = [pump EXCEPT !.pc = "created", !.seq = reserved + 1]
  /\ UNCHANGED <<version, issuer, s, queue, wire, back, dev, budget>>

(* the snapshot is current, and the queue decides whether it is issued *)
IssueCheck ==
  /\ At("created")
  /\ IF s.phase # "ready"
     THEN pump' = [pump EXCEPT !.pc = "loop"] /\ UNCHANGED queue
     ELSE LET kind == IF issuer /\ pump.version = version[pump.target]
                      THEN "commit" ELSE "requeue"
          IN  /\ pump' = [pump EXCEPT !.pc = kind]
              /\ queue' = Append(queue, Task(kind, pump.target, pump.seq))
  /\ UNCHANGED s /\ UNCHANGED Env

RunRequeue ==
  /\ Runs("requeue")
  /\ PumpTask(IF s.phase = "ready" THEN [s EXCEPT !.work[pump.target] = "create"] ELSE s,
              [pump EXCEPT !.pc = "loop"])

RunCommit ==
  /\ Runs("commit")
  /\ LET t == pump.target
     IN  IF s.phase # "ready" \/ s.epoch[t] # pump.epoch \/ s.base[t].seq # pump.base
         THEN PumpTask([s EXCEPT !.work[t] = "create"], [pump EXCEPT !.pc = "loop"])
         ELSE PumpTask([s EXCEPT !.current[t] = Attempt(pump), !.latest = pump.seq],
                       [pump EXCEPT !.pc = "enter", !.retry = FALSE])

(* resend, and the beginning of sendAttempt *)
ResendStart ==
  /\ At("resend")
  /\ LET a == s.current[pump.target]
     IN  pump' = IF a = None \/ s.phase # "ready" THEN [pump EXCEPT !.pc = "loop"]
                 ELSE [pump EXCEPT !.pc = "enter", !.retry = TRUE, !.seq = a.seq,
                                   !.base = a.base, !.version = a.version]
  /\ UNCHANGED <<s, queue>> /\ UNCHANGED Env

EnterSend ==
  /\ At("enter")
  /\ queue' = Append(queue, Task("gate", pump.target, pump.seq))
  /\ pump' = [pump EXCEPT !.pc = "gate"]
  /\ UNCHANGED s /\ UNCHANGED Env

RunGate ==
  /\ Runs("gate")
  /\ LET t == pump.target
     IN  IF IsPending(s, t, pump.seq)
         THEN PumpTask([s EXCEPT !.current[t].confirmed = FALSE, !.current[t].inFlight = TRUE,
                                 !.current[t].early = "none"],
                       [pump EXCEPT !.pc = "transmit"])
         ELSE PumpTask(s, [pump EXCEPT !.pc = "loop"])

(* sendWithTimeout: the frame leaves, and the transport answers later *)
Transmit ==
  /\ At("transmit") /\ Settled
  /\ wire' = Append(wire, [target |-> pump.target, seq |-> pump.seq, base |-> pump.base,
                           version |-> pump.version])
  /\ pump' = [pump EXCEPT !.pc = "sending"]
  /\ UNCHANGED <<version, issuer, s, queue, reserved, back, dev, budget>>

SendDone ==
  /\ At("sending") /\ Settled
  /\ queue' = Append(queue, Task("sent", pump.target, pump.seq))
  /\ pump' = [pump EXCEPT !.pc = "sent"]
  /\ UNCHANGED s /\ UNCHANGED Env

(* Fault: nothing waits for the answer to a frame that was sent. *)
RunSentUntimed ==
  /\ Runs("sent")
  /\ LET t == pump.target
     IN  PumpTask(IF IsPending(s, t, pump.seq)
                  THEN [s EXCEPT !.current[t].inFlight = FALSE, !.current[t].confirmed = TRUE]
                  ELSE s, [pump EXCEPT !.pc = "loop"])

(* the task after a successful send *)
RunSent ==
  /\ Runs("sent")
  /\ LET t == pump.target
         a == s.current[t]
         r == [s EXCEPT !.current[t].inFlight = FALSE, !.current[t].confirmed = TRUE,
                        !.current[t].early = "none",
                        !.current[t].retries = IF pump.retry THEN @ + 1 ELSE @]
     IN  PumpTask(IF ~IsPending(s, t, pump.seq) THEN s
                  ELSE IF a.early = "none" THEN [r EXCEPT !.current[t].armed = TRUE]
                  ELSE ProcessAck(r, t, a.seq, a.early),
                  [pump EXCEPT !.pc = "loop"])

RunSendFailed ==
  /\ Runs("sendFailed")
  /\ PumpTask(CloseConnection(s, "transport_failure"), [pump EXCEPT !.pc = "loop"])

-----------------------------------------------------------------------------
(* The environment: production, the device, timers and failures *)

Spend(event) == event \in Faults /\ budget > 0 /\ budget' = budget - 1

Affected(t, catalogChanged) == IF catalogChanged THEN Targets ELSE {t}

(* A production change as the session's observer sees it: it names one
   target, or every target of the credential when the catalog changed too.
   The synchronous part of notifyStateChanged runs here; a target outside
   the credential makes it reject, and the observer aborts.  It is a
   continuation of the store's own promise: it comes between any two steps of
   the coordinator, also while an acknowledgement waits in the queue, and more
   than once before any of their tasks (a cue commits its steps one after the
   other). *)
ProductionChanges(t, catalogChanged) ==
  LET A == Affected(t, catalogChanged)
      tasks == IF A \subseteq Targets
               THEN LET o == InOrder(A) IN [i \in 1..Len(o) |-> Task("notify", o[i], 0)]
               ELSE <<Task("abort", t, 0)>>
  IN  /\ Spend("change")
      /\ version' = [b \in Buses |-> IF b \in A \cup {t} THEN version[b] + 1 ELSE version[b]]
      /\ s' = [s EXCEPT !.requested = @ \cup (A \cap Targets), !.ready = @ \ A]
      /\ queue' = queue \o tasks
      /\ UNCHANGED <<issuer, pump, reserved, wire, back, dev>>

RotateIssuer ==
  /\ Spend("rotate")
  /\ Settled
  /\ issuer' = FALSE
  /\ UNCHANGED <<version, s, queue, pump, reserved, wire, back, dev>>

ConfirmationFires(p) ==
  /\ Spend("confirm")
  /\ Settled
  /\ p \in s.timers
  /\ s' = [s EXCEPT !.timers = @ \ {p}]
  /\ queue' = Append(queue, Task("confirm", p[1], p[2]))
  /\ UNCHANGED <<version, issuer, pump, reserved, wire, back, dev>>

TimeoutFires(t) ==
  /\ s.current[t] # None
  /\ s.current[t].armed
  /\ Settled
  /\ s' = [s EXCEPT !.current[t].armed = FALSE]
  /\ queue' = Append(queue, Task("timeout", t, s.current[t].seq))
  /\ UNCHANGED pump /\ UNCHANGED Env

(* three seconds pass over a pending snapshot *)
SnapshotAges(t) ==
  /\ Spend("age")
  /\ Settled
  /\ s.current[t] # None
  /\ s' = [s EXCEPT !.current[t].aged = TRUE]
  /\ UNCHANGED <<version, issuer, queue, pump, reserved, wire, back, dev>>

(* the issuer captures again after STALE_CATALOG_GENERATION *)
Recapture ==
  /\ At("creating") /\ Settled
  /\ pump.version # version[pump.target]
  /\ pump' = [pump EXCEPT !.version = version[pump.target]]
  /\ UNCHANGED <<s, queue>> /\ UNCHANGED Env

CreateFails ==
  /\ Spend("create")
  /\ Settled
  /\ At("creating")
  /\ s' = CloseConnection(s, "internal_error")
  /\ pump' = [pump EXCEPT !.pc = "loop"]
  /\ UNCHANGED <<version, issuer, queue, reserved, wire, back, dev>>

(* the transport rejects, or answers after the send timeout *)
SendFails ==
  /\ Spend("send")
  /\ Settled
  /\ At("transmit") \/ At("sending")
  /\ queue' = Append(queue, Task("sendFailed", pump.target, pump.seq))
  /\ pump' = [pump EXCEPT !.pc = "sent"]
  /\ UNCHANGED <<version, issuer, s, reserved, wire, back, dev>>

TransportCloses ==
  /\ Spend("dispose")
  /\ Settled
  /\ queue' = Append(queue, Task("dispose", "preview", 0))
  /\ UNCHANGED <<version, issuer, s, pump, reserved, wire, back, dev>>

(* The device: it applies a frame whose base is the frame it applied last,
   answers a repeated frame again and refuses any other.  Its steps are placed
   between two events of the server, which cannot see them earlier. *)
Answer(f) ==
  IF dev[f.target].seq \in {f.seq, f.base} THEN "applied" ELSE "error"

DeviceHandles(answers) ==
  LET f == Head(wire)
  IN  /\ wire # <<>>
      /\ Settled
      /\ wire' = Tail(wire)
      /\ dev' = IF dev[f.target].seq = f.base
                THEN [dev EXCEPT ![f.target] = [seq |-> f.seq, version |-> f.version]]
                ELSE dev
      /\ \/ answers /\ UNCHANGED budget
         \/ ~answers /\ Spend("silence")
      /\ back' = IF answers THEN Append(back, Task(Answer(f), f.target, f.seq)) ELSE back
      /\ UNCHANGED <<version, issuer, s, queue, pump, reserved>>

(* the device could not apply a frame it should have applied *)
DeviceFails ==
  /\ Spend("refuse")
  /\ Settled
  /\ wire # <<>>
  /\ Head(wire).seq # dev[Head(wire).target].seq
  /\ wire' = Tail(wire)
  /\ back' = Append(back, Task("error", Head(wire).target, Head(wire).seq))
  /\ UNCHANGED <<version, issuer, s, queue, pump, reserved, dev>>

(* an answer arrives twice or late, is malformed, or has the number of a
   frame -- past, present or yet to come -- and another frame's hash *)
StrayAnswer(t, n, kind) ==
  /\ Spend("stray")
  /\ Settled
  /\ back' = Append(back, Task(IF n = 0 THEN "malformed" ELSE kind, t, n))
  /\ UNCHANGED <<version, issuer, s, queue, pump, reserved, wire, dev>>

Receive ==
  /\ back # <<>>
  /\ Delivering
  /\ back' = Tail(back)
  /\ queue' = Append(queue, Head(back))
  /\ UNCHANGED <<version, issuer, s, pump, reserved, wire, dev, budget>>

-----------------------------------------------------------------------------
QueueStep ==
  \/ RunNotify \/ RunAck \/ RunMalformed \/ RunConfirm \/ RunTimeout \/ RunAbort \/ RunDispose
  \/ RunPick \/ RunRequeue \/ RunCommit \/ RunGate \/ RunSent \/ RunSendFailed

PumpStep ==
  \/ PumpLoop \/ FinishPump \/ IssueStart \/ CreateDone \/ IssueCheck \/ ResendStart
  \/ EnterSend \/ Transmit \/ SendDone

EnvStep ==
  \/ \E t \in Buses, c \in BOOLEAN : ProductionChanges(t, c)
  \/ RotateIssuer
  \/ \E p \in s.timers : ConfirmationFires(p)
  \/ \E t \in Targets : TimeoutFires(t) \/ SnapshotAges(t)
  \/ Recapture \/ CreateFails \/ SendFails \/ TransportCloses
  \/ DeviceHandles(FALSE) \/ DeviceFails
  \/ \E t \in Targets :
       \/ \E n \in 0..dev[t].seq : StrayAnswer(t, n, "applied")
       \/ \E n \in {dev[t].seq, reserved + 1} : StrayAnswer(t, n, "foreign")

Next == QueueStep \/ PumpStep \/ EnvStep \/ DeviceHandles(TRUE) \/ Receive

Spec == Init /\ [][Next]_vars

(* Promises of the queue and the pump run on; a device and its connection
   carry what was sent; an armed timer fires. *)
Fairness ==
  /\ WF_vars(QueueStep)
  /\ WF_vars(PumpStep)
  /\ WF_vars(DeviceHandles(TRUE))
  /\ WF_vars(Receive)
  /\ \A t \in Targets : WF_vars(TimeoutFires(t))

-----------------------------------------------------------------------------
(* isTargetReady, but for the age of the base, which only makes it false *)
IsTargetReady(t) == s.phase = "ready" /\ t \notin s.requested /\ s.current[t] = None

(* A target is called ready, to the HTTP routes through the registry or to
   the command session through isTargetReady, only while the device shows
   what production holds for it, whatever acknowledgements, changes and
   timeouts were queued in between; and the base a delta or a command's
   evidence names is always a frame the device really applied, with the
   content the server believes. *)
EvidenceIsCurrent ==
  \A t \in DOMAIN s.base :
    /\ (t \in s.ready \/ IsTargetReady(t)) =>
         /\ s.phase = "ready"
         /\ s.base[t].version = version[t]
         /\ dev[t].version = version[t]
    /\ s.base[t].seq <= dev[t].seq
    /\ s.base[t].seq = dev[t].seq => s.base[t] = dev[t]

(* Once the environment is quiet every target becomes ready for good, or
   the connection was closed: no change is left waiting for a pump that
   stopped, for an answer nobody times out, or behind an ignored answer. *)
Settles == Fairness => <>[](s.phase = "closed" \/ s.ready = Targets)

(* ADR-0031: a change outside the credential's targets leaves the targets
   of the connection, and the connection, alone. *)
UnaffectedTargetsKeepEvidence == s.reason # "internal_error"
=============================================================================
