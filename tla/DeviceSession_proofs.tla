------------------------- MODULE DeviceSession_proofs -------------------------
(***************************************************************************)
(* Proofs about a device connection's three stations, for every set of     *)
(* targets, any number of connections, retries and events:                 *)
(*   - PostReadySync: SyncInv, and that readiness is current evidence;      *)
(*   - BootstrapReadiness: BootInv, and that the registry is current;       *)
(*   - DeviceGateway: GatewayInv, and that what was composed for a          *)
(*     connection does not outlive it.                                      *)
(***************************************************************************)
EXTENDS DeviceSession, TLAPS

------------------------------------------------------------------------------
(* PostReadySync *)

(* The attempts, frames and coordinators of PostReadySync, and the tasks of  *)
(* its queue by where they come from.                                       *)
Attempts == [seq : Nat \ {0}, version : Nat, base : Nat, retries : Nat, confirmed : BOOLEAN,
             inFlight : BOOLEAN, early : {"none", "applied", "error"}, armed : BOOLEAN, aged : BOOLEAN]
Frames == [seq : Nat, version : Nat]
Reasons == {"none", "retries_exhausted", "protocol_violation", "issuer_rotated", "internal_error",
            "transport_failure", "transport.closed"}
Coordinators ==
  [phase : {"ready", "closed"}, reason : Reasons, epoch : [Targets -> Nat], base : [Targets -> Frames],
   current : [Targets -> Attempts \cup {Sync!None}], handle : [Targets -> Nat],
   timers : SUBSET (Targets \X Nat), requested : SUBSET Targets, ready : SUBSET Targets,
   work : [Targets -> {"none", "create", "resend"}], latest : Nat]

Notices == {"notify", "abort"}
Answers == {"applied", "error", "foreign", "malformed"}
Alone == {"confirm", "timeout", "dispose"}
Outside == Answers \cup Alone
PumpTasks == {"pick", "requeue", "commit", "gate", "sent", "sendFailed"}
Tasks == [kind : Notices \cup Outside \cup PumpTasks, target : Sync!Buses, n : Nat]

(* Where the pump waits for I/O, runs, awaits its own task; what it is busy  *)
(* with: a snapshot being made, or the pending frame being sent.            *)
Waits == {"idle", "creating", "transmit", "sending"}
Runs == {"create", "created", "loop", "finish", "resend", "enter"}
Awaits == {"requeue", "commit", "gate", "sent"}
Making == {"create", "creating", "created", "requeue", "commit"}
Sending == {"enter", "gate", "transmit", "sending", "sent"}
Active == Making \cup {"resend"} \cup Sending
Own(pc) == IF pc = "sent" THEN {"sent", "sendFailed"} ELSE {pc}

Pumps == [pc : Waits \cup Runs \cup Awaits \cup {"pick"}, target : Sync!Buses, epoch : Nat, seq : Nat,
          base : Nat, version : Nat, retry : BOOLEAN]
Sent == [target : Targets, seq : Nat, base : Nat, version : Nat]

SyncTypes ==
  /\ version \in [Sync!Buses -> Nat] /\ reserved \in Nat
  /\ s \in Coordinators /\ queue \in Seq(Tasks) /\ pump \in Pumps
  /\ wire \in Seq(Sent) /\ back \in Seq([kind : Answers, target : Targets, n : Nat])
  /\ dev \in [Targets -> Frames]
  /\ pump.pc \in Active => pump.target \in Targets
  /\ \A i \in DOMAIN queue : queue[i].kind \notin PumpTasks \cup {"abort", "dispose"} => queue[i].target \in Targets

(* One thread: a change may be queued at any moment; what comes from outside *)
(* arrives while the pump waits, a timer or the end of the connection only   *)
(* at an empty queue; and the pump awaits one task, which nothing but        *)
(* changes can follow.                                                       *)
QueueShape ==
  /\ \A i \in DOMAIN queue :
       \/ queue[i].kind \in Notices
       \/ queue[i].kind \in Outside /\ pump.pc \in Waits
       \/ queue[i].kind \in Answers \cup {"pick"} /\ pump.pc = "pick"
       \/ queue[i].kind \in Own(pump.pc) /\ pump.pc \in Awaits
  /\ \A i \in DOMAIN queue : queue[i].kind \in Alone => i = 1
  /\ \A i, j \in DOMAIN queue :
       queue[i].kind \in PumpTasks /\ queue[j].kind \in PumpTasks \cup Answers => j <= i

On(t, pcs) == pump.target = t /\ pump.pc \in pcs
Queued(kind, t) == \E i \in DOMAIN queue : queue[i].kind = kind /\ queue[i].target = t
Working(t) == s.work[t] # "none" \/ s.current[t] # Sync!None \/ On(t, Active)

(* What was acknowledged is on the device.                                  *)
Acknowledged(tasks) ==
  \A i \in DOMAIN tasks : tasks[i].kind = "applied" => tasks[i].n <= dev[tasks[i].target].seq

PumpNumbers ==
  /\ pump.pc = "creating" => pump.base <= reserved
  /\ pump.pc \in {"created", "requeue", "commit"} =>
       /\ pump.base < pump.seq /\ pump.seq = reserved
       /\ \A t \in Targets : dev[t].seq < pump.seq
       /\ \A i \in DOMAIN wire : wire[i].seq < pump.seq
  /\ pump.pc \in Sending => pump.base < pump.seq /\ pump.seq <= reserved

(* A base is a frame the device applied, with what the server believes of it. *)
BasesInv ==
  \A t \in Targets : /\ s.base[t].seq <= dev[t].seq
                     /\ s.base[t].seq = dev[t].seq => s.base[t] = dev[t]

(* Frames are numbered in the order they are made, on every way they take.  *)
NumbersInv ==
  /\ \A i \in DOMAIN wire : wire[i].base < wire[i].seq /\ wire[i].seq <= reserved
  /\ \A t \in Targets : dev[t].seq <= reserved
  /\ BasesInv
  /\ Acknowledged(back) /\ Acknowledged(queue)
  /\ PumpNumbers

Same(t) == pump.seq = s.current[t].seq /\ pump.version = s.current[t].version

(* Where the pending frame of a target stands. *)
Stage(t) ==
  LET a == s.current[t] IN
  \/ a.confirmed /\ ~a.inFlight /\ s.work[t] = "none" /\ ~On(t, Active)
  \/ ~a.confirmed /\ ~a.inFlight /\ ~a.armed /\ s.work[t] = "resend" /\ ~On(t, Active)
  \/ ~a.confirmed /\ ~a.inFlight /\ ~a.armed /\ s.work[t] = "none" /\ On(t, {"resend"})
  \/ ~a.confirmed /\ ~a.inFlight /\ ~a.armed /\ s.work[t] = "none" /\ On(t, {"enter", "gate"}) /\ Same(t)
  \/ ~a.confirmed /\ a.inFlight /\ ~a.armed /\ s.work[t] = "none" /\ On(t, {"transmit", "sending", "sent"}) /\ Same(t)

(* The pending frame is the last one made for its target.                   *)
Pending(t) ==
  LET a == s.current[t] IN
  /\ a.base < a.seq /\ a.seq <= reserved /\ dev[t].seq <= a.seq
  /\ dev[t].seq = a.seq => dev[t].version = a.version
  /\ a.early = "applied" => dev[t].seq = a.seq
  /\ \A i \in DOMAIN wire : wire[i].target = t =>
       wire[i].seq <= a.seq /\ (wire[i].seq = a.seq => wire[i].version = a.version)
  /\ \A i \in DOMAIN queue : queue[i].kind = "timeout" /\ queue[i].target = t /\ queue[i].n = a.seq =>
       a.confirmed

(* Nobody asks for a snapshot of t: the device shows what production holds, *)
(* and nothing is under way that could change that.                         *)
Current(t) ==
  /\ s.base[t].version = version[t] /\ dev[t].seq = s.base[t].seq
  /\ \A i \in DOMAIN wire : wire[i].target = t => wire[i].seq <= s.base[t].seq
  /\ ~Working(t) /\ ~Queued("notify", t)

(* A confirmation timer that runs is the last one set; it and its task are   *)
(* cancelled by any work on their target.                                    *)
Timers(t) ==
  /\ \A n \in Nat : <<t, n>> \in s.timers =>
       n = s.handle[t] /\ ~Queued("confirm", t) /\ ~Working(t)
  /\ Queued("confirm", t) => ~Working(t)

(* What is pending or being made for t was true once, and is known to be out *)
(* of date as soon as a change of t waits in the queue.                      *)
Versions(t) ==
  /\ s.current[t] # Sync!None =>
       /\ s.current[t].version <= version[t]
       /\ Queued("notify", t) => s.current[t].version # version[t]
  /\ On(t, Making \ {"create"}) => pump.version <= version[t]
  /\ On(t, {"created", "commit"}) /\ Queued("notify", t) => pump.version # version[t]

(* A snapshot being made will be refused if its target changed meanwhile.   *)
Fresh(t) ==
  /\ On(t, {"create"}) => s.work[t] = "none"
  /\ On(t, Making \ {"create"}) =>
       /\ pump.epoch <= s.epoch[t]
       /\ s.work[t] # "none" => pump.epoch < s.epoch[t]

(* What holds of a target until the connection closes.                      *)
TargetInv(t) ==
  s.phase = "ready" =>
    /\ s.current[t] # Sync!None => Stage(t) /\ Pending(t)
    /\ s.current[t] = Sync!None => s.work[t] # "resend" /\ ~On(t, {"resend", "enter"})
    /\ t \notin s.requested => Current(t)
    /\ Fresh(t)
    /\ Timers(t)
    /\ Versions(t)

(* Ready is what was not requested; a closed connection is ready for none.  *)
Readiness ==
  /\ s.ready = Targets \ s.requested
  /\ s.phase = "closed" => s.requested = Targets

(* The inductive invariant of PostReadySync.                                *)
SyncInv ==
  /\ SyncTypes /\ QueueShape /\ NumbersInv /\ Readiness
  /\ \A t \in Targets : TargetInv(t)

------------------------------------------------------------------------------
(* The coordinator's operators *)

LEMMA NotNone == \A a \in Attempts : a # Sync!None
  BY DEF Attempts, Sync!None

LEMMA SomeAttempt ==
  ASSUME NEW r \in Coordinators, NEW t \in Targets, r.current[t] # Sync!None
  PROVE  r.current[t] \in Attempts
  BY DEF Coordinators

LEMMA DisarmedAttempt ==
  \A a \in Attempts : /\ [a EXCEPT !.armed = FALSE] \in Attempts
                      /\ [a EXCEPT !.armed = FALSE, !.confirmed = FALSE] \in Attempts
  BY DEF Attempts

LEMMA CloseFacts ==
  ASSUME NEW r \in Coordinators, NEW why \in Reasons,
         r.phase = "closed" => r.requested = Targets /\ r.ready = {}
  PROVE  LET c == Sync!CloseConnection(r, why) IN
         /\ c \in Coordinators /\ c.phase = "closed" /\ c.requested = Targets /\ c.ready = {}
         /\ c.base = r.base
<1> DEFINE c == Sync!CloseConnection(r, why)
           cur == [t \in Targets |-> IF r.current[t] = Sync!None THEN Sync!None
                                     ELSE [r.current[t] EXCEPT !.armed = FALSE]]
<1>1. cur \in [Targets -> Attempts \cup {Sync!None}]
  <2>1. ASSUME NEW t \in Targets, r.current[t] # Sync!None
        PROVE  [r.current[t] EXCEPT !.armed = FALSE] \in Attempts
    <3>1. r.current[t] \in Attempts
      BY <2>1, SomeAttempt
    <3> QED  BY <3>1, DisarmedAttempt
  <2> QED  BY <2>1
<1>2. CASE r.phase = "closed"
  BY <1>2 DEF Sync!CloseConnection
<1>3. CASE r.phase # "closed"
  <2>1. c = [r EXCEPT !.phase = "closed", !.reason = why,
                 !.work = [t \in Targets |-> "none"],
                 !.timers = {p \in r.timers : r.handle[p[1]] # p[2]},
                 !.handle = [t \in Targets |-> 0],
                 !.current = cur,
                 !.requested = Targets, !.ready = {}]
    BY <1>3, Zenon DEF Sync!CloseConnection, Coordinators
  <2> HIDE DEF c, cur
  <2>2. c \in Coordinators /\ c.phase = "closed" /\ c.requested = Targets /\ c.ready = {} /\ c.base = r.base
    BY <2>1, <1>1 DEF Coordinators
  <2> QED  BY <2>2 DEF c
<1> QED  BY <1>2, <1>3

LEMMA CancelFacts ==
  ASSUME NEW r \in Coordinators, NEW t \in Targets
  PROVE  LET c == Sync!CancelConfirmation(r, t) IN
         /\ c \in Coordinators
         /\ c.phase = r.phase /\ c.epoch = r.epoch /\ c.base = r.base /\ c.current = r.current
         /\ c.requested = r.requested /\ c.ready = r.ready /\ c.work = r.work
         /\ c.timers = r.timers \ {<<t, r.handle[t]>>}
         /\ c.handle = [r.handle EXCEPT ![t] = 0]
  BY DEF Sync!CancelConfirmation, Coordinators

LEMMA RetryFacts ==
  ASSUME NEW r \in Coordinators, NEW t \in Targets, r.current[t] # Sync!None, r.phase = "ready"
  PROVE  LET c == Sync!RetryOrClose(r, t) IN
         /\ c \in Coordinators /\ c.base = r.base
         /\ \/ c.phase = "closed" /\ c.requested = Targets /\ c.ready = {}
            \/ /\ c.phase = r.phase /\ c.epoch = r.epoch /\ c.handle = r.handle
               /\ c.timers = r.timers /\ c.requested = r.requested /\ c.ready = r.ready
               /\ c.work = [r.work EXCEPT ![t] = "resend"]
               /\ c.current = [r.current EXCEPT ![t] =
                     [r.current[t] EXCEPT !.armed = FALSE, !.confirmed = FALSE]]
<1> DEFINE c == Sync!RetryOrClose(r, t)
           a == [r.current[t] EXCEPT !.armed = FALSE, !.confirmed = FALSE]
<1>1. a \in Attempts
  <2>1. r.current[t] \in Attempts
    BY SomeAttempt
  <2> QED  BY <2>1, DisarmedAttempt
<1>2. CASE r.current[t].retries >= SyncRetries
  <2>1. c = Sync!CloseConnection(r, "retries_exhausted")
    BY <1>2 DEF Sync!RetryOrClose
  <2>2. r.phase # "closed"
    OBVIOUS
  <2> HIDE DEF c
  <2>3. c \in Coordinators /\ c.phase = "closed" /\ c.requested = Targets /\ c.ready = {} /\ c.base = r.base
    BY <2>1, <2>2, CloseFacts DEF Reasons
  <2> QED  BY <2>3 DEF c
<1>3. CASE ~(r.current[t].retries >= SyncRetries)
  <2>1. c = [r EXCEPT !.current = [r.current EXCEPT ![t] = a], !.work = [r.work EXCEPT ![t] = "resend"]]
    BY <1>3 DEF Sync!RetryOrClose, Coordinators
  <2> HIDE DEF c
  <2>2. /\ c.phase = r.phase /\ c.epoch = r.epoch /\ c.handle = r.handle
        /\ c.timers = r.timers /\ c.requested = r.requested /\ c.ready = r.ready /\ c.base = r.base
        /\ c.work = [r.work EXCEPT ![t] = "resend"]
        /\ c.current = [r.current EXCEPT ![t] = a]
    BY <2>1 DEF Coordinators
  <2> HIDE DEF a
  <2>3. c \in Coordinators
    BY <2>1, <1>1 DEF Coordinators
  <2> QED  BY <2>2, <2>3 DEF c, a
<1> QED  BY <1>2, <1>3

LEMMA InvalidateFacts ==
  ASSUME NEW r \in Coordinators, NEW t \in Targets
  PROVE  LET c == Sync!InvalidateCurrent(r, t) IN
         /\ c \in Coordinators /\ c.base = r.base /\ c.phase = r.phase /\ c.handle = r.handle
         /\ c.timers = r.timers /\ c.requested = r.requested \cup {t} /\ c.ready = r.ready \ {t}
         /\ c.epoch = [r.epoch EXCEPT ![t] = r.epoch[t] + 1]
         /\ c.work = [r.work EXCEPT ![t] = "create"]
         /\ c.current = [r.current EXCEPT ![t] = Sync!None]
<1> DEFINE c == Sync!InvalidateCurrent(r, t)
<1>1. c = [r EXCEPT !.epoch = [r.epoch EXCEPT ![t] = r.epoch[t] + 1],
                    !.current = [r.current EXCEPT ![t] = Sync!None],
                    !.requested = r.requested \cup {t}, !.ready = r.ready \ {t},
                    !.work = [r.work EXCEPT ![t] = "create"]]
  BY DEF Sync!InvalidateCurrent, Coordinators
<1> HIDE DEF c
<1>a. /\ r.requested \cup {t} \in SUBSET Targets /\ r.ready \ {t} \in SUBSET Targets
      /\ [r.epoch EXCEPT ![t] = r.epoch[t] + 1] \in [Targets -> Nat]
      /\ [r.current EXCEPT ![t] = Sync!None] \in [Targets -> Attempts \cup {Sync!None}]
      /\ [r.work EXCEPT ![t] = "create"] \in [Targets -> {"none", "create", "resend"}]
  BY DEF Coordinators
<1>2. c \in Coordinators
  BY <1>1, <1>a DEF Coordinators
<1>3. /\ c.base = r.base /\ c.phase = r.phase /\ c.handle = r.handle
      /\ c.timers = r.timers /\ c.requested = r.requested \cup {t} /\ c.ready = r.ready \ {t}
      /\ c.epoch = [r.epoch EXCEPT ![t] = r.epoch[t] + 1]
      /\ c.work = [r.work EXCEPT ![t] = "create"]
      /\ c.current = [r.current EXCEPT ![t] = Sync!None]
  BY <1>1 DEF Coordinators
<1> QED  BY <1>2, <1>3 DEF c

LEMMA AdvanceFacts ==
  ASSUME NEW r \in Coordinators, NEW t \in Targets, r.current[t] # Sync!None
  PROVE  LET c == Sync!AdvanceBase(r, t)
             a == r.current[t] IN
         /\ c \in Coordinators /\ c.phase = r.phase /\ c.epoch = r.epoch /\ c.work = r.work
         /\ c.requested = r.requested \ {t} /\ c.ready = r.ready \cup {t}
         /\ c.base = [r.base EXCEPT ![t] = [seq |-> a.seq, version |-> a.version]]
         /\ c.current = [r.current EXCEPT ![t] = Sync!None]
         /\ c.handle = [r.handle EXCEPT ![t] = a.seq]
         /\ c.timers = (r.timers \ {<<t, r.handle[t]>>}) \cup {<<t, a.seq>>}
<1> DEFINE a == r.current[t]
           q == [r EXCEPT !.base[t] = [seq |-> a.seq, version |-> a.version],
                          !.current[t] = Sync!None, !.requested = @ \ {t}, !.ready = @ \cup {t}]
           c == Sync!AdvanceBase(r, t)
<1>1. a \in Attempts
  BY SomeAttempt
<1>2. /\ q \in Coordinators /\ q.phase = r.phase /\ q.epoch = r.epoch /\ q.work = r.work
      /\ q.requested = r.requested \ {t} /\ q.ready = r.ready \cup {t}
      /\ q.base = [r.base EXCEPT ![t] = [seq |-> a.seq, version |-> a.version]]
      /\ q.current = [r.current EXCEPT ![t] = Sync!None]
      /\ q.handle = r.handle /\ q.timers = r.timers
  <2> HIDE DEF a
  <2> QED  BY <1>1 DEF Coordinators, Attempts, Frames
<1>3. c = Sync!ScheduleConfirmation(q, t)
  BY DEF Sync!AdvanceBase
<1> HIDE DEF q, c
<1>4. q.base[t].seq = a.seq /\ a.seq \in Nat
  BY <1>1, <1>2 DEF Coordinators, Attempts
<1>5. c = [Sync!CancelConfirmation(q, t) EXCEPT !.handle[t] = a.seq, !.timers = @ \cup {<<t, a.seq>>}]
  BY <1>3, <1>4 DEF Sync!ScheduleConfirmation
<1> DEFINE d == Sync!CancelConfirmation(q, t)
<1>6. /\ d \in Coordinators
      /\ d.phase = q.phase /\ d.epoch = q.epoch /\ d.base = q.base /\ d.current = q.current
      /\ d.requested = q.requested /\ d.ready = q.ready /\ d.work = q.work
      /\ d.timers = q.timers \ {<<t, q.handle[t]>>}
      /\ d.handle = [q.handle EXCEPT ![t] = 0]
  BY <1>2, CancelFacts
<1>7. c = [d EXCEPT !.handle[t] = a.seq, !.timers = @ \cup {<<t, a.seq>>}]
  BY <1>5
<1> HIDE DEF d, a
<1>e. c = [d EXCEPT !.handle = [d.handle EXCEPT ![t] = a.seq], !.timers = d.timers \cup {<<t, a.seq>>}]
  BY <1>7, <1>6 DEF Coordinators
<1>f. d.timers \cup {<<t, a.seq>>} \in SUBSET (Targets \X Nat)
  BY <1>6, <1>4 DEF Coordinators
<1>g. [d.handle EXCEPT ![t] = a.seq] \in [Targets -> Nat]
  BY <1>6, <1>4 DEF Coordinators
<1>8. /\ c \in Coordinators
      /\ c.phase = d.phase /\ c.epoch = d.epoch /\ c.base = d.base /\ c.current = d.current
      /\ c.requested = d.requested /\ c.ready = d.ready /\ c.work = d.work
      /\ c.timers = d.timers \cup {<<t, a.seq>>}
      /\ c.handle = [d.handle EXCEPT ![t] = a.seq]
  BY <1>e, <1>f, <1>g, <1>6 DEF Coordinators
<1>9. c.handle = [r.handle EXCEPT ![t] = a.seq]
  BY <1>8, <1>6, <1>2, <1>4 DEF Coordinators
<1> QED  BY <1>2, <1>6, <1>8, <1>9 DEF c, a

LEMMA FirstMember ==
  \A W \in SUBSET Targets : W # {} => Sync!First(W) \in W
<1> SUFFICES ASSUME NEW W \in SUBSET Targets, W # {} PROVE Sync!First(W) \in W
  OBVIOUS
<1>1. W \subseteq {"preview", "program"}
  BY DeviceSessionAssumption DEF Sync!SyncAssumption, Sync!Buses
<1> QED  BY <1>1 DEF Sync!First

------------------------------------------------------------------------------
(* What a step may leave alone *)

(* of the coordinator's view of a target, *)
Still(u) ==
  /\ s'.current[u] = s.current[u] /\ s'.work[u] = s.work[u] /\ s'.base[u] = s.base[u]
  /\ s'.handle[u] = s.handle[u] /\ s'.epoch[u] = s.epoch[u]
  /\ u \notin s'.requested => u \notin s.requested /\ version'[u] = version[u]
  /\ version'[u] = version[u] \/ version[u] < version'[u]
  /\ \A n \in Nat : <<u, n>> \in s'.timers => <<u, n>> \in s.timers

(* of the tasks that concern it, *)
SameTasks(u) ==
  /\ Queued("notify", u)' => Queued("notify", u) \/ (u \in s'.requested /\ version[u] < version'[u])
  /\ Queued("confirm", u)' => Queued("confirm", u)
  /\ \A i \in DOMAIN queue' : queue'[i].kind = "timeout" /\ queue'[i].target = u =>
       \E j \in DOMAIN queue : queue[j] = queue'[i]

(* of the frames on their way to it *)
SameWire(u) ==
  \A i \in DOMAIN wire' : wire'[i].target = u => \E j \in DOMAIN wire : wire[j] = wire'[i]

(* and of what the pump does for it. *)
SamePump(u) ==
  \/ pump' = pump
  \/ ~On(u, Active) /\ ~On(u, Active)'
  \/ On(u, Making) /\ ~On(u, Active)'
  \/ s.current[u] = Sync!None /\ ~On(u, Active)'
  \/ /\ On(u, Making) /\ On(u, Making \ {"create"})'
     /\ pump'.epoch = IF pump.pc = "create" THEN s.epoch[u] ELSE pump.epoch
     /\ pump'.version = version'[u] \/ (pump.pc # "create" /\ pump'.version = pump.version)
     /\ On(u, {"created", "commit"})' => ~Queued("notify", u)'
  \/ /\ pump'.seq = pump.seq /\ pump'.version = pump.version
     /\ \/ On(u, {"enter", "gate"}) /\ On(u, {"gate"})'
        \/ On(u, {"transmit", "sending", "sent"}) /\ On(u, {"transmit", "sending", "sent"})'

LEMMA MakingFacts ==
  ASSUME NEW u \in Targets, TargetInv(u), s.phase = "ready", On(u, Making)
  PROVE  s.current[u] = Sync!None /\ s.work[u] # "resend" /\ u \in s.requested
  BY DEF TargetInv, Stage, Current, On, Making, Active, Working

LEMMA TargetKept ==
  ASSUME SyncTypes, version' \in [Sync!Buses -> Nat], NEW u \in Targets, TargetInv(u),
         s'.phase = "ready" => s.phase = "ready" /\ Still(u),
         dev'[u] = dev[u], reserved' \in Nat, reserved <= reserved',
         SameTasks(u), SameWire(u), SamePump(u)
  PROVE  TargetInv(u)'
<1> SUFFICES ASSUME s'.phase = "ready"
             PROVE  /\ s'.current[u] # Sync!None => Stage(u)' /\ Pending(u)'
                    /\ s'.current[u] = Sync!None =>
                         s'.work[u] # "resend" /\ ~On(u, {"resend", "enter"})'
                    /\ u \notin s'.requested => Current(u)'
                    /\ Fresh(u)'
                    /\ Timers(u)'
                    /\ Versions(u)'
  BY DEF TargetInv
<1>1. s.phase = "ready" /\ Still(u)
  OBVIOUS
<1>2. On(u, Making) => s.current[u] = Sync!None /\ s.work[u] # "resend" /\ u \in s.requested
  BY <1>1, MakingFacts
<1>3. ASSUME s'.current[u] # Sync!None
      PROVE  Stage(u)' /\ Pending(u)'
  <2>1. s.current[u] # Sync!None /\ Stage(u) /\ Pending(u) /\ ~On(u, Making)
    BY <1>1, <1>2, <1>3 DEF Still, TargetInv
  <2>2. Stage(u)'
    BY <2>1, <1>1 DEF Stage, Still, SamePump, On, Active, Making, Sending, Same
  <2>3. Pending(u)'
    <3> DEFINE a == s.current[u]
    <3>0. a = s'.current[u] /\ a \in Attempts
      BY <1>1, <2>1 DEF Still, SyncTypes, Coordinators
    <3>1. /\ a.base < a.seq /\ a.seq <= reserved' /\ dev'[u].seq <= a.seq
          /\ dev'[u].seq = a.seq => dev'[u].version = a.version
          /\ a.early = "applied" => dev'[u].seq = a.seq
      BY <2>1, <3>0 DEF Pending, SyncTypes, Attempts
    <3>2. \A i \in DOMAIN wire' : wire'[i].target = u =>
            wire'[i].seq <= a.seq /\ (wire'[i].seq = a.seq => wire'[i].version = a.version)
      BY <2>1 DEF Pending, SameWire
    <3>3. \A i \in DOMAIN queue' : queue'[i].kind = "timeout" /\ queue'[i].target = u
             /\ queue'[i].n = a.seq => a.confirmed
      BY <2>1 DEF Pending, SameTasks
    <3> HIDE DEF a
    <3> QED  BY <3>0, <3>1, <3>2, <3>3 DEF Pending
  <2> QED  BY <2>2, <2>3
<1>4. ASSUME s'.current[u] = Sync!None
      PROVE  s'.work[u] # "resend" /\ ~On(u, {"resend", "enter"})'
  BY <1>1, <1>4 DEF Still, TargetInv, SamePump, On, Active, Making, Sending
<1>5. Working(u)' => Working(u)
  BY <1>1 DEF Still, SamePump, On, Active, Making, Sending, Working
<1>6. ASSUME u \notin s'.requested
      PROVE  Current(u)'
  <2>1. Current(u) /\ version'[u] = version[u]
    BY <1>1, <1>6 DEF Still, TargetInv
  <2>2. /\ s'.base[u].version = version'[u] /\ dev'[u].seq = s'.base[u].seq
        /\ ~Working(u)' /\ ~Queued("notify", u)'
    BY <1>1, <1>5, <1>6, <2>1 DEF Still, Current, SameTasks
  <2>3. \A i \in DOMAIN wire' : wire'[i].target = u => wire'[i].seq <= s'.base[u].seq
    BY <1>1, <2>1 DEF Still, Current, SameWire
  <2> QED  BY <2>2, <2>3 DEF Current
<1>7. Fresh(u)'
  <2>1. Fresh(u)
    BY <1>1 DEF TargetInv
  <2> QED  BY <2>1, <1>1 DEF Fresh, Still, SamePump, On, Active, Making, Sending, SyncTypes, Coordinators
<1>8. Timers(u)'
  <2>1. Timers(u)
    BY <1>1 DEF TargetInv
  <2> QED  BY <2>1, <1>1, <1>5 DEF Timers, Still, SameTasks
<1>9. Versions(u)'
  <2>1. Versions(u) /\ version[u] \in Nat /\ version'[u] \in Nat
    BY <1>1, DeviceSessionAssumption DEF TargetInv, SyncTypes, Sync!SyncAssumption
  <2>2. version[u] <= version'[u] /\ (Queued("notify", u)' => Queued("notify", u) \/ version[u] < version'[u])
    BY <1>1, <2>1 DEF Still, SameTasks
  <2>3. ASSUME s'.current[u] # Sync!None
        PROVE  /\ s'.current[u].version <= version'[u]
               /\ Queued("notify", u)' => s'.current[u].version # version'[u]
    <3>1. PICK k \in Nat : k = s.current[u].version /\ s'.current[u].version = k
      BY <1>1, <2>3 DEF Still, SyncTypes, Coordinators, Attempts
    <3>2. k <= version[u] /\ (Queued("notify", u) => k # version[u])
      BY <1>1, <2>1, <2>3, <3>1 DEF Still, Versions
    <3> QED  BY <2>1, <2>2, <3>1, <3>2
  <2>4. ASSUME On(u, Making \ {"create"})'
        PROVE  /\ pump'.version <= version'[u]
               /\ On(u, {"created", "commit"})' /\ Queued("notify", u)' => pump'.version # version'[u]
    <3>1. pump.version \in Nat
      BY DEF SyncTypes, Pumps
    <3>2. CASE pump' = pump
      <4>1. /\ pump.version <= version[u]
            /\ On(u, {"created", "commit"}) /\ Queued("notify", u) => pump.version # version[u]
        BY <2>1, <2>4, <3>2 DEF Versions, On
      <4> QED  BY <2>1, <2>2, <3>1, <3>2, <4>1 DEF On
    <3>3. CASE pump' # pump
      <4>1. /\ On(u, Making)
            /\ pump'.version = version'[u] \/ (pump.pc # "create" /\ pump'.version = pump.version)
            /\ On(u, {"created", "commit"})' => ~Queued("notify", u)'
        BY <2>4, <3>3 DEF SamePump, On, Active, Making, Sending
      <4>2. pump.pc # "create" => pump.version <= version[u]
        BY <2>1, <4>1 DEF Versions, On, Making
      <4> QED  BY <2>1, <2>2, <3>1, <4>1, <4>2
    <3> QED  BY <3>2, <3>3
  <2>5. On(u, {"created", "commit"})' => On(u, Making \ {"create"})'
    BY DEF On, Making
  <2> QED  BY <2>3, <2>4, <2>5 DEF Versions
<1> QED  BY <1>3, <1>4, <1>6, <1>7, <1>8, <1>9

(* Nothing is newer than before, and no change was queued. *)
LEMMA VersionsKept ==
  ASSUME NEW u \in Targets, Versions(u), version' = version, Queued("notify", u)' => Queued("notify", u),
         s'.current[u] # Sync!None => s.current[u] # Sync!None /\ s'.current[u].version = s.current[u].version,
         On(u, Making \ {"create"})' => pump' = pump
  PROVE  Versions(u)'
<1>1. On(u, {"created", "commit"})' => On(u, Making \ {"create"})'
  BY DEF On, Making
<1> QED  BY <1>1 DEF Versions, On

(* The numbers do not move. *)
LEMMA NumbersKept ==
  ASSUME NumbersInv, UNCHANGED <<reserved, wire, back, dev>>, s'.base = s.base \/ BasesInv',
         Acknowledged(queue)', PumpNumbers'
  PROVE  NumbersInv'
  BY DEF NumbersInv, Acknowledged, BasesInv

------------------------------------------------------------------------------
(* The queue *)

LEMMA TailFacts ==
  ASSUME NEW S, NEW q \in Seq(S), q # <<>>
  PROVE  /\ Head(q) = q[1] /\ Head(q) \in S /\ 1 \in DOMAIN q /\ Tail(q) \in Seq(S) /\ Len(q) > 0
         /\ Len(Tail(q)) = Len(q) - 1
         /\ \A i \in DOMAIN Tail(q) : i + 1 \in DOMAIN q /\ Tail(q)[i] = q[i + 1]
         /\ \A i \in DOMAIN q : i # 1 => i - 1 \in DOMAIN Tail(q) /\ Tail(q)[i - 1] = q[i]
  OBVIOUS

LEMMA AppendFacts ==
  ASSUME NEW S, NEW q \in Seq(S), NEW e \in S
  PROVE  /\ Append(q, e) \in Seq(S) /\ Len(Append(q, e)) = Len(q) + 1
         /\ Append(q, e)[Len(q) + 1] = e
         /\ \A i \in DOMAIN q : i \in DOMAIN Append(q, e) /\ Append(q, e)[i] = q[i]
         /\ \A i \in DOMAIN Append(q, e) : i \in DOMAIN q \/ (i = Len(q) + 1 /\ Append(q, e)[i] = e)
         /\ q = <<>> => Append(q, e) = <<e>>
<1>1. /\ Append(q, e) \in Seq(S) /\ Len(Append(q, e)) = Len(q) + 1
      /\ Append(q, e)[Len(q) + 1] = e
      /\ \A i \in 1 .. Len(q) : Append(q, e)[i] = q[i]
  OBVIOUS
<1>2. DOMAIN q = 1 .. Len(q) /\ DOMAIN Append(q, e) = 1 .. Len(q) + 1 /\ Len(q) \in Nat
  BY <1>1
<1>3. q = <<>> => Append(q, e) = <<e>>
  OBVIOUS
<1> QED  BY <1>1, <1>2, <1>3

LEMMA KindFacts ==
  /\ Notices \cap (Outside \cup PumpTasks) = {} /\ Outside \cap PumpTasks = {} /\ Answers \cap Alone = {}
  /\ Answers \subseteq Outside /\ Alone \subseteq Outside
  /\ \A pc \in Awaits : Own(pc) \subseteq PumpTasks
  /\ Waits \cap (Awaits \cup {"pick"} \cup Runs) = {} /\ Runs \cap (Awaits \cup {"pick"}) = {}
  /\ "pick" \notin Awaits
  BY DEF Notices, Outside, PumpTasks, Answers, Alone, Awaits, Own, Waits, Runs

(* A queue of changes has its shape wherever the pump is, and while the pump *)
(* runs there is no other.                                                   *)
LEMMA NoticesShape ==
  ASSUME \A i \in DOMAIN queue' : queue'[i].kind \in Notices
  PROVE  QueueShape'
  BY KindFacts DEF QueueShape

LEMMA RunsQueue ==
  ASSUME QueueShape, pump.pc \in Runs
  PROVE  \A i \in DOMAIN queue : queue[i].kind \in Notices
  BY KindFacts DEF QueueShape

(* The first task ends: what is left in the queue, and a pump that starts. *)
LEMMA FinishFacts ==
  ASSUME SyncTypes, QueueShape, queue # <<>>, Head(queue).kind \in Notices \cup Outside,
         NEW r, Sync!Finish(r)
  PROVE  /\ s' = r /\ queue' \in Seq(Tasks) /\ pump' \in Pumps /\ QueueShape'
         /\ \A i \in DOMAIN queue' :
              queue'[i] = Sync!Pick \/ \E j \in DOMAIN queue : j # 1 /\ queue'[i] = queue[j]
         /\ \A i \in DOMAIN queue' : queue'[i].kind \notin Alone
         /\ pump' = pump \/ (pump.pc = "idle" /\ pump'.pc = "pick")
         /\ Head(queue) = queue[1] /\ queue[1] \in Tasks /\ 1 \in DOMAIN queue
         /\ queue[1].kind \in Outside => pump.pc \in Waits \cup {"pick"}
         /\ queue[1].kind \in Alone => pump.pc \in Waits
<1> DEFINE q == Tail(queue)
           starts == pump.pc = "idle" /\ Sync!HasWork(r)
<1>0. queue \in Seq(Tasks) /\ pump \in Pumps
  BY DEF SyncTypes
<1>1. /\ Head(queue) = queue[1] /\ Head(queue) \in Tasks /\ 1 \in DOMAIN queue /\ q \in Seq(Tasks)
      /\ Len(queue) > 0 /\ Len(q) = Len(queue) - 1
      /\ \A i \in DOMAIN q : i + 1 \in DOMAIN queue /\ q[i] = queue[i + 1]
  BY <1>0, TailFacts
<1>2. s' = r /\ queue' = q \o (IF starts THEN <<Sync!Pick>> ELSE <<>>)
      /\ pump' = IF starts THEN [pump EXCEPT !.pc = "pick"] ELSE pump
  BY DEF Sync!Finish
<1>3. Sync!Pick \in Tasks /\ Sync!Pick.kind = "pick" /\ "pick" \in PumpTasks /\ "pick" \notin Alone
  BY DEF Sync!Pick, Sync!Task, Tasks, PumpTasks, Sync!Buses, Alone
<1>4. /\ queue[1].kind \in Outside => pump.pc \in Waits \cup {"pick"}
      /\ queue[1].kind \in Alone => pump.pc \in Waits
  <2>1. \/ queue[1].kind \in Notices
        \/ queue[1].kind \in Outside /\ pump.pc \in Waits
        \/ queue[1].kind \in Answers \cup {"pick"} /\ pump.pc = "pick"
        \/ queue[1].kind \in Own(pump.pc) /\ pump.pc \in Awaits
    BY <1>1 DEF QueueShape
  <2>2. "pick" \in PumpTasks
    BY DEF PumpTasks
  <2> QED  BY <2>1, <2>2, KindFacts
<1> HIDE DEF q
<1>a. DOMAIN q = 1 .. Len(q) /\ Len(q) \in Nat /\ DOMAIN queue = 1 .. Len(queue)
  BY <1>0, <1>1
<1>b. /\ \A i \in DOMAIN q : q[i].kind \notin Alone
      /\ \A i, j \in DOMAIN q : q[i].kind \in PumpTasks /\ q[j].kind \in PumpTasks \cup Answers => j <= i
  <2>1. ASSUME NEW i \in DOMAIN q PROVE i + 1 \in DOMAIN queue /\ i + 1 # 1 /\ q[i] = queue[i + 1]
    BY <1>1, <1>a
  <2>2. ASSUME NEW i \in DOMAIN q PROVE q[i].kind \notin Alone
    BY <2>1 DEF QueueShape
  <2>3. ASSUME NEW i \in DOMAIN q, NEW j \in DOMAIN q, q[i].kind \in PumpTasks,
               q[j].kind \in PumpTasks \cup Answers
        PROVE  j <= i
    <3>1. j + 1 <= i + 1
      BY <2>1, <2>3 DEF QueueShape
    <3> QED  BY <1>a, <3>1
  <2> QED  BY <2>2, <2>3
<1>5. CASE starts
  <2>1. queue' = Append(q, Sync!Pick)
    BY <1>5, <1>2, <1>1
  <2>2. pump' \in Pumps /\ pump'.pc = "pick" /\ pump.pc = "idle"
    BY <1>5, <1>2, <1>0 DEF Pumps
  <2>3. /\ queue' \in Seq(Tasks) /\ Len(queue') = Len(q) + 1 /\ DOMAIN queue' = 1 .. Len(q) + 1
        /\ \A i \in DOMAIN queue' : (i \in DOMAIN q /\ queue'[i] = q[i]) \/ (i = Len(q) + 1 /\ queue'[i] = Sync!Pick)
    BY <2>1, <1>1, <1>3, AppendFacts
  <2>4. \A i \in DOMAIN q : q[i].kind \in Notices \cup Answers
    <3>1. pump.pc \in Waits
      BY <2>2 DEF Waits
    <3> QED  BY <1>1, <1>b, <3>1, KindFacts DEF QueueShape, Outside
  <2>5. \A i \in DOMAIN queue' : queue'[i].kind \in Notices \cup Answers \cup {"pick"} /\ queue'[i].kind \notin Alone
    BY <2>3, <2>4, <1>3, <1>b
  <2>6. \A i, j \in DOMAIN queue' :
          queue'[i].kind \in PumpTasks /\ queue'[j].kind \in PumpTasks \cup Answers => j <= i
    <3> SUFFICES ASSUME NEW i \in DOMAIN queue', NEW j \in DOMAIN queue', queue'[i].kind \in PumpTasks
                 PROVE  j <= i
      OBVIOUS
    <3>1. i = Len(q) + 1
      BY <2>3, <2>4, KindFacts
    <3> QED  BY <2>3, <3>1, <1>a
  <2>7. QueueShape'
    BY <2>2, <2>5, <2>6 DEF QueueShape
  <2>8. \A i \in DOMAIN queue' :
          queue'[i] = Sync!Pick \/ \E j \in DOMAIN queue : j # 1 /\ queue'[i] = queue[j]
    BY <1>1, <1>a, <2>3
  <2> QED  BY <1>1, <1>2, <1>4, <2>2, <2>3, <2>5, <2>7, <2>8
<1>6. CASE ~starts
  <2>1. queue' = q /\ pump' = pump /\ queue' \in Seq(Tasks)
    BY <1>6, <1>0, <1>1, <1>2
  <2>2. QueueShape'
    BY <1>1, <1>b, <2>1 DEF QueueShape
  <2>3. \A i \in DOMAIN queue' : \E j \in DOMAIN queue : j # 1 /\ queue'[i] = queue[j]
    BY <1>1, <1>a, <2>1
  <2> QED  BY <1>0, <1>1, <1>2, <1>4, <1>b, <2>1, <2>2, <2>3
<1> QED  BY <1>5, <1>6

USE DEF Sync!Env

(* A task that ends keeps everything but the coordinator's part. *)
LEMMA FinishKeeps ==
  ASSUME SyncInv, queue # <<>>, Head(queue).kind \in Notices \cup Outside,
         NEW r \in Coordinators, Sync!Finish(r), UNCHANGED Sync!Env
  PROVE  /\ s' = r /\ SyncTypes' /\ QueueShape' /\ Acknowledged(queue)' /\ PumpNumbers'
         /\ r.base = s.base \/ BasesInv' => NumbersInv'
         /\ queue[1] \in Tasks /\ Head(queue) = queue[1] /\ 1 \in DOMAIN queue
         /\ queue[1].kind \notin {"abort", "dispose"} => queue[1].target \in Targets
         /\ queue[1].kind = "applied" => queue[1].n <= dev[queue[1].target].seq
         /\ \A u \in Targets : /\ SamePump(u) /\ SameWire(u) /\ SameTasks(u)
                               /\ ~Queued("confirm", u)' /\ (Queued("notify", u)' => Queued("notify", u))
         /\ \A i \in DOMAIN queue' : queue'[i].kind \notin Alone
         /\ pump' = pump \/ (pump.pc = "idle" /\ pump'.pc = "pick")
         /\ queue[1].kind \in Outside => pump.pc \in Waits \cup {"pick"}
         /\ version' \in [Sync!Buses -> Nat]
<1>0. SyncTypes /\ QueueShape /\ NumbersInv /\ PumpNumbers /\ Acknowledged(queue)
  BY DEF SyncInv, NumbersInv
<1>1. /\ s' = r /\ queue' \in Seq(Tasks) /\ pump' \in Pumps /\ QueueShape'
      /\ \A i \in DOMAIN queue' :
           queue'[i] = Sync!Pick \/ \E j \in DOMAIN queue : j # 1 /\ queue'[i] = queue[j]
      /\ \A i \in DOMAIN queue' : queue'[i].kind \notin Alone
      /\ pump' = pump \/ (pump.pc = "idle" /\ pump'.pc = "pick")
      /\ Head(queue) = queue[1] /\ queue[1] \in Tasks /\ 1 \in DOMAIN queue
      /\ queue[1].kind \in Outside => pump.pc \in Waits \cup {"pick"}
  BY <1>0, FinishFacts
<1>2. Sync!Pick.kind = "pick" /\ Sync!Pick \in Tasks
  BY DEF Sync!Pick, Sync!Task, Tasks, PumpTasks, Sync!Buses
<1>3. SyncTypes'
  <2>1. pump'.pc \in Active => pump'.target \in Targets
    BY <1>0, <1>1 DEF SyncTypes, Active, Making, Sending
  <2>2. \A i \in DOMAIN queue' : queue'[i].kind \notin PumpTasks \cup {"abort", "dispose"} =>
           queue'[i].target \in Targets
    BY <1>0, <1>1, <1>2 DEF SyncTypes, PumpTasks
  <2> QED  BY <2>1, <2>2, <1>0, <1>1 DEF SyncTypes
<1>4. Acknowledged(queue)'
  BY <1>0, <1>1, <1>2 DEF Acknowledged
<1>5. PumpNumbers'
  BY <1>0, <1>1 DEF PumpNumbers, Sending
<1>6. \A u \in Targets : SamePump(u)
  BY <1>1 DEF SamePump, On, Active, Making, Sending
<1>7. \A u \in Targets : SameWire(u)
  BY DEF SameWire
<1>8. ASSUME NEW u \in Targets
      PROVE  SameTasks(u) /\ ~Queued("confirm", u)' /\ (Queued("notify", u)' => Queued("notify", u))
  <2>1. ~Queued("confirm", u)' /\ \A i \in DOMAIN queue' : queue'[i].kind # "timeout"
    BY <1>1 DEF Queued, Alone
  <2>2. Queued("notify", u)' => Queued("notify", u)
    BY <1>1, <1>2 DEF Queued
  <2> QED  BY <2>1, <2>2 DEF SameTasks
<1>9. r.base = s.base \/ BasesInv' => NumbersInv'
  BY <1>0, <1>1, <1>4, <1>5, NumbersKept
<1>10. /\ queue[1].kind \notin {"abort", "dispose"} => queue[1].target \in Targets
       /\ queue[1].kind = "applied" => queue[1].n <= dev[queue[1].target].seq
  <2>1. queue[1].kind \in Notices \cup Outside
    BY <1>1
  <2> QED  BY <1>0, <1>1, <2>1, KindFacts DEF SyncTypes, Acknowledged
<1> QED  BY <1>0, <1>1, <1>3, <1>4, <1>5, <1>6, <1>7, <1>8, <1>9, <1>10 DEF SyncTypes

LEMMA FinishClosed ==
  ASSUME SyncInv, queue # <<>>, Head(queue).kind \in Notices \cup Outside,
         NEW why \in Reasons, Sync!Finish(Sync!CloseConnection(s, why)), UNCHANGED Sync!Env
  PROVE  SyncInv'
<1> DEFINE r == Sync!CloseConnection(s, why)
<1>1. /\ r \in Coordinators /\ r.phase = "closed" /\ r.requested = Targets /\ r.ready = {}
      /\ r.base = s.base
  BY CloseFacts DEF SyncInv, SyncTypes, Readiness
<1> HIDE DEF r
<1>2. s' = r /\ SyncTypes' /\ QueueShape' /\ NumbersInv'
  BY <1>1, FinishKeeps DEF r
<1> QED  BY <1>1, <1>2 DEF SyncInv, TargetInv, Readiness

(* A task that leaves every target as it was, or closes. *)
LEMMA FinishSame ==
  ASSUME SyncInv, queue # <<>>, Head(queue).kind \in Outside,
         Sync!Finish(s), UNCHANGED Sync!Env
  PROVE  SyncInv'
<1>1. s \in Coordinators
  BY DEF SyncInv, SyncTypes
<1>2. /\ s' = s /\ SyncTypes' /\ QueueShape' /\ NumbersInv' /\ version' \in [Sync!Buses -> Nat]
      /\ \A u \in Targets : SamePump(u) /\ SameWire(u) /\ SameTasks(u)
  BY <1>1, FinishKeeps
<1>3. \A u \in Targets : TargetInv(u)'
  BY <1>2, TargetKept DEF SyncInv, Still, SyncTypes
<1> QED  BY <1>2, <1>3 DEF SyncInv, Readiness

------------------------------------------------------------------------------
(* Acknowledgements *)

LEMMA AckCases ==
  ASSUME NEW r \in Coordinators, NEW t \in Targets, NEW n \in Nat,
         NEW status \in {"applied", "error", "foreign"}
  PROVE  LET c == Sync!ProcessAck(r, t, n, status)
             a == r.current[t] IN
         \/ c = r
         \/ c = Sync!CloseConnection(r, "protocol_violation")
         \/ /\ r.phase = "ready" /\ a # Sync!None /\ n = a.seq /\ status # "foreign"
            /\ \/ a.inFlight /\ c = [r EXCEPT !.current[t].early = status]
               \/ /\ ~a.inFlight /\ a.confirmed
                  /\ \/ status = "error" /\ c = Sync!RetryOrClose(r, t)
                     \/ status = "applied" /\ Sync!IsCurrent(t, a) /\ c = Sync!AdvanceBase(r, t)
                     \/ status = "applied" /\ ~Sync!IsCurrent(t, a) /\ c = Sync!InvalidateCurrent(r, t)
<1> DEFINE c == Sync!ProcessAck(r, t, n, status)
           a == r.current[t]
           based == status # "foreign" /\ n = r.base[t].seq
           named == status # "foreign" /\ n = a.seq
<1>1. CASE r.phase = "closed" \/ based \/ a = Sync!None \/ ~named
  BY <1>1, Zenon DEF Sync!ProcessAck
<1>2. CASE r.phase # "closed" /\ ~based /\ a # Sync!None /\ named
  <2>1. c = CASE a.inFlight ->
                   IF a.early \notin {"none", status} THEN Sync!CloseConnection(r, "protocol_violation")
                   ELSE [r EXCEPT !.current[t].early = status]
              [] ~a.inFlight /\ ~a.confirmed -> r
              [] ~a.inFlight /\ a.confirmed ->
                   IF status = "error" THEN Sync!RetryOrClose(r, t)
                   ELSE IF Sync!IsCurrent(t, a) THEN Sync!AdvanceBase(r, t)
                   ELSE Sync!InvalidateCurrent(r, t)
    BY <1>2, Zenon DEF Sync!ProcessAck
  <2>2. r.phase = "ready"
    BY <1>2 DEF Coordinators
  <2> HIDE DEF c
  <2>3. \/ c = r
        \/ c = Sync!CloseConnection(r, "protocol_violation")
        \/ a.inFlight /\ c = [r EXCEPT !.current[t].early = status]
        \/ /\ ~a.inFlight /\ a.confirmed
           /\ \/ status = "error" /\ c = Sync!RetryOrClose(r, t)
              \/ status # "error" /\ Sync!IsCurrent(t, a) /\ c = Sync!AdvanceBase(r, t)
              \/ status # "error" /\ ~Sync!IsCurrent(t, a) /\ c = Sync!InvalidateCurrent(r, t)
    BY <2>1
  <2> QED  BY <1>2, <2>2, <2>3 DEF c
<1> QED  BY <1>1, <1>2

(* The pending frame t was answered, or nobody waits for its answer: r is the *)
(* coordinator with what the answer needs, and the pump is not at t.          *)
LEMMA Answered ==
  ASSUME SyncInv, NEW t \in Targets, s.phase = "ready", s.current[t] # Sync!None,
         NEW r \in Coordinators, r.current[t] \in Attempts,
         r.phase = s.phase, r.base = s.base, r.work = s.work, r.handle = s.handle,
         r.timers = s.timers, r.requested = s.requested, r.ready = s.ready, r.epoch = s.epoch,
         \A u \in Targets : u # t => r.current[u] = s.current[u],
         r.current[t].seq = s.current[t].seq, r.current[t].version = s.current[t].version,
         r.current[t].base = s.current[t].base,
         r.current[t].early = "applied" => dev[t].seq = r.current[t].seq,
         r.current[t].confirmed, ~r.current[t].inFlight, s.work[t] = "none",
         ~On(t, Active)',
         \A i \in DOMAIN queue' : queue'[i].kind \notin Alone,
         Queued("notify", t)' => Queued("notify", t),
         \A u \in Targets : u # t => SamePump(u) /\ SameTasks(u),
         UNCHANGED <<version, reserved, wire, dev>>,
         \/ s' = r
         \/ s' = Sync!RetryOrClose(r, t)
         \/ s' = Sync!AdvanceBase(r, t) /\ Sync!IsCurrent(t, r.current[t])
              /\ dev[t].seq = r.current[t].seq
         \/ s' = Sync!InvalidateCurrent(r, t)
  PROVE  /\ s' \in Coordinators /\ BasesInv' /\ Readiness'
         /\ \A u \in Targets : TargetInv(u)'
<1> DEFINE a == r.current[t]
<1>0. SyncTypes /\ NumbersInv /\ BasesInv /\ Readiness /\ TargetInv(t)
  BY DEF SyncInv, NumbersInv
<1>1. /\ a # Sync!None /\ Pending(t)
      /\ \A n \in Nat : <<t, n>> \notin s.timers
  BY <1>0, NotNone DEF TargetInv, Timers, Working, Queued
<1>2. /\ \A i \in DOMAIN queue' : queue'[i].kind # "timeout"
      /\ \A u \in Targets : ~Queued("confirm", u)'
  BY DEF Queued, Alone
<1>v. /\ a.version <= version[t]
      /\ Queued("notify", t)' => a.version # version[t]
  BY <1>0 DEF TargetInv, Versions
<1>3. /\ a.base < a.seq /\ a.seq <= reserved /\ dev[t].seq <= a.seq
      /\ dev[t].seq = a.seq => dev[t].version = a.version
      /\ \A i \in DOMAIN wire : wire[i].target = t =>
           wire[i].seq <= a.seq /\ (wire[i].seq = a.seq => wire[i].version = a.version)
  BY <1>1 DEF Pending
<1>4. ~Queued("confirm", t)'
  BY <1>2
<1>w. s'.current[t] = Sync!None \/ s'.current[t].version = a.version => Versions(t)'
  BY <1>v DEF Versions, On, Active, Making
<1>5. SUFFICES /\ s' \in Coordinators /\ BasesInv' /\ Readiness' /\ TargetInv(t)'
               /\ s'.phase = "ready" => \A u \in Targets : u # t => Still(u)
  <2>1. ASSUME NEW u \in Targets, u # t PROVE TargetInv(u)'
    <3>1. SameWire(u) /\ SamePump(u) /\ SameTasks(u) /\ TargetInv(u) /\ version' \in [Sync!Buses -> Nat]
      BY <2>1, <1>0 DEF SameWire, SyncInv, SyncTypes
    <3>2. s'.phase = "ready" => s.phase = "ready" /\ Still(u)
      BY <2>1, <1>5
    <3> QED  BY <3>1, <3>2, <1>0, TargetKept DEF SyncTypes
  <2> QED  BY <2>1, <1>5
<1>6. CASE s' = r
  <2>1. Stage(t)' /\ Pending(t)'
    <3>1. Stage(t)'
      BY <1>6 DEF Stage
    <3>2. Pending(t)'
      BY <1>2, <1>3, <1>6 DEF Pending
    <3> QED  BY <3>1, <3>2
  <2>2. t \in s'.requested
    BY <1>0, <1>6 DEF TargetInv, Current, Working
  <2>3. Fresh(t)' /\ Timers(t)'
    BY <1>1, <1>4, <1>6 DEF Fresh, Timers, On, Active, Making
  <2>4. \A u \in Targets : u # t => Still(u)
    BY <1>6 DEF Still
  <2>5. Versions(t)'
    BY <1>6, <1>w
  <2> QED  BY <1>0, <1>1, <1>6, <2>1, <2>2, <2>3, <2>4, <2>5 DEF TargetInv, BasesInv, Readiness
<1>7. CASE s' = Sync!RetryOrClose(r, t)
  <2>1. /\ s' \in Coordinators /\ s'.base = r.base
        /\ \/ s'.phase = "closed" /\ s'.requested = Targets /\ s'.ready = {}
           \/ /\ s'.phase = r.phase /\ s'.epoch = r.epoch /\ s'.handle = r.handle
              /\ s'.timers = r.timers /\ s'.requested = r.requested /\ s'.ready = r.ready
              /\ s'.work = [r.work EXCEPT ![t] = "resend"]
              /\ s'.current = [r.current EXCEPT ![t] = [a EXCEPT !.armed = FALSE, !.confirmed = FALSE]]
    <3>1. r.current[t] # Sync!None /\ r.phase = "ready"
      BY <1>1
    <3>2. LET c == Sync!RetryOrClose(r, t) IN
         /\ c \in Coordinators /\ c.base = r.base
         /\ \/ c.phase = "closed" /\ c.requested = Targets /\ c.ready = {}
            \/ /\ c.phase = r.phase /\ c.epoch = r.epoch /\ c.handle = r.handle
               /\ c.timers = r.timers /\ c.requested = r.requested /\ c.ready = r.ready
               /\ c.work = [r.work EXCEPT ![t] = "resend"]
               /\ c.current = [r.current EXCEPT ![t] =
                     [r.current[t] EXCEPT !.armed = FALSE, !.confirmed = FALSE]]
      BY <3>1, RetryFacts, Zenon
    <3> QED  BY <3>2, <1>7, Zenon
  <2>2. BasesInv'
    BY <1>0, <2>1 DEF BasesInv
  <2>3. CASE s'.phase = "closed"
    BY <2>1, <2>2, <2>3 DEF TargetInv, Readiness
  <2>4. CASE s'.phase = "ready"
    <3> DEFINE d == [a EXCEPT !.armed = FALSE, !.confirmed = FALSE]
    <3>1. d \in Attempts /\ ~d.armed /\ ~d.confirmed /\ ~d.inFlight /\ d.seq = a.seq /\ d.base = a.base
          /\ d.version = a.version /\ d.early = a.early
      BY DEF Attempts
    <3> HIDE DEF d
    <3>2. /\ s'.phase = r.phase /\ s'.epoch = r.epoch /\ s'.handle = r.handle
          /\ s'.timers = r.timers /\ s'.requested = r.requested /\ s'.ready = r.ready
          /\ s'.work = [r.work EXCEPT ![t] = "resend"]
          /\ s'.current = [r.current EXCEPT ![t] = d]
      BY <2>1, <2>4 DEF d
    <3>3. s'.current[t] = d /\ s'.work[t] = "resend"
      BY <3>2 DEF Coordinators
    <3>4. Stage(t)'
      BY <3>1, <3>3 DEF Stage
    <3>5. Pending(t)'
      BY <3>1, <3>3, <1>2, <1>3 DEF Pending
    <3>6. Fresh(t)' /\ Timers(t)'
      BY <1>1, <1>4, <3>2 DEF Fresh, Timers, On, Active, Making
    <3>7. t \in s'.requested
      BY <1>0, <3>2 DEF TargetInv, Current, Working
    <3>8. s'.current[t] # Sync!None /\ Versions(t)'
      BY <3>1, <3>3, <1>w, NotNone
    <3>9. TargetInv(t)'
      BY <3>4, <3>5, <3>6, <3>7, <3>8 DEF TargetInv
    <3>10. \A u \in Targets : u # t => Still(u)
      <4>1. \A u \in Targets : u # t => s'.current[u] = s.current[u] /\ s'.work[u] = s.work[u]
        BY <3>2 DEF Coordinators
      <4> QED  BY <4>1, <3>2, <2>1 DEF Still
    <3> QED  BY <1>0, <2>1, <2>2, <3>2, <3>9, <3>10 DEF Readiness
  <2> QED  BY <2>1, <2>3, <2>4
<1>8. CASE s' = Sync!AdvanceBase(r, t) /\ Sync!IsCurrent(t, a) /\ dev[t].seq = a.seq
  <2>1. /\ s' \in Coordinators /\ s'.phase = r.phase /\ s'.epoch = r.epoch /\ s'.work = r.work
        /\ s'.requested = r.requested \ {t} /\ s'.ready = r.ready \cup {t}
        /\ s'.base = [r.base EXCEPT ![t] = [seq |-> a.seq, version |-> a.version]]
        /\ s'.current = [r.current EXCEPT ![t] = Sync!None]
        /\ s'.handle = [r.handle EXCEPT ![t] = a.seq]
        /\ s'.timers = (r.timers \ {<<t, r.handle[t]>>}) \cup {<<t, a.seq>>}
    BY <1>1, <1>8, AdvanceFacts
  <2>2. /\ s'.base[t] = [seq |-> a.seq, version |-> a.version] /\ s'.current[t] = Sync!None
        /\ s'.handle[t] = a.seq /\ s'.work[t] = "none"
        /\ \A u \in Targets : u # t => /\ s'.base[u] = s.base[u] /\ s'.current[u] = s.current[u]
                                       /\ s'.handle[u] = s.handle[u] /\ s'.work[u] = s.work[u]
    BY <2>1 DEF Coordinators
  <2>3. dev[t] = [seq |-> a.seq, version |-> a.version]
    BY <1>0, <1>3, <1>8 DEF SyncTypes, Frames
  <2>4. BasesInv'
    <3> SUFFICES ASSUME NEW u \in Targets
                 PROVE  s'.base[u].seq <= dev[u].seq /\ (s'.base[u].seq = dev[u].seq => s'.base[u] = dev[u])
      BY DEF BasesInv
    <3>1. CASE u = t
      BY <3>1, <2>2, <2>3, <1>0 DEF SyncTypes, Frames
    <3>2. CASE u # t
      BY <3>2, <2>2, <1>0 DEF BasesInv
    <3> QED  BY <3>1, <3>2
  <2>5. Current(t)'
    <3>1. a.version = version[t]
      BY <1>8 DEF Sync!IsCurrent
    <3>2. ~Working(t)' /\ ~Queued("notify", t)'
      BY <1>v, <2>2, <3>1 DEF Working
    <3> QED  BY <1>3, <1>8, <2>2, <3>1, <3>2 DEF Current
  <2>6. Fresh(t)' /\ Timers(t)'
    <3>1. \A n \in Nat : <<t, n>> \in s'.timers => n = a.seq
      BY <1>1, <2>1
    <3>2. ~Working(t)'
      BY <2>2 DEF Working
    <3> QED  BY <1>4, <2>2, <3>1, <3>2 DEF Fresh, Timers, On, Active, Making
  <2>7. TargetInv(t)'
    <3>1. Versions(t)'
      BY <1>w, <2>2
    <3> QED  BY <2>2, <2>5, <2>6, <3>1 DEF TargetInv, On, Active, Sending
  <2>8. \A u \in Targets : u # t => Still(u)
    BY <2>1, <2>2 DEF Still
  <2>9. Readiness'
    BY <1>0, <2>1 DEF Readiness
  <2> QED  BY <2>1, <2>4, <2>7, <2>8, <2>9
<1>9. CASE s' = Sync!InvalidateCurrent(r, t)
  <2>1. /\ s' \in Coordinators /\ s'.base = r.base /\ s'.phase = r.phase /\ s'.handle = r.handle
        /\ s'.timers = r.timers /\ s'.requested = r.requested \cup {t} /\ s'.ready = r.ready \ {t}
        /\ s'.epoch = [r.epoch EXCEPT ![t] = r.epoch[t] + 1]
        /\ s'.work = [r.work EXCEPT ![t] = "create"]
        /\ s'.current = [r.current EXCEPT ![t] = Sync!None]
    BY <1>9, InvalidateFacts
  <2>2. /\ s'.current[t] = Sync!None /\ s'.work[t] = "create"
        /\ \A u \in Targets : u # t => /\ s'.current[u] = s.current[u] /\ s'.work[u] = s.work[u]
                                       /\ s'.epoch[u] = s.epoch[u]
    BY <2>1 DEF Coordinators
  <2>3. Fresh(t)' /\ Timers(t)'
    BY <1>1, <1>4, <2>1 DEF Fresh, Timers, On, Active, Making
  <2>4. TargetInv(t)'
    <3>1. Versions(t)'
      BY <1>w, <2>2
    <3> QED  BY <2>1, <2>2, <2>3, <3>1 DEF TargetInv, On, Active, Sending
  <2>5. \A u \in Targets : u # t => Still(u)
    BY <2>1, <2>2 DEF Still
  <2>6. Readiness' /\ BasesInv'
    BY <1>0, <2>1 DEF Readiness, BasesInv
  <2> QED  BY <2>1, <2>4, <2>5, <2>6
<1> QED  BY <1>6, <1>7, <1>8, <1>9

------------------------------------------------------------------------------
(* Tasks from outside the pump *)

LEMMA AckStep == SyncInv /\ Sync!RunAck => SyncInv'
<1> SUFFICES ASSUME SyncInv, Sync!RunAck PROVE SyncInv'
  OBVIOUS
<1>1. queue # <<>> /\ Head(queue).kind \in {"applied", "error", "foreign"} /\ UNCHANGED Sync!Env
  BY DEF Sync!RunAck, Sync!Runs
<1>2. /\ SyncTypes /\ QueueShape /\ NumbersInv /\ Readiness /\ s \in Coordinators
      /\ \A u \in Targets : TargetInv(u)
  BY DEF SyncInv, SyncTypes
<1>3. Head(queue) = queue[1] /\ queue[1] \in Tasks /\ 1 \in DOMAIN queue
  BY <1>1, <1>2, TailFacts DEF SyncTypes
<1>p. PICK t \in Targets, m \in Nat, status \in {"applied", "error", "foreign"} :
        t = queue[1].target /\ m = queue[1].n /\ status = queue[1].kind
  BY <1>1, <1>2, <1>3 DEF SyncTypes, Tasks, PumpTasks
<1> DEFINE r == Sync!ProcessAck(s, t, m, status)
           a == s.current[t]
<1>4. Sync!Finish(r)
  BY <1>1, <1>3, <1>p DEF Sync!RunAck
<1>5. status = queue[1].kind /\ status \in Outside /\ queue[1].kind \in Outside
  BY <1>p DEF Outside, Answers
<1> HIDE DEF r
<1>6. \/ r = s
      \/ r = Sync!CloseConnection(s, "protocol_violation")
      \/ /\ s.phase = "ready" /\ a # Sync!None /\ m = a.seq /\ status # "foreign"
         /\ \/ a.inFlight /\ r = [s EXCEPT !.current[t].early = status]
            \/ /\ ~a.inFlight /\ a.confirmed
               /\ \/ status = "error" /\ r = Sync!RetryOrClose(s, t)
                  \/ status = "applied" /\ Sync!IsCurrent(t, a) /\ r = Sync!AdvanceBase(s, t)
                  \/ status = "applied" /\ ~Sync!IsCurrent(t, a) /\ r = Sync!InvalidateCurrent(s, t)
  BY <1>2, <1>5, AckCases DEF r
<1>7. CASE r = s
  BY <1>1, <1>3, <1>4, <1>5, <1>7, FinishSame
<1>8. CASE r = Sync!CloseConnection(s, "protocol_violation")
  <2>1. "protocol_violation" \in Reasons
    BY DEF Reasons
  <2> QED  BY <1>1, <1>3, <1>4, <1>5, <1>8, <2>1, FinishClosed
<1>9. ASSUME s.phase = "ready", a # Sync!None, m = a.seq, status # "foreign"
      PROVE  /\ status = "applied" => dev[t].seq = a.seq
             /\ a \in Attempts /\ Stage(t) /\ Pending(t)
  <2>1. a \in Attempts /\ Stage(t) /\ Pending(t)
    BY <1>2, <1>5, <1>9, SomeAttempt DEF TargetInv
  <2>2. status = "applied" => a.seq <= dev[t].seq
    BY <1>2, <1>3, <1>9, <1>p DEF NumbersInv, Acknowledged
  <2>3. dev[t].seq <= a.seq /\ dev[t].seq \in Nat /\ a.seq \in Nat
    BY <1>2, <1>5, <2>1 DEF Pending, SyncTypes, Frames, Attempts
  <2> QED  BY <2>1, <2>2, <2>3
<1>10. CASE /\ s.phase = "ready" /\ a # Sync!None /\ m = a.seq /\ status # "foreign"
            /\ a.inFlight /\ r = [s EXCEPT !.current[t].early = status]
  <2> DEFINE d == [a EXCEPT !.early = status]
  <2>1. /\ d \in Attempts /\ d.seq = a.seq /\ d.version = a.version /\ d.base = a.base
        /\ d.confirmed = a.confirmed /\ d.inFlight = a.inFlight /\ d.armed = a.armed
        /\ d.early = status
    BY <1>5, <1>9, <1>10 DEF Attempts
  <2>2. r = [s EXCEPT !.current = [s.current EXCEPT ![t] = d]]
    BY <1>2, <1>5, <1>10 DEF Coordinators
  <2> HIDE DEF d
  <2>3. /\ r \in Coordinators /\ r.phase = s.phase /\ r.epoch = s.epoch /\ r.base = s.base
        /\ r.handle = s.handle /\ r.timers = s.timers /\ r.requested = s.requested
        /\ r.ready = s.ready /\ r.work = s.work
        /\ r.current = [s.current EXCEPT ![t] = d]
    BY <1>2, <2>1, <2>2 DEF Coordinators
  <2>4. r.current[t] = d /\ \A u \in Targets : u # t => r.current[u] = s.current[u]
    BY <1>2, <1>5, <2>3 DEF Coordinators
  <2>5. /\ s' = r /\ SyncTypes' /\ QueueShape' /\ NumbersInv' /\ version' \in [Sync!Buses -> Nat]
        /\ \A u \in Targets : /\ SamePump(u) /\ SameWire(u) /\ SameTasks(u)
                              /\ ~Queued("confirm", u)' /\ (Queued("notify", u)' => Queued("notify", u))
        /\ pump' = pump \/ (pump.pc = "idle" /\ pump'.pc = "pick")
    BY <1>1, <1>3, <1>4, <1>5, <2>3, FinishKeeps
  <2>6. \A u \in Targets : u # t => TargetInv(u)'
    <3> SUFFICES ASSUME NEW u \in Targets, u # t PROVE TargetInv(u)'
      OBVIOUS
    <3>1. s'.phase = "ready" => s.phase = "ready" /\ Still(u)
      BY <1>1, <2>3, <2>4, <2>5 DEF Still
    <3>2. dev'[u] = dev[u] /\ reserved' \in Nat /\ reserved <= reserved'
      BY <1>1, <1>2 DEF SyncTypes
    <3> QED  BY <1>2, <2>5, <3>1, <3>2, TargetKept
  <2>7. TargetInv(t)'
    <3>1. Stage(t) /\ a.inFlight
      BY <1>9, <1>10
    <3>2. /\ ~a.confirmed /\ ~a.armed /\ s.work[t] = "none"
          /\ On(t, {"transmit", "sending", "sent"}) /\ Same(t)
      BY <3>1 DEF Stage
    <3>3. pump' = pump
      BY <2>5, <3>2 DEF On
    <3>4. Stage(t)'
      BY <2>1, <2>3, <2>4, <2>5, <3>1, <3>2, <3>3 DEF Stage, On, Same
    <3>5. Pending(t)'
      <4>1. Pending(t)
        BY <1>9, <1>10
      <4>2. \A i \in DOMAIN queue' : queue'[i].kind = "timeout" /\ queue'[i].target = t
               /\ queue'[i].n = a.seq => a.confirmed
        BY <1>5, <2>5, <4>1 DEF SameTasks, Pending
      <4>3. status = "applied" => dev[t].seq = a.seq
        BY <1>9, <1>10
      <4> QED  BY <1>1, <2>1, <2>4, <2>5, <4>1, <4>2, <4>3 DEF Pending
    <3>6. t \in s'.requested
      BY <1>2, <1>5, <1>10, <2>3, <2>5 DEF TargetInv, Current, Working
    <3>7. Fresh(t)' /\ Timers(t)'
      <4>1. \A k \in Nat : <<t, k>> \notin s.timers
        BY <1>2, <1>5, <1>10 DEF TargetInv, Timers, Working
      <4> QED  BY <1>5, <2>3, <2>5, <3>2, <3>3, <4>1 DEF Fresh, Timers, On, Active, Making
    <3>8. s'.current[t] # Sync!None
      BY <2>1, <2>4, <2>5, NotNone
    <3>9. Versions(t)'
      <4>1. On(t, Making \ {"create"})' => pump' = pump
        BY <3>3
      <4> QED  BY <1>1, <1>2, <1>10, <2>1, <2>4, <2>5, <4>1, VersionsKept DEF TargetInv
    <3> QED  BY <3>4, <3>5, <3>6, <3>7, <3>8, <3>9 DEF TargetInv
  <2>8. Readiness'
    BY <1>2, <2>3, <2>5 DEF Readiness
  <2> QED  BY <2>5, <2>6, <2>7, <2>8 DEF SyncInv
<1>11. CASE /\ s.phase = "ready" /\ a # Sync!None /\ m = a.seq /\ status # "foreign"
            /\ ~a.inFlight /\ a.confirmed
            /\ \/ r = Sync!RetryOrClose(s, t)
               \/ status = "applied" /\ Sync!IsCurrent(t, a) /\ r = Sync!AdvanceBase(s, t)
               \/ r = Sync!InvalidateCurrent(s, t)
  <2>1. r \in Coordinators
    <3>1. CASE r = Sync!RetryOrClose(s, t)
      BY <1>2, <1>5, <1>11, <3>1, RetryFacts
    <3>2. CASE r = Sync!AdvanceBase(s, t)
      BY <1>2, <1>5, <1>11, <3>2, AdvanceFacts
    <3>3. CASE r = Sync!InvalidateCurrent(s, t)
      BY <1>2, <1>5, <3>3, InvalidateFacts
    <3> QED  BY <1>11, <3>1, <3>2, <3>3
  <2>2. /\ s' = r /\ SyncTypes' /\ QueueShape' /\ Acknowledged(queue)' /\ PumpNumbers'
        /\ BasesInv' => NumbersInv'
        /\ \A u \in Targets : SamePump(u) /\ SameTasks(u) /\ (Queued("notify", u)' => Queued("notify", u))
        /\ \A i \in DOMAIN queue' : queue'[i].kind \notin Alone
    BY <1>1, <1>3, <1>4, <1>5, <2>1, FinishKeeps
  <2>3. Stage(t) /\ Pending(t) /\ a \in Attempts /\ (status = "applied" => dev[t].seq = a.seq)
    BY <1>9, <1>11
  <2>4. s.work[t] = "none" /\ ~On(t, Active)
    BY <1>11, <2>3 DEF Stage
  <2>5. ~On(t, Active)'
    BY <1>5, <2>2, <2>4 DEF SamePump, On, Active, Making, Sending
  <2>8. a.early = "applied" => dev[t].seq = a.seq
    BY <2>3 DEF Pending
  <2>9. UNCHANGED <<version, reserved, wire, dev>>
    BY <1>1
  <2>10. s' \in Coordinators /\ BasesInv' /\ Readiness' /\ \A u \in Targets : TargetInv(u)'
    BY <1>2, <1>5, <1>11, <2>2, <2>3, <2>4, <2>5, <2>8, <2>9, Answered
  <2> QED  BY <2>2, <2>10 DEF SyncInv
<1> QED  BY <1>6, <1>7, <1>8, <1>10, <1>11

LEMMA Others ==
  ASSUME SyncInv, version' \in [Sync!Buses -> Nat], NEW u \in Targets,
         s'.phase = "ready" => s.phase = "ready" /\ Still(u),
         UNCHANGED <<dev, reserved, wire>>, SamePump(u), SameTasks(u)
  PROVE  TargetInv(u)'
<1>1. SyncTypes /\ TargetInv(u) /\ SameWire(u) /\ dev'[u] = dev[u] /\ reserved' \in Nat /\ reserved <= reserved'
  BY DEF SyncInv, SyncTypes, SameWire
<1> QED  BY <1>1, TargetKept

LEMMA ClosingStep ==
  SyncInv /\ (Sync!RunMalformed \/ Sync!RunAbort \/ Sync!RunDispose) => SyncInv'
<1> SUFFICES ASSUME SyncInv, Sync!RunMalformed \/ Sync!RunAbort \/ Sync!RunDispose PROVE SyncInv'
  OBVIOUS
<1>1. PICK why \in Reasons : Sync!Finish(Sync!CloseConnection(s, why))
  BY DEF Sync!RunMalformed, Sync!RunAbort, Sync!RunDispose, Reasons
<1>2. queue # <<>> /\ Head(queue).kind \in Notices \cup Outside /\ UNCHANGED Sync!Env
  BY DEF Sync!RunMalformed, Sync!RunAbort, Sync!RunDispose, Sync!Runs, Notices, Outside, Answers, Alone
<1> QED  BY <1>1, <1>2, FinishClosed

LEMMA TimeoutStep == SyncInv /\ Sync!RunTimeout => SyncInv'
<1> SUFFICES ASSUME SyncInv, Sync!RunTimeout PROVE SyncInv'
  OBVIOUS
<1>1. queue # <<>> /\ Head(queue).kind = "timeout" /\ UNCHANGED Sync!Env
  BY DEF Sync!RunTimeout, Sync!Runs
<1>2. /\ SyncTypes /\ QueueShape /\ NumbersInv /\ Readiness /\ s \in Coordinators
      /\ \A u \in Targets : TargetInv(u)
  BY DEF SyncInv, SyncTypes
<1>3. Head(queue) = queue[1] /\ queue[1] \in Tasks /\ 1 \in DOMAIN queue
  BY <1>1, <1>2, TailFacts DEF SyncTypes
<1>p. PICK t \in Targets, m \in Nat : t = queue[1].target /\ m = queue[1].n
  BY <1>1, <1>2, <1>3 DEF SyncTypes, Tasks, PumpTasks
<1> DEFINE r == IF Sync!IsPending(s, t, m) THEN Sync!RetryOrClose(s, t) ELSE s
           a == s.current[t]
<1>4. Sync!Finish(r)
  BY <1>1, <1>3, <1>p DEF Sync!RunTimeout
<1>5. queue[1].kind = "timeout" /\ queue[1].kind \in Outside
  BY <1>1, <1>3 DEF Outside, Alone
<1>6. CASE ~Sync!IsPending(s, t, m)
  BY <1>1, <1>3, <1>4, <1>5, <1>6, FinishSame
<1>7. CASE Sync!IsPending(s, t, m)
  <2>1. s.phase = "ready" /\ a # Sync!None /\ a.seq = m
    BY <1>7 DEF Sync!IsPending
  <2>2. a \in Attempts /\ Stage(t) /\ Pending(t)
    BY <1>2, <2>1, SomeAttempt DEF TargetInv
  <2>3. a.confirmed
    BY <1>3, <1>p, <1>5, <2>1, <2>2 DEF Pending
  <2>4. ~a.inFlight /\ s.work[t] = "none" /\ ~On(t, Active)
    BY <2>2, <2>3 DEF Stage
  <2>5. r = Sync!RetryOrClose(s, t) /\ r \in Coordinators
    BY <1>2, <1>7, <2>1, RetryFacts
  <2> HIDE DEF r
  <2>6. /\ s' = r /\ SyncTypes' /\ QueueShape' /\ Acknowledged(queue)' /\ PumpNumbers'
        /\ BasesInv' => NumbersInv'
        /\ \A u \in Targets : SamePump(u) /\ SameTasks(u) /\ (Queued("notify", u)' => Queued("notify", u))
        /\ \A i \in DOMAIN queue' : queue'[i].kind \notin Alone
    BY <1>1, <1>3, <1>4, <1>5, <2>5, FinishKeeps
  <2>7. ~On(t, Active)'
    BY <2>6, <2>4 DEF SamePump, On, Active, Making, Sending
  <2>10. a.early = "applied" => dev[t].seq = a.seq
    BY <2>2 DEF Pending
  <2>11. UNCHANGED <<version, reserved, wire, dev>>
    BY <1>1
  <2>12. s' \in Coordinators /\ BasesInv' /\ Readiness' /\ \A u \in Targets : TargetInv(u)'
    BY <1>2, <2>1, <2>2, <2>3, <2>4, <2>5, <2>6, <2>7, <2>10, <2>11, Answered
  <2> QED  BY <2>6, <2>12 DEF SyncInv
<1> QED  BY <1>6, <1>7

LEMMA NotifyStep == SyncInv /\ Sync!RunNotify => SyncInv'
<1> SUFFICES ASSUME SyncInv, Sync!RunNotify PROVE SyncInv'
  OBVIOUS
<1>1. /\ queue # <<>> /\ Head(queue).kind = "notify" /\ UNCHANGED Sync!Env
      /\ pump.pc \notin {"create", "resend", "enter"}
  BY DEF Sync!RunNotify, Sync!Runs
<1>2. /\ SyncTypes /\ QueueShape /\ NumbersInv /\ Readiness /\ s \in Coordinators
      /\ \A u \in Targets : TargetInv(u)
  BY DEF SyncInv, SyncTypes
<1>3. Head(queue) = queue[1] /\ queue[1] \in Tasks /\ 1 \in DOMAIN queue
  BY <1>1, <1>2, TailFacts DEF SyncTypes
<1>p. PICK t \in Targets : t = queue[1].target
  BY <1>1, <1>2, <1>3 DEF SyncTypes, Tasks, PumpTasks
<1> DEFINE c == Sync!CancelConfirmation(s, t)
           r == [c EXCEPT !.epoch[t] = @ + 1, !.current[t] = Sync!None, !.work[t] = "create"]
<1>4. Sync!Finish(IF s.phase = "closed" THEN s ELSE r)
  BY <1>1, <1>3, <1>p DEF Sync!RunNotify
<1>5. /\ queue[1].kind = "notify" /\ queue[1].kind \in Notices /\ queue[1].kind \notin {"abort", "dispose"}
      /\ Head(queue).kind \in Notices \cup Outside
  BY <1>1, <1>3 DEF Notices
<1>6. CASE s.phase = "closed"
  <2>1. /\ s' = s /\ SyncTypes' /\ QueueShape' /\ NumbersInv'
    BY <1>1, <1>2, <1>3, <1>4, <1>5, <1>6, FinishKeeps
  <2> QED  BY <1>2, <1>6, <2>1 DEF SyncInv, TargetInv, Readiness
<1>7. CASE s.phase # "closed"
  <2>0. s.phase = "ready"
    BY <1>2, <1>7 DEF Coordinators
  <2>1. /\ c \in Coordinators
        /\ c.phase = s.phase /\ c.epoch = s.epoch /\ c.base = s.base /\ c.current = s.current
        /\ c.requested = s.requested /\ c.ready = s.ready /\ c.work = s.work
        /\ c.timers = s.timers \ {<<t, s.handle[t]>>}
        /\ c.handle = [s.handle EXCEPT ![t] = 0]
    BY <1>2, CancelFacts
  <2> HIDE DEF c
  <2>2. r = [c EXCEPT !.epoch = [c.epoch EXCEPT ![t] = c.epoch[t] + 1],
                      !.current = [c.current EXCEPT ![t] = Sync!None],
                      !.work = [c.work EXCEPT ![t] = "create"]]
    BY <2>1 DEF Coordinators
  <2>3. /\ [c.epoch EXCEPT ![t] = c.epoch[t] + 1] \in [Targets -> Nat]
        /\ [c.current EXCEPT ![t] = Sync!None] \in [Targets -> Attempts \cup {Sync!None}]
        /\ [c.work EXCEPT ![t] = "create"] \in [Targets -> {"none", "create", "resend"}]
    BY <2>1 DEF Coordinators
  <2>4. Sync!Finish(r)
    BY <1>4, <1>7
  <2> HIDE DEF r
  <2>5. /\ r \in Coordinators /\ r.phase = "ready" /\ r.base = s.base /\ r.requested = s.requested
        /\ r.ready = s.ready /\ r.timers = s.timers \ {<<t, s.handle[t]>>}
        /\ r.handle = [s.handle EXCEPT ![t] = 0]
        /\ r.epoch = [s.epoch EXCEPT ![t] = s.epoch[t] + 1]
        /\ r.current = [s.current EXCEPT ![t] = Sync!None]
        /\ r.work = [s.work EXCEPT ![t] = "create"]
    BY <2>0, <2>1, <2>2, <2>3 DEF Coordinators
  <2>6. /\ r.current[t] = Sync!None /\ r.work[t] = "create" /\ r.epoch[t] = s.epoch[t] + 1
        /\ \A u \in Targets : u # t => /\ r.current[u] = s.current[u] /\ r.work[u] = s.work[u]
                                       /\ r.epoch[u] = s.epoch[u] /\ r.handle[u] = s.handle[u]
    BY <1>2, <2>5 DEF Coordinators
  <2>7. /\ s' = r /\ SyncTypes' /\ QueueShape' /\ NumbersInv' /\ version' \in [Sync!Buses -> Nat]
        /\ \A u \in Targets : /\ SamePump(u) /\ SameWire(u) /\ SameTasks(u)
                              /\ ~Queued("confirm", u)' /\ (Queued("notify", u)' => Queued("notify", u))
        /\ pump' = pump \/ (pump.pc = "idle" /\ pump'.pc = "pick")
    BY <1>1, <1>3, <1>p, <2>4, <1>5, <2>5, FinishKeeps
  <2>8. \A u \in Targets : u # t => TargetInv(u)'
    <3> SUFFICES ASSUME NEW u \in Targets, u # t PROVE TargetInv(u)'
      OBVIOUS
    <3>1. Still(u)
      BY <1>1, <2>5, <2>6, <2>7 DEF Still
    <3> QED  BY <1>1, <2>0, <2>7, <3>1, Others
  <2>9. TargetInv(t)'
    <3>1. t \in s.requested /\ TargetInv(t)
      BY <1>2, <1>3, <1>5, <1>p, <2>0 DEF TargetInv, Current, Queued
    <3>2. \A k \in Nat : <<t, k>> \notin r.timers
      BY <2>0, <2>5, <3>1 DEF TargetInv, Timers
    <3>3. ~Queued("confirm", t)'
      BY <2>7
    <3>4. ~On(t, {"resend", "enter"})' /\ ~On(t, {"create"})'
      BY <1>1, <2>7 DEF On
    <3>5. On(t, Making \ {"create"})' => pump' = pump /\ On(t, Making \ {"create"})
      BY <2>7 DEF On, Making
    <3>6. Fresh(t)'
      <4>1. On(t, Making \ {"create"}) => pump.epoch <= s.epoch[t]
        BY <2>0, <3>1 DEF TargetInv, Fresh
      <4>2. pump.epoch \in Nat /\ s.epoch[t] \in Nat
        BY <1>2 DEF SyncTypes, Pumps, Coordinators
      <4> QED  BY <2>6, <2>7, <3>4, <3>5, <4>1, <4>2 DEF Fresh
    <3>7. Timers(t)'
      BY <2>7, <3>2, <3>3 DEF Timers
    <3>8. Versions(t)'
      BY <1>1, <2>0, <2>6, <2>7, <3>1, <3>5, VersionsKept DEF TargetInv
    <3> QED  BY <2>5, <2>6, <2>7, <3>1, <3>4, <3>6, <3>7, <3>8 DEF TargetInv
  <2>10. Readiness'
    BY <1>2, <2>5, <2>7 DEF Readiness
  <2> QED  BY <2>7, <2>8, <2>9, <2>10 DEF SyncInv
<1> QED  BY <1>6, <1>7

LEMMA ConfirmStep == SyncInv /\ Sync!RunConfirm => SyncInv'
<1> SUFFICES ASSUME SyncInv, Sync!RunConfirm PROVE SyncInv'
  OBVIOUS
<1>1. queue # <<>> /\ Head(queue).kind = "confirm" /\ UNCHANGED Sync!Env
  BY DEF Sync!RunConfirm, Sync!Runs
<1>2. /\ SyncTypes /\ QueueShape /\ NumbersInv /\ Readiness /\ s \in Coordinators
      /\ \A u \in Targets : TargetInv(u)
  BY DEF SyncInv, SyncTypes
<1>3. Head(queue) = queue[1] /\ queue[1] \in Tasks /\ 1 \in DOMAIN queue
  BY <1>1, <1>2, TailFacts DEF SyncTypes
<1>p. PICK t \in Targets : t = queue[1].target
  BY <1>1, <1>2, <1>3 DEF SyncTypes, Tasks, PumpTasks
<1> DEFINE c == [s EXCEPT !.handle = [s.handle EXCEPT ![t] = 0]]
           d == [c EXCEPT !.requested = c.requested \cup {t}, !.ready = c.ready \ {t},
                          !.work = [c.work EXCEPT ![t] = "create"]]
<1>4. PICK r \in {c, d} : Sync!Finish(r) /\ (s.phase # "ready" \/ s.current[t] # Sync!None => r = c)
  <2>1. /\ c = [s EXCEPT !.handle[t] = 0]
        /\ d = [c EXCEPT !.requested = @ \cup {t}, !.ready = @ \ {t}, !.work[t] = "create"]
    BY <1>2 DEF Coordinators
  <2> HIDE DEF c, d
  <2>2. Sync!Finish(IF s.phase # "ready" \/ s.base[t].seq # Head(queue).n \/ s.current[t] # Sync!None
                    THEN c ELSE d)
    BY <1>3, <1>p, <2>1 DEF Sync!RunConfirm
  <2> QED  BY <2>2
<1>5. queue[1].kind = "confirm" /\ queue[1].kind \in Outside
  BY <1>1, <1>3 DEF Outside, Alone
<1>6. /\ c \in Coordinators /\ c.phase = s.phase /\ c.base = s.base /\ c.requested = s.requested
      /\ c.ready = s.ready /\ c.timers = s.timers /\ c.epoch = s.epoch /\ c.current = s.current
      /\ c.work = s.work /\ \A u \in Targets : u # t => c.handle[u] = s.handle[u]
  BY <1>2 DEF Coordinators
<1> HIDE DEF c
<1>7. /\ d \in Coordinators /\ d.phase = s.phase /\ d.base = s.base
      /\ d.requested = s.requested \cup {t}
      /\ d.ready = s.ready \ {t} /\ d.timers = s.timers /\ d.epoch = s.epoch /\ d.current = s.current
      /\ \A u \in Targets : u # t => d.work[u] = s.work[u] /\ d.handle[u] = s.handle[u]
      /\ d.work[t] = "create"
  <2>1. c.requested \cup {t} \in SUBSET Targets /\ c.ready \ {t} \in SUBSET Targets
        /\ [c.work EXCEPT ![t] = "create"] \in [Targets -> {"none", "create", "resend"}]
    BY <1>6 DEF Coordinators
  <2>2. /\ d \in Coordinators /\ d.phase = s.phase /\ d.base = s.base
        /\ d.requested = s.requested \cup {t} /\ d.handle = c.handle
        /\ d.ready = s.ready \ {t} /\ d.timers = s.timers /\ d.epoch = s.epoch /\ d.current = s.current
        /\ d.work = [s.work EXCEPT ![t] = "create"]
    BY <1>6, <2>1 DEF Coordinators
  <2> QED  BY <1>2, <1>6, <2>2 DEF Coordinators
<1> HIDE DEF d
<1>8. /\ s' = r /\ SyncTypes' /\ QueueShape' /\ NumbersInv' /\ version' \in [Sync!Buses -> Nat]
      /\ \A u \in Targets : /\ SamePump(u) /\ SameWire(u) /\ SameTasks(u)
                            /\ ~Queued("confirm", u)' /\ (Queued("notify", u)' => Queued("notify", u))
  <2>1. r \in Coordinators /\ r.base = s.base
    BY <1>4, <1>6, <1>7
  <2> QED  BY <1>1, <1>3, <1>4, <1>5, <2>1, FinishKeeps
<1>9. \A u \in Targets : u # t => TargetInv(u)'
  <2> SUFFICES ASSUME NEW u \in Targets, u # t PROVE TargetInv(u)'
    OBVIOUS
  <2>1. s'.phase = "ready" => s.phase = "ready" /\ Still(u)
    BY <1>1, <1>4, <1>6, <1>7, <1>8 DEF Still
  <2> QED  BY <1>1, <1>8, <2>1, Others
<1>10. Readiness'
  BY <1>2, <1>4, <1>6, <1>7, <1>8 DEF Readiness
<1>11. ASSUME s.phase = "ready" PROVE TargetInv(t)'
  <2>1. ~Working(t) /\ \A k \in Nat : <<t, k>> \notin s.timers
    <3>1. Queued("confirm", t) /\ Timers(t)
      BY <1>2, <1>3, <1>5, <1>p, <1>11 DEF TargetInv, Queued
    <3> QED  BY <3>1 DEF Timers
  <2>2. ~On(t, Active) /\ s.current[t] = Sync!None /\ s.work[t] = "none"
    BY <2>1 DEF Working
  <2>3. ~On(t, Active)'
    BY <2>2, <1>8 DEF SamePump, On, Active, Making, Sending
  <2>4. s'.current[t] = Sync!None /\ s'.timers = s.timers
    BY <1>4, <1>6, <1>7, <1>8, <2>2
  <2>5. Fresh(t)' /\ Timers(t)'
    BY <1>8, <2>1, <2>3, <2>4 DEF Fresh, Timers, On, Active, Making
  <2>6. ~On(t, {"resend", "enter"})' /\ Versions(t)'
    BY <2>3, <2>4 DEF On, Active, Making, Sending, Versions
  <2>7. CASE r = d
    BY <1>7, <1>8, <2>4, <2>5, <2>6, <2>7 DEF TargetInv
  <2>8. CASE r = c
    <3>1. s'.work[t] = "none" /\ s'.base = s.base /\ s'.requested = s.requested
      BY <1>6, <1>8, <2>2, <2>8
    <3>2. t \notin s.requested => Current(t)'
      <4>1. ~Working(t)' /\ (Queued("notify", t)' => Queued("notify", t))
        BY <1>8, <2>3, <2>4, <3>1 DEF Working
      <4> QED  BY <1>1, <1>2, <1>11, <3>1, <4>1 DEF TargetInv, Current
    <3> QED  BY <2>4, <2>5, <2>6, <3>1, <3>2 DEF TargetInv
  <2> QED  BY <1>4, <2>7, <2>8
<1>12. ASSUME s.phase # "ready" PROVE TargetInv(t)'
  BY <1>12, <1>4, <1>6, <1>7, <1>8 DEF TargetInv
<1> QED  BY <1>8, <1>9, <1>10, <1>11, <1>12 DEF SyncInv

------------------------------------------------------------------------------
(* The pump *)

(* What a step of the pump does to the queue: nothing the targets notice. *)
QueueKept ==
  /\ queue' \in Seq(Tasks) /\ Acknowledged(queue)'
  /\ \A i \in DOMAIN queue' : queue'[i].kind \notin PumpTasks \cup {"abort", "dispose"} =>
       queue'[i].target \in Targets
  /\ \A u \in Targets : SameTasks(u)

LEMMA QueueSame ==
  ASSUME SyncInv, UNCHANGED <<queue, dev>>
  PROVE  QueueKept
  BY DEF SyncInv, SyncTypes, NumbersInv, QueueKept, Acknowledged, SameTasks, Queued

(* The pump puts its task at the end of the queue; *)
LEMMA QueueGains ==
  ASSUME SyncInv, \A i \in DOMAIN queue : queue[i].kind \in Notices, UNCHANGED dev,
         NEW e \in Tasks, e.kind \in PumpTasks, queue' = Append(queue, e),
         \/ e.kind = "pick" /\ pump'.pc = "pick"
         \/ e.kind \in Own(pump'.pc) /\ pump'.pc \in Awaits
  PROVE  /\ QueueKept /\ QueueShape'
         /\ \A u \in Targets : Queued("notify", u)' => Queued("notify", u)
<1>1. queue \in Seq(Tasks) /\ SyncTypes
  BY DEF SyncInv, SyncTypes
<1>2. /\ queue' \in Seq(Tasks) /\ DOMAIN queue' = 1 .. Len(queue) + 1 /\ Len(queue) \in Nat
      /\ \A i \in DOMAIN queue' : \/ i \in DOMAIN queue /\ queue'[i] = queue[i]
                                  \/ i = Len(queue) + 1 /\ queue'[i] = e
  <2>1. /\ queue' \in Seq(Tasks) /\ Len(queue') = Len(queue) + 1
        /\ \A i \in DOMAIN queue : i \in DOMAIN queue' /\ queue'[i] = queue[i]
        /\ \A i \in DOMAIN queue' : i \in DOMAIN queue \/ (i = Len(queue) + 1 /\ queue'[i] = e)
    BY <1>1, AppendFacts
  <2>2. DOMAIN queue' = 1 .. Len(queue') /\ Len(queue) \in Nat
    BY <1>1, <2>1
  <2> QED  BY <2>1, <2>2
<1>3. e.kind \notin {"notify", "confirm", "timeout", "applied", "abort", "dispose"}
  BY DEF PumpTasks
<1>4. QueueShape'
  <2>1. \A i \in DOMAIN queue' : queue'[i].kind \notin Alone
    BY <1>2, KindFacts
  <2>2. \A i, j \in DOMAIN queue' :
          queue'[i].kind \in PumpTasks /\ queue'[j].kind \in PumpTasks \cup Answers => j <= i
    <3> SUFFICES ASSUME NEW i \in DOMAIN queue', NEW j \in DOMAIN queue', queue'[i].kind \in PumpTasks
                 PROVE  j <= i
      OBVIOUS
    <3>1. i = Len(queue) + 1
      BY <1>2, KindFacts
    <3> QED  BY <1>2, <3>1
  <2> QED  BY <1>2, <2>1, <2>2 DEF QueueShape
<1>5. Acknowledged(queue)'
  BY <1>2, <1>3 DEF Acknowledged, Notices
<1>6. ASSUME NEW u \in Targets PROVE SameTasks(u) /\ (Queued("notify", u)' => Queued("notify", u))
  <2>1. Queued("notify", u)' => Queued("notify", u)
    BY <1>2, <1>3 DEF Queued
  <2>2. ~Queued("confirm", u)' /\ \A i \in DOMAIN queue' : queue'[i].kind # "timeout"
    BY <1>2, <1>3 DEF Queued, Notices
  <2> QED  BY <2>1, <2>2 DEF SameTasks
<1>7. \A i \in DOMAIN queue' : queue'[i].kind \notin PumpTasks \cup {"abort", "dispose"} =>
         queue'[i].target \in Targets
  BY <1>1, <1>2 DEF SyncTypes
<1> QED  BY <1>2, <1>4, <1>5, <1>6, <1>7 DEF QueueKept

(* and when it has run, only changes are left. *)
LEMMA QueueLoses ==
  ASSUME SyncInv, queue # <<>>, Head(queue).kind \in PumpTasks, UNCHANGED dev, queue' = Tail(queue)
  PROVE  /\ QueueKept /\ QueueShape' /\ pump.pc \in Awaits \cup {"pick"}
         /\ \A i \in DOMAIN queue' : queue'[i].kind \in Notices
         /\ Head(queue).kind \in Own(pump.pc)
         /\ \A u \in Targets : ~Queued("confirm", u)' /\ (Queued("notify", u)' => Queued("notify", u))
<1>1. /\ SyncTypes /\ QueueShape /\ queue \in Seq(Tasks)
  BY DEF SyncInv, SyncTypes
<1>2. /\ Head(queue) = queue[1] /\ 1 \in DOMAIN queue /\ queue' \in Seq(Tasks)
      /\ Len(queue) > 0 /\ Len(queue') = Len(queue) - 1
      /\ \A i \in DOMAIN queue' : i + 1 \in DOMAIN queue /\ queue'[i] = queue[i + 1]
  BY <1>1, TailFacts
<1>3. pump.pc \in Awaits \cup {"pick"} /\ queue[1].kind \in Own(pump.pc)
  <2>1. \/ queue[1].kind = "pick" /\ pump.pc = "pick"
        \/ queue[1].kind \in Own(pump.pc) /\ pump.pc \in Awaits
    BY <1>1, <1>2, KindFacts DEF QueueShape
  <2> QED  BY <2>1 DEF Own
<1>4. ASSUME NEW i \in DOMAIN queue' PROVE queue'[i].kind \in Notices
  <2>1. i + 1 \in DOMAIN queue /\ ~(i + 1 <= 1) /\ i + 1 # 1 /\ queue'[i] = queue[i + 1]
    BY <1>2
  <2>2. PICK m \in DOMAIN queue : m = i + 1
    BY <2>1
  <2>3. queue[m].kind \notin PumpTasks \cup Answers /\ queue[m].kind \notin Alone
    BY <1>1, <1>2, <2>1, <2>2 DEF QueueShape
  <2>4. queue[m].kind \in Notices
    BY <1>1, <2>3, KindFacts DEF QueueShape, Outside, PumpTasks
  <2> QED  BY <2>1, <2>2, <2>4
<1>5. QueueShape'
  BY <1>4, NoticesShape
<1>6. ASSUME NEW u \in Targets
      PROVE  ~Queued("confirm", u)' /\ (Queued("notify", u)' => Queued("notify", u)) /\ SameTasks(u)
  <2>1. ~Queued("confirm", u)' /\ \A i \in DOMAIN queue' : queue'[i].kind # "timeout"
    BY <1>4 DEF Queued, Notices
  <2>2. Queued("notify", u)' => Queued("notify", u)
    BY <1>2 DEF Queued
  <2> QED  BY <2>1, <2>2 DEF SameTasks
<1>7. QueueKept
  <2>1. Acknowledged(queue)'
    BY <1>4 DEF Acknowledged, Notices
  <2>2. \A i \in DOMAIN queue' : queue'[i].kind \notin PumpTasks \cup {"abort", "dispose"} =>
           queue'[i].target \in Targets
    BY <1>1, <1>2 DEF SyncTypes
  <2> QED  BY <1>2, <1>6, <2>1, <2>2 DEF QueueKept
<1> QED  BY <1>2, <1>3, <1>4, <1>5, <1>6, <1>7

LEMMA StepKeeps ==
  ASSUME SyncInv, s' \in Coordinators, BasesInv' \/ s'.base = s.base, Readiness',
         version' \in [Sync!Buses -> Nat], UNCHANGED <<reserved, wire, back, dev>>,
         QueueKept, QueueShape', PumpNumbers', pump' \in Pumps,
         pump'.pc \in Active => pump'.target \in Targets,
         s'.phase = "ready" =>
           \A u \in Targets : TargetInv(u)' \/ (Still(u) /\ SamePump(u) /\ s.phase = "ready")
  PROVE  SyncInv'
<1>1. SyncTypes'
  BY DEF SyncInv, SyncTypes, QueueKept
<1>2. NumbersInv'
  BY NumbersKept DEF SyncInv, QueueKept
<1>3. ASSUME NEW u \in Targets PROVE TargetInv(u)'
  <2>1. CASE s'.phase # "ready"
    BY <2>1 DEF TargetInv
  <2>2. CASE s'.phase = "ready" /\ ~TargetInv(u)'
    <3>1. Still(u) /\ SamePump(u) /\ s.phase = "ready" /\ SameTasks(u)
      BY <2>2 DEF QueueKept
    <3> QED  BY <3>1, Others
  <2> QED  BY <2>1, <2>2
<1> QED  BY <1>1, <1>2, <1>3 DEF SyncInv

(* The steps that only move the pump. *)
LEMMA MoveKeeps ==
  ASSUME SyncInv, s' = s, UNCHANGED <<version, reserved, wire, back, dev>>, QueueKept, QueueShape',
         PumpNumbers', pump' \in Pumps,
         pump'.pc \in Active => pump'.target \in Targets,
         s.phase = "ready" => \A u \in Targets : SamePump(u)
  PROVE  SyncInv'
<1>1. s' \in Coordinators /\ Readiness' /\ version' \in [Sync!Buses -> Nat]
  BY DEF SyncInv, SyncTypes, Readiness
<1>2. \A u \in Targets : Still(u)
  BY DEF Still
<1>3. s'.phase = "ready" => \A u \in Targets : TargetInv(u)' \/ (Still(u) /\ SamePump(u) /\ s.phase = "ready")
  BY <1>2
<1> QED  BY <1>1, <1>3, StepKeeps

LEMMA TaskType ==
  \A kind \in Notices \cup Outside \cup PumpTasks, t \in Sync!Buses, k \in Nat :
    Sync!Task(kind, t, k) \in Tasks /\ Sync!Task(kind, t, k).kind = kind
      /\ Sync!Task(kind, t, k).target = t /\ Sync!Task(kind, t, k).n = k
  BY DEF Sync!Task, Tasks

LEMMA PickType == Sync!Pick \in Tasks /\ Sync!Pick.kind = "pick"
  BY DEF Sync!Pick, Sync!Task, Tasks, PumpTasks, Sync!Buses

LEMMA LoopStep == SyncInv /\ (Sync!PumpLoop \/ Sync!FinishPump) => SyncInv'
<1> SUFFICES ASSUME SyncInv, Sync!PumpLoop \/ Sync!FinishPump PROVE SyncInv'
  OBVIOUS
<1>1. /\ SyncTypes /\ QueueShape /\ pump \in Pumps
  BY DEF SyncInv, SyncTypes
<1>2. /\ pump.pc \in {"loop", "finish"} /\ s' = s /\ UNCHANGED Sync!Env
      /\ \/ queue' = Append(queue, Sync!Pick) /\ pump' = [pump EXCEPT !.pc = "pick"]
         \/ queue' = queue /\ pump' = [pump EXCEPT !.pc = "finish"]
         \/ queue' = queue /\ pump' = [pump EXCEPT !.pc = "idle"]
  BY DEF Sync!PumpLoop, Sync!FinishPump, Sync!At
<1>3. \A i \in DOMAIN queue : queue[i].kind \in Notices
  BY <1>1, <1>2, RunsQueue DEF Runs
<1>4. pump' \in Pumps /\ pump'.pc \in {"pick", "finish", "idle"}
  BY <1>1, <1>2 DEF Pumps, Waits, Runs
<1>5. \A u \in Targets : SamePump(u)
  BY <1>2, <1>4 DEF SamePump, On, Active, Making, Sending
<1>6. PumpNumbers' /\ pump'.pc \notin Active
  BY <1>4 DEF PumpNumbers, Active, Making, Sending
<1>7. CASE queue' = Append(queue, Sync!Pick) /\ pump' = [pump EXCEPT !.pc = "pick"]
  <2>1. pump'.pc = "pick"
    BY <1>1, <1>7 DEF Pumps
  <2>2. QueueKept /\ QueueShape'
    BY <1>2, <1>3, <1>7, <2>1, PickType, QueueGains DEF PumpTasks
  <2> QED  BY <1>2, <1>4, <1>5, <1>6, <2>2, MoveKeeps
<1>8. CASE queue' = queue /\ pump'.pc \in {"finish", "idle"}
  <2>1. QueueKept
    BY <1>2, <1>8, QueueSame
  <2>2. QueueShape'
    BY <1>3, <1>8, NoticesShape
  <2> QED  BY <1>2, <1>4, <1>5, <1>6, <2>1, <2>2, MoveKeeps
<1>9. pump'.pc = "pick" \/ (queue' = queue /\ pump'.pc \in {"finish", "idle"})
  BY <1>1, <1>2 DEF Pumps
<1>10. pump'.pc = "pick" => queue' = Append(queue, Sync!Pick) /\ pump' = [pump EXCEPT !.pc = "pick"]
  BY <1>1, <1>2 DEF Pumps
<1> QED  BY <1>7, <1>8, <1>9, <1>10

LEMMA NumberTypes ==
  ASSUME SyncTypes
  PROVE  /\ reserved \in Nat /\ pump.seq \in Nat /\ pump.base \in Nat /\ pump.version \in Nat
         /\ pump.epoch \in Nat
         /\ \A u \in Targets : dev[u].seq \in Nat
         /\ \A i \in DOMAIN wire : wire[i] \in Sent /\ wire[i].seq \in Nat /\ wire[i].base \in Nat
<1>1. reserved \in Nat /\ pump.seq \in Nat /\ pump.base \in Nat /\ pump.version \in Nat
      /\ pump.epoch \in Nat
  BY DEF SyncTypes, Pumps
<1>2. \A u \in Targets : dev[u].seq \in Nat
  BY DEF SyncTypes, Frames
<1>3. \A i \in DOMAIN wire : wire[i] \in Sent
  BY DEF SyncTypes
<1>4. \A i \in DOMAIN wire : wire[i].seq \in Nat /\ wire[i].base \in Nat
  BY <1>3 DEF Sent
<1> QED  BY <1>1, <1>2, <1>3, <1>4

LEMMA PickStep == SyncInv /\ Sync!RunPick => SyncInv'
<1> SUFFICES ASSUME SyncInv, Sync!RunPick PROVE SyncInv'
  OBVIOUS
<1> DEFINE W == {u \in Targets : s.work[u] # "none"}
<1>1. /\ SyncTypes /\ QueueShape /\ Readiness /\ s \in Coordinators /\ pump \in Pumps
      /\ \A u \in Targets : TargetInv(u)
  BY DEF SyncInv, SyncTypes
<1>2. queue # <<>> /\ Head(queue).kind = "pick" /\ UNCHANGED Sync!Env /\ queue' = Tail(queue)
  BY DEF Sync!RunPick, Sync!Runs, Sync!PumpTask
<1>3. /\ QueueKept /\ QueueShape' /\ pump.pc = "pick"
      /\ \A u \in Targets : ~Queued("confirm", u)' /\ (Queued("notify", u)' => Queued("notify", u))
  BY <1>2, QueueLoses DEF PumpTasks, Awaits, Own
<1>4. /\ W = {} => s' = s /\ pump' = [pump EXCEPT !.pc = "finish"]
      /\ W # {} => /\ s' = [s EXCEPT !.work[Sync!First(W)] = "none"]
                   /\ pump' = [pump EXCEPT !.pc = s.work[Sync!First(W)], !.target = Sync!First(W)]
  BY DEF Sync!RunPick, Sync!PumpTask
<1>5. CASE W = {}
  <2>1. s' = s /\ pump' \in Pumps /\ pump'.pc = "finish" /\ pump'.pc \notin Active
    BY <1>1, <1>4, <1>5 DEF Pumps, Runs, Active, Making, Sending
  <2>2. PumpNumbers'
    BY <2>1 DEF PumpNumbers, Sending
  <2>3. \A u \in Targets : SamePump(u)
    BY <1>3, <2>1 DEF SamePump, On, Active, Making, Sending
  <2> QED  BY <1>2, <1>3, <2>1, <2>2, <2>3, MoveKeeps
<1>6. CASE W # {}
  <2>1. PICK t \in Targets : t = Sync!First(W) /\ s.work[t] # "none"
    BY <1>6, FirstMember
  <2>2. s' = [s EXCEPT !.work = [s.work EXCEPT ![t] = "none"]]
        /\ pump' = [pump EXCEPT !.pc = s.work[t], !.target = t]
    BY <1>1, <1>4, <1>6, <2>1 DEF Coordinators
  <2>3. /\ s' \in Coordinators /\ s'.phase = s.phase /\ s'.base = s.base /\ s'.requested = s.requested
        /\ s'.ready = s.ready /\ s'.timers = s.timers /\ s'.handle = s.handle /\ s'.epoch = s.epoch
        /\ s'.current = s.current /\ s'.work = [s.work EXCEPT ![t] = "none"]
    <3>1. [s.work EXCEPT ![t] = "none"] \in [Targets -> {"none", "create", "resend"}]
      BY <1>1 DEF Coordinators
    <3> QED  BY <1>1, <2>2, <3>1 DEF Coordinators
  <2>4. s'.work[t] = "none" /\ \A u \in Targets : u # t => s'.work[u] = s.work[u]
    BY <1>1, <2>3 DEF Coordinators
  <2>5. s.work[t] \in {"create", "resend"} /\ t \in Sync!Buses
    BY <1>1, <2>1, DeviceSessionAssumption DEF Coordinators, Sync!SyncAssumption
  <2>6. pump' \in Pumps /\ pump'.pc = s.work[t] /\ pump'.target = t
    BY <1>1, <2>2, <2>5 DEF Pumps, Runs
  <2>7. PumpNumbers'
    BY <2>5, <2>6 DEF PumpNumbers, Sending
  <2>8. Readiness'
    BY <1>1, <2>3 DEF Readiness
  <2>9. ASSUME NEW u \in Targets, u # t PROVE Still(u) /\ SamePump(u)
    <3>1. Still(u)
      BY <1>2, <2>3, <2>4, <2>9 DEF Still
    <3>2. SamePump(u)
      BY <1>3, <2>6, <2>9 DEF SamePump, On, Active, Making, Sending
    <3> QED  BY <3>1, <3>2
  <2>10. ASSUME s.phase = "ready" PROVE TargetInv(t)'
    <3>1. Working(t) /\ t \in s.requested /\ \A k \in Nat : <<t, k>> \notin s.timers
      BY <1>1, <1>3, <2>1, <2>10 DEF TargetInv, Current, Timers, Working
    <3>2. Versions(t)'
      <4>1. ~On(t, Making \ {"create"})'
        BY <2>5, <2>6 DEF On, Making
      <4> QED  BY <1>1, <1>2, <1>3, <2>3, <2>10, <4>1, VersionsKept DEF TargetInv
    <3>3. Fresh(t)' /\ Timers(t)'
      BY <1>3, <2>3, <2>4, <2>5, <2>6, <3>1 DEF Fresh, Timers, On, Making
    <3>4. CASE s.current[t] = Sync!None
      <4>1. s.work[t] = "create"
        BY <1>1, <2>5, <2>10, <3>4 DEF TargetInv
      <4> QED  BY <2>3, <2>4, <2>6, <3>1, <3>2, <3>3, <3>4, <4>1 DEF TargetInv, On
    <3>5. CASE s.current[t] # Sync!None
      <4>1. Stage(t) /\ Pending(t)
        BY <1>1, <2>10, <3>5 DEF TargetInv
      <4>2. s.work[t] = "resend" /\ ~s.current[t].confirmed /\ ~s.current[t].inFlight /\ ~s.current[t].armed
        BY <2>1, <4>1 DEF Stage
      <4>3. Stage(t)'
        BY <2>3, <2>4, <2>6, <4>2 DEF Stage, On
      <4>4. Pending(t)'
        BY <1>2, <1>3, <2>3, <4>1 DEF Pending, QueueKept, SameTasks
      <4> QED  BY <2>3, <3>1, <3>2, <3>3, <3>5, <4>3, <4>4 DEF TargetInv
    <3> QED  BY <3>4, <3>5
  <2>11. version' \in [Sync!Buses -> Nat]
    BY <1>1, <1>2 DEF SyncTypes
  <2>12. s'.phase = "ready" =>
           \A u \in Targets : TargetInv(u)' \/ (Still(u) /\ SamePump(u) /\ s.phase = "ready")
    BY <2>3, <2>9, <2>10
  <2> QED  BY <1>2, <1>3, <2>3, <2>6, <2>7, <2>8, <2>11, <2>12, StepKeeps
<1> QED  BY <1>5, <1>6

(* While a snapshot is being made nothing of its target is ready or timed. *)
LEMMA MakingTarget ==
  ASSUME SyncInv, s.phase = "ready", pump.pc \in Making
  PROVE  /\ pump.target \in Targets /\ s.current[pump.target] = Sync!None
         /\ s.work[pump.target] # "resend" /\ pump.target \in s.requested
         /\ \A u \in Targets : u = pump.target => On(u, Making)
         /\ \A u \in Targets : u # pump.target => ~On(u, Active)
  BY MakingFacts DEF SyncInv, SyncTypes, On, Active

LEMMA IssueStartStep == SyncInv /\ Sync!IssueStart => SyncInv'
<1> SUFFICES ASSUME SyncInv, Sync!IssueStart PROVE SyncInv'
  OBVIOUS
<1>1. /\ SyncTypes /\ QueueShape /\ NumbersInv /\ Readiness /\ s \in Coordinators /\ pump \in Pumps
      /\ \A u \in Targets : TargetInv(u)
  BY DEF SyncInv, SyncTypes
<1>2. pump.pc = "create" /\ UNCHANGED queue /\ UNCHANGED Sync!Env
  BY DEF Sync!IssueStart, Sync!At
<1>3. QueueKept /\ QueueShape'
  <2>1. \A i \in DOMAIN queue' : queue'[i].kind \in Notices
    BY <1>1, <1>2, RunsQueue DEF Runs
  <2> QED  BY <1>2, <2>1, QueueSame, NoticesShape
<1>4. pump.target \in Targets /\ pump.pc \in Making
  BY <1>1, <1>2 DEF SyncTypes, Active, Making
<1>5. CASE /\ pump' = [pump EXCEPT !.pc = "loop"]
           /\ (s.phase # "ready" /\ s' = s) \/ s' = Sync!CloseConnection(s, "issuer_rotated")
  <2>1. pump' \in Pumps /\ pump'.pc = "loop" /\ pump'.pc \notin Active
    BY <1>1, <1>5 DEF Pumps, Runs, Active, Making, Sending
  <2>2. PumpNumbers'
    BY <2>1 DEF PumpNumbers, Sending
  <2>3. CASE s' = s /\ s.phase # "ready"
    BY <1>2, <1>3, <2>1, <2>2, <2>3, MoveKeeps
  <2>4. CASE s' = Sync!CloseConnection(s, "issuer_rotated")
    <3>1. /\ s' \in Coordinators /\ s'.phase = "closed" /\ s'.requested = Targets /\ s'.ready = {}
          /\ s'.base = s.base
      BY <1>1, <2>4, CloseFacts DEF Readiness, Reasons
    <3>2. Readiness' /\ version' \in [Sync!Buses -> Nat]
      BY <1>1, <1>2, <3>1 DEF Readiness, SyncTypes
    <3> QED  BY <1>2, <1>3, <2>1, <2>2, <3>1, <3>2, StepKeeps
  <2> QED  BY <1>5, <2>3, <2>4
<1>6. CASE /\ s.phase = "ready" /\ s' = s
           /\ pump' = [pump EXCEPT !.pc = "creating", !.epoch = s.epoch[pump.target],
                            !.base = s.base[pump.target].seq, !.version = version[pump.target]]
  <2>1. /\ pump.target \in Sync!Buses /\ s.epoch[pump.target] \in Nat /\ s.base[pump.target].seq \in Nat
        /\ version[pump.target] \in Nat
    BY <1>1, <1>4 DEF Pumps, Coordinators, Frames, SyncTypes
  <2>2. pump' \in Pumps /\ pump'.pc = "creating" /\ pump'.target = pump.target
        /\ pump'.epoch = s.epoch[pump.target] /\ pump'.base = s.base[pump.target].seq
        /\ pump'.version = version[pump.target]
    BY <1>1, <1>6, <2>1 DEF Pumps, Waits
  <2>3. s.base[pump.target].seq <= reserved
    <3>1. s.base[pump.target].seq <= dev[pump.target].seq /\ dev[pump.target].seq <= reserved
      BY <1>1, <1>4 DEF NumbersInv, BasesInv
    <3>2. dev[pump.target].seq \in Nat /\ reserved \in Nat
      BY <1>1, <1>4, NumberTypes
    <3>3. PICK m, n \in Nat : m = s.base[pump.target].seq /\ n = dev[pump.target].seq
      BY <2>1, <3>2
    <3>4. m <= n /\ n <= reserved
      BY <3>1, <3>3
    <3> QED  BY <3>2, <3>3, <3>4
  <2>4. PumpNumbers'
    BY <1>2, <2>2, <2>3 DEF PumpNumbers, Sending
  <2>5. \A u \in Targets : SamePump(u)
    BY <1>2, <2>2 DEF SamePump, On, Active, Making, Sending
  <2> QED  BY <1>2, <1>3, <1>4, <1>6, <2>2, <2>4, <2>5, MoveKeeps
<1>7. \/ /\ pump' = [pump EXCEPT !.pc = "loop"]
         /\ (s.phase # "ready" /\ s' = s) \/ s' = Sync!CloseConnection(s, "issuer_rotated")
      \/ /\ s.phase = "ready" /\ s' = s
         /\ pump' = [pump EXCEPT !.pc = "creating", !.epoch = s.epoch[pump.target],
                            !.base = s.base[pump.target].seq, !.version = version[pump.target]]
  BY DEF Sync!IssueStart
<1> QED  BY <1>5, <1>6, <1>7

LEMMA IssueCheckStep == SyncInv /\ Sync!IssueCheck => SyncInv'
<1> SUFFICES ASSUME SyncInv, Sync!IssueCheck PROVE SyncInv'
  OBVIOUS
<1>1. /\ SyncTypes /\ QueueShape /\ NumbersInv /\ PumpNumbers /\ s \in Coordinators /\ pump \in Pumps
  BY DEF SyncInv, SyncTypes, NumbersInv
<1>2. /\ pump.pc = "created" /\ s' = s /\ UNCHANGED Sync!Env /\ pump.target \in Targets
      /\ \A i \in DOMAIN queue : queue[i].kind \in Notices
  BY <1>1, RunsQueue DEF Sync!IssueCheck, Sync!At, Runs, SyncTypes, Active, Making
<1>3. CASE s.phase # "ready" /\ queue' = queue /\ pump' = [pump EXCEPT !.pc = "loop"]
  <2>1. pump' \in Pumps /\ pump'.pc = "loop" /\ pump'.pc \notin Active
    BY <1>1, <1>3 DEF Pumps, Runs, Active, Making, Sending
  <2>2. QueueShape' /\ PumpNumbers' /\ QueueKept
    BY <1>2, <1>3, <2>1, QueueSame, NoticesShape DEF PumpNumbers, Sending
  <2> QED  BY <1>2, <1>3, <2>1, <2>2, MoveKeeps
<1>4. ASSUME NEW kind \in {"commit", "requeue"}, pump' = [pump EXCEPT !.pc = kind],
             queue' = Append(queue, Sync!Task(kind, pump.target, pump.seq)), s.phase = "ready",
             kind = "commit" => pump.version = version[pump.target]
      PROVE  SyncInv'
  <2>1. pump' \in Pumps /\ pump'.pc = kind /\ pump'.target = pump.target /\ pump'.epoch = pump.epoch
        /\ pump'.seq = pump.seq /\ pump'.base = pump.base /\ pump'.version = pump.version
    BY <1>1, <1>4 DEF Pumps, Awaits
  <2>2. /\ kind \in PumpTasks /\ pump.seq \in Nat /\ pump.target \in Sync!Buses
    BY <1>1 DEF Pumps, PumpTasks
  <2>3. /\ Sync!Task(kind, pump.target, pump.seq) \in Tasks
        /\ Sync!Task(kind, pump.target, pump.seq).kind = kind
    BY <2>2, TaskType
  <2>4. kind \in Own(kind) /\ kind \in Awaits
    BY DEF Own, Awaits
  <2>5. QueueKept /\ QueueShape' /\ \A u \in Targets : Queued("notify", u)' => Queued("notify", u)
    BY <1>2, <1>4, <2>1, <2>2, <2>3, <2>4, QueueGains
  <2>6. PumpNumbers'
    BY <1>1, <1>2, <2>1 DEF PumpNumbers, Sending
  <2>7. ASSUME NEW u \in Targets PROVE SamePump(u)
    <3>1. CASE u = pump.target
      <4>1. kind = "commit" => ~Queued("notify", u)'
        <5>1. Versions(u) /\ On(u, {"created", "commit"})
          BY <1>2, <1>4, <3>1 DEF SyncInv, TargetInv, On
        <5> QED  BY <1>4, <2>5, <3>1, <5>1 DEF Versions
      <4> QED  BY <1>2, <2>1, <3>1, <4>1 DEF SamePump, On, Making
    <3>2. CASE u # pump.target
      BY <2>1, <3>2 DEF SamePump, On
    <3> QED  BY <3>1, <3>2
  <2> QED  BY <1>2, <2>1, <2>5, <2>6, <2>7, MoveKeeps
<1>5. \/ s.phase # "ready" /\ queue' = queue /\ pump' = [pump EXCEPT !.pc = "loop"]
      \/ \E kind \in {"commit", "requeue"} :
           /\ s.phase = "ready" /\ (kind = "commit" => pump.version = version[pump.target])
           /\ pump' = [pump EXCEPT !.pc = kind]
           /\ queue' = Append(queue, Sync!Task(kind, pump.target, pump.seq))
  BY DEF Sync!IssueCheck
<1> QED  BY <1>3, <1>4, <1>5

LEMMA CreateDoneStep == SyncInv /\ Sync!CreateDone => SyncInv'
<1> SUFFICES ASSUME SyncInv, Sync!CreateDone PROVE SyncInv'
  OBVIOUS
<1>1. /\ SyncTypes /\ QueueShape /\ NumbersInv /\ PumpNumbers /\ pump \in Pumps
      /\ \A u \in Targets : TargetInv(u)
  BY DEF SyncInv, SyncTypes, NumbersInv
<1>2. /\ pump.pc = "creating" /\ queue = <<>> /\ reserved' = reserved + 1
      /\ pump' = [pump EXCEPT !.pc = "created", !.seq = reserved + 1]
      /\ UNCHANGED <<version, s, queue, wire, back, dev>>
  BY DEF Sync!CreateDone, Sync!At, Sync!Settled
<1>3. /\ pump' \in Pumps /\ pump'.pc = "created" /\ pump'.seq = reserved + 1 /\ pump'.base = pump.base
      /\ pump'.target = pump.target /\ pump'.epoch = pump.epoch /\ pump'.version = pump.version
  <2>1. reserved + 1 \in Nat
    BY <1>1, NumberTypes
  <2> QED  BY <1>1, <1>2, <2>1 DEF Pumps, Runs
<1>4. reserved \in Nat /\ reserved' \in Nat /\ reserved <= reserved'
  BY <1>1, <1>2 DEF SyncTypes
<1>5. /\ \A u \in Targets : dev[u].seq \in Nat /\ dev[u].seq <= reserved
      /\ \A i \in DOMAIN wire : wire[i].seq \in Nat /\ wire[i].seq <= reserved /\ wire[i].base < wire[i].seq
      /\ pump.base <= reserved /\ pump.base \in Nat
  BY <1>1, <1>2, NumberTypes DEF NumbersInv, PumpNumbers
<1>6. PumpNumbers'
  BY <1>2, <1>3, <1>4, <1>5 DEF PumpNumbers, Sending
<1>7. NumbersInv'
  <2>1. BasesInv' /\ Acknowledged(back)' /\ Acknowledged(queue)'
    BY <1>1, <1>2 DEF NumbersInv, BasesInv, Acknowledged
  <2>2. /\ \A i \in DOMAIN wire' : wire'[i].base < wire'[i].seq /\ wire'[i].seq <= reserved'
        /\ \A u \in Targets : dev'[u].seq <= reserved'
    BY <1>2, <1>4, <1>5
  <2> QED  BY <1>6, <2>1, <2>2 DEF NumbersInv
<1>8. SyncTypes'
  <2>1. pump'.pc \in Active => pump'.target \in Targets
    BY <1>1, <1>2, <1>3 DEF SyncTypes, Active, Making
  <2> QED  BY <1>1, <1>2, <1>3, <1>4, <2>1 DEF SyncTypes
<1>9. QueueShape'
  BY <1>2, NoticesShape
<1>10. ASSUME NEW u \in Targets PROVE TargetInv(u)'
  <2>1. SamePump(u)
    BY <1>2, <1>3 DEF SamePump, On, Active, Making, Sending, Queued
  <2>2. SameTasks(u) /\ SameWire(u) /\ Still(u) /\ version' \in [Sync!Buses -> Nat]
    BY <1>1, <1>2 DEF SameTasks, SameWire, Still, Queued, SyncTypes
  <2> QED  BY <1>1, <1>2, <1>4, <2>1, <2>2, TargetKept
<1>11. Readiness'
  BY <1>2 DEF SyncInv, Readiness
<1> QED  BY <1>7, <1>8, <1>9, <1>10, <1>11 DEF SyncInv

(* The snapshot is not issued: the target waits for another. *)
LEMMA CreateAgain ==
  ASSUME SyncInv, UNCHANGED Sync!Env, QueueKept, QueueShape', pump.pc \in Making,
         pump' = [pump EXCEPT !.pc = "loop"],
         \A u \in Targets : ~Queued("confirm", u)',
         s' = [s EXCEPT !.work[pump.target] = "create"]
  PROVE  SyncInv'
<1>1. /\ SyncTypes /\ QueueShape /\ Readiness /\ s \in Coordinators /\ pump \in Pumps
      /\ \A u \in Targets : TargetInv(u)
  BY DEF SyncInv, SyncTypes
<1>2. PICK t \in Targets : t = pump.target
  BY <1>1 DEF SyncTypes, Active
<1>3. /\ s' \in Coordinators /\ s'.phase = s.phase /\ s'.base = s.base /\ s'.requested = s.requested
      /\ s'.ready = s.ready /\ s'.timers = s.timers /\ s'.handle = s.handle /\ s'.epoch = s.epoch
      /\ s'.current = s.current /\ s'.work = [s.work EXCEPT ![t] = "create"]
  <2>1. [s.work EXCEPT ![t] = "create"] \in [Targets -> {"none", "create", "resend"}]
    BY <1>1 DEF Coordinators
  <2>2. s' = [s EXCEPT !.work = [s.work EXCEPT ![t] = "create"]]
    BY <1>1, <1>2 DEF Coordinators
  <2> QED  BY <1>1, <2>1, <2>2 DEF Coordinators
<1>4. s'.work[t] = "create" /\ \A u \in Targets : u # t => s'.work[u] = s.work[u]
  BY <1>1, <1>3 DEF Coordinators
<1>5. pump' \in Pumps /\ pump'.pc = "loop" /\ pump'.pc \notin Active
  BY <1>1 DEF Pumps, Runs, Active, Making, Sending
<1>6. PumpNumbers' /\ Readiness' /\ version' \in [Sync!Buses -> Nat]
  BY <1>1, <1>3, <1>5 DEF PumpNumbers, Sending, Readiness, SyncTypes
<1>7. ASSUME NEW u \in Targets, u # t PROVE Still(u) /\ SamePump(u)
  <2>1. Still(u)
    BY <1>3, <1>4, <1>7 DEF Still
  <2>2. SamePump(u)
    BY <1>2, <1>5, <1>7 DEF SamePump, On
  <2> QED  BY <2>1, <2>2
<1>8. ASSUME s.phase = "ready" PROVE TargetInv(t)'
  <2>1. s.current[t] = Sync!None /\ t \in s.requested /\ On(t, Making)
    BY <1>2, <1>8, MakingTarget
  <2>2. \A k \in Nat : <<t, k>> \notin s.timers
    BY <1>1, <1>8, <2>1 DEF TargetInv, Timers, Working, On, Active
  <2>3. ~Queued("confirm", t)'
    OBVIOUS
  <2>4. ~On(t, Active)'
    BY <1>5 DEF On
  <2>5. Fresh(t)' /\ Timers(t)' /\ Versions(t)' /\ ~On(t, {"resend", "enter"})'
    BY <1>3, <2>1, <2>2, <2>3, <2>4 DEF Fresh, Timers, Versions, On, Active, Making, Sending
  <2> QED  BY <1>3, <1>4, <2>1, <2>5 DEF TargetInv
<1>9. s'.phase = "ready" =>
        \A u \in Targets : TargetInv(u)' \/ (Still(u) /\ SamePump(u) /\ s.phase = "ready")
  BY <1>3, <1>7, <1>8
<1> QED  BY <1>3, <1>5, <1>6, <1>9, StepKeeps

LEMMA RequeueStep == SyncInv /\ Sync!RunRequeue => SyncInv'
<1> SUFFICES ASSUME SyncInv, Sync!RunRequeue PROVE SyncInv'
  OBVIOUS
<1>1. /\ queue # <<>> /\ Head(queue).kind = "requeue" /\ UNCHANGED Sync!Env /\ queue' = Tail(queue)
      /\ pump' = [pump EXCEPT !.pc = "loop"]
      /\ s' = IF s.phase = "ready" THEN [s EXCEPT !.work[pump.target] = "create"] ELSE s
  BY DEF Sync!RunRequeue, Sync!Runs, Sync!PumpTask
<1>2. /\ QueueKept /\ QueueShape' /\ pump.pc = "requeue"
      /\ \A u \in Targets : ~Queued("confirm", u)'
  BY <1>1, QueueLoses DEF PumpTasks, Awaits, Own
<1>3. CASE s.phase = "ready"
  BY <1>1, <1>2, <1>3, CreateAgain DEF Making
<1>4. CASE s.phase # "ready"
  <2>1. pump' \in Pumps /\ pump'.pc = "loop"
    BY <1>1 DEF SyncInv, SyncTypes, Pumps, Runs
  <2>2. PumpNumbers' /\ pump'.pc \notin Active
    BY <2>1 DEF PumpNumbers, Active, Making, Sending
  <2> QED  BY <1>1, <1>2, <1>4, <2>1, <2>2, MoveKeeps
<1> QED  BY <1>3, <1>4

LEMMA CommitStep == SyncInv /\ Sync!RunCommit => SyncInv'
<1> SUFFICES ASSUME SyncInv, Sync!RunCommit PROVE SyncInv'
  OBVIOUS
<1>1. /\ queue # <<>> /\ Head(queue).kind = "commit" /\ UNCHANGED Sync!Env /\ queue' = Tail(queue)
  BY DEF Sync!RunCommit, Sync!Runs, Sync!PumpTask
<1>2. /\ QueueKept /\ QueueShape' /\ pump.pc = "commit"
      /\ \A i \in DOMAIN queue' : queue'[i].kind \in Notices
      /\ \A u \in Targets : ~Queued("confirm", u)' /\ (Queued("notify", u)' => Queued("notify", u))
  BY <1>1, QueueLoses DEF PumpTasks, Awaits, Own
<1>3. /\ SyncTypes /\ QueueShape /\ NumbersInv /\ PumpNumbers /\ Readiness /\ s \in Coordinators
      /\ pump \in Pumps /\ \A u \in Targets : TargetInv(u)
  BY DEF SyncInv, SyncTypes, NumbersInv
<1>4. PICK t \in Targets : t = pump.target
  BY <1>2, <1>3 DEF SyncTypes, Active, Making
<1>5. \/ s' = [s EXCEPT !.work[pump.target] = "create"] /\ pump' = [pump EXCEPT !.pc = "loop"]
      \/ /\ s.phase = "ready" /\ s.epoch[t] = pump.epoch
         /\ s' = [s EXCEPT !.current[t] = Sync!Attempt(pump), !.latest = pump.seq]
         /\ pump' = [pump EXCEPT !.pc = "enter", !.retry = FALSE]
  BY <1>4 DEF Sync!RunCommit, Sync!PumpTask
<1>6. CASE s' = [s EXCEPT !.work[pump.target] = "create"] /\ pump' = [pump EXCEPT !.pc = "loop"]
  BY <1>1, <1>2, <1>6, CreateAgain DEF Making
<1>7. CASE /\ s.phase = "ready" /\ s.epoch[t] = pump.epoch
           /\ s' = [s EXCEPT !.current[t] = Sync!Attempt(pump), !.latest = pump.seq]
           /\ pump' = [pump EXCEPT !.pc = "enter", !.retry = FALSE]
  <2> DEFINE a == Sync!Attempt(pump)
  <2>1. /\ pump.base < pump.seq /\ pump.seq = reserved
        /\ \A u \in Targets : dev[u].seq < pump.seq
        /\ \A i \in DOMAIN wire : wire[i].seq < pump.seq
    BY <1>2, <1>3 DEF PumpNumbers
  <2>2. /\ pump.seq \in Nat /\ pump.base \in Nat /\ pump.version \in Nat /\ reserved \in Nat
        /\ \A u \in Targets : dev[u].seq \in Nat
        /\ \A i \in DOMAIN wire : wire[i].seq \in Nat
    BY <1>3, NumberTypes
  <2>3. /\ a \in Attempts /\ a.seq = pump.seq /\ a.version = pump.version /\ a.base = pump.base
        /\ ~a.confirmed /\ ~a.inFlight /\ ~a.armed /\ a.early = "none"
    BY <2>1, <2>2 DEF Sync!Attempt, Attempts
  <2> HIDE DEF a
  <2>4. /\ s' \in Coordinators /\ s'.phase = s.phase /\ s'.base = s.base /\ s'.requested = s.requested
        /\ s'.ready = s.ready /\ s'.timers = s.timers /\ s'.handle = s.handle /\ s'.epoch = s.epoch
        /\ s'.work = s.work /\ s'.current = [s.current EXCEPT ![t] = a]
    <3>1. s' = [s EXCEPT !.current = [s.current EXCEPT ![t] = a], !.latest = pump.seq]
      BY <1>3, <1>7 DEF Coordinators, a
    <3>2. [s.current EXCEPT ![t] = a] \in [Targets -> Attempts \cup {Sync!None}]
      BY <1>3, <2>3 DEF Coordinators
    <3> QED  BY <1>3, <2>2, <3>1, <3>2 DEF Coordinators
  <2>5. s'.current[t] = a /\ \A u \in Targets : u # t => s'.current[u] = s.current[u]
    BY <1>3, <2>4 DEF Coordinators
  <2>6. /\ pump' \in Pumps /\ pump'.pc = "enter" /\ pump'.target = t /\ pump'.seq = pump.seq
        /\ pump'.version = pump.version /\ pump'.base = pump.base
    BY <1>3, <1>4, <1>7 DEF Pumps, Runs
  <2>7. PumpNumbers' /\ Readiness' /\ version' \in [Sync!Buses -> Nat]
    BY <1>1, <1>3, <2>1, <2>2, <2>4, <2>6 DEF PumpNumbers, Readiness, SyncTypes
  <2>8. ASSUME NEW u \in Targets, u # t PROVE Still(u) /\ SamePump(u)
    <3>1. Still(u)
      BY <1>1, <2>4, <2>5, <2>8 DEF Still
    <3>2. SamePump(u)
      BY <1>4, <2>6, <2>8 DEF SamePump, On
    <3> QED  BY <3>1, <3>2
  <2>9. TargetInv(t)'
    <3>1. t \in s.requested /\ On(t, Making) /\ s.work[t] # "resend"
      BY <1>2, <1>4, <1>7, MakingTarget DEF Making
    <3>2. s.work[t] = "none"
      <4>1. Fresh(t) /\ On(t, Making \ {"create"})
        BY <1>2, <1>3, <1>4, <1>7 DEF TargetInv, On, Making
      <4>2. pump.epoch \in Nat
        BY <1>3 DEF Pumps
      <4> QED  BY <1>7, <4>1, <4>2 DEF Fresh
    <3>3. \A k \in Nat : <<t, k>> \notin s.timers
      BY <1>2, <1>3, <1>7, <3>1 DEF TargetInv, Timers, Working, On, Active
    <3>4. ~Queued("confirm", t)' /\ Versions(t)'
      <4>1. Versions(t) /\ On(t, {"created", "commit"}) /\ On(t, Making \ {"create"})
        BY <1>2, <1>3, <1>4, <1>7 DEF TargetInv, On, Making
      <4>2. a.version <= version[t] /\ (Queued("notify", t)' => a.version # version[t])
        BY <1>2, <2>3, <4>1 DEF Versions
      <4>3. ~On(t, Making)'
        BY <2>6 DEF On, Making
      <4> QED  BY <1>1, <1>2, <2>5, <4>2, <4>3 DEF Versions, On, Making
    <3>5. Stage(t)'
      BY <2>3, <2>4, <2>5, <2>6, <3>2 DEF Stage, On, Same
    <3>6. Pending(t)'
      <4>1. \A i \in DOMAIN queue' : queue'[i].kind # "timeout"
        BY <1>2 DEF Notices
      <4> QED  BY <1>1, <2>1, <2>2, <2>3, <2>5, <4>1 DEF Pending
    <3>7. Fresh(t)' /\ Timers(t)'
      BY <2>4, <2>6, <3>3, <3>4 DEF Fresh, Timers, On, Making
    <3>8. s'.current[t] # Sync!None
      BY <2>3, <2>5, NotNone
    <3> QED  BY <2>4, <3>1, <3>4, <3>5, <3>6, <3>7, <3>8 DEF TargetInv
  <2>10. s'.phase = "ready" =>
           \A u \in Targets : TargetInv(u)' \/ (Still(u) /\ SamePump(u) /\ s.phase = "ready")
    BY <1>7, <2>8, <2>9
  <2> QED  BY <1>1, <1>2, <2>4, <2>6, <2>7, <2>10, StepKeeps
<1> QED  BY <1>5, <1>6, <1>7

(* The pump turns to a frame that is to be sent again. *)
LEMMA ResendStep == SyncInv /\ Sync!ResendStart => SyncInv'
<1> SUFFICES ASSUME SyncInv, Sync!ResendStart PROVE SyncInv'
  OBVIOUS
<1>1. /\ SyncTypes /\ QueueShape /\ NumbersInv /\ PumpNumbers /\ Readiness /\ s \in Coordinators
      /\ pump \in Pumps /\ \A u \in Targets : TargetInv(u)
  BY DEF SyncInv, SyncTypes, NumbersInv
<1>2. pump.pc = "resend" /\ s' = s /\ UNCHANGED queue /\ UNCHANGED Sync!Env
  BY DEF Sync!ResendStart, Sync!At
<1>3. QueueKept /\ QueueShape' /\ \A i \in DOMAIN queue : queue[i].kind \in Notices
  <2>1. \A i \in DOMAIN queue : queue[i].kind \in Notices
    BY <1>1, <1>2, RunsQueue DEF Runs
  <2> QED  BY <1>2, <2>1, QueueSame, NoticesShape
<1>4. PICK t \in Targets : t = pump.target
  BY <1>1, <1>2 DEF SyncTypes, Active
<1> DEFINE a == s.current[t]
<1>5. \/ pump' = [pump EXCEPT !.pc = "loop"] /\ (a = Sync!None \/ s.phase # "ready")
      \/ /\ a # Sync!None /\ s.phase = "ready"
         /\ pump' = [pump EXCEPT !.pc = "enter", !.retry = TRUE, !.seq = a.seq,
                                 !.base = a.base, !.version = a.version]
  BY <1>4 DEF Sync!ResendStart
<1>6. CASE pump' = [pump EXCEPT !.pc = "loop"] /\ (a = Sync!None \/ s.phase # "ready")
  <2>1. s.phase # "ready"
    BY <1>1, <1>2, <1>4, <1>6 DEF TargetInv, On
  <2>2. pump' \in Pumps /\ pump'.pc = "loop" /\ pump'.pc \notin Active
    BY <1>1, <1>6 DEF Pumps, Runs, Active, Making, Sending
  <2>3. PumpNumbers'
    BY <2>2 DEF PumpNumbers, Sending
  <2> QED  BY <1>2, <1>3, <2>1, <2>2, <2>3, MoveKeeps
<1>7. CASE /\ a # Sync!None /\ s.phase = "ready"
           /\ pump' = [pump EXCEPT !.pc = "enter", !.retry = TRUE, !.seq = a.seq,
                                   !.base = a.base, !.version = a.version]
  <2>1. a \in Attempts /\ Stage(t) /\ Pending(t)
    BY <1>1, <1>7, SomeAttempt DEF TargetInv
  <2>2. a.seq \in Nat /\ a.base \in Nat /\ a.version \in Nat /\ a.base < a.seq /\ a.seq <= reserved
    BY <2>1 DEF Attempts, Pending
  <2>3. /\ pump' \in Pumps /\ pump'.pc = "enter" /\ pump'.seq = a.seq /\ pump'.base = a.base
        /\ pump'.version = a.version /\ pump'.target = pump.target
    BY <1>1, <1>7, <2>2 DEF Pumps, Runs
  <2>4. PumpNumbers' /\ Readiness' /\ version' \in [Sync!Buses -> Nat] /\ s' \in Coordinators
    BY <1>1, <1>2, <2>2, <2>3 DEF PumpNumbers, Readiness, SyncTypes
  <2>5. ASSUME NEW u \in Targets, u # t PROVE Still(u) /\ SamePump(u)
    <3>1. Still(u)
      BY <1>2 DEF Still
    <3>2. SamePump(u)
      BY <1>4, <2>3, <2>5 DEF SamePump, On
    <3> QED  BY <3>1, <3>2
  <2>6. TargetInv(t)'
    <3>0. On(t, {"resend"}) /\ On(t, Active)
      BY <1>2, <1>4 DEF On, Active
    <3>1. ~a.confirmed /\ ~a.inFlight /\ ~a.armed /\ s.work[t] = "none"
      BY <2>1, <3>0, <1>2 DEF Stage, On
    <3>2. Stage(t)'
      BY <1>2, <1>4, <2>3, <3>1 DEF Stage, On, Same
    <3>3. Pending(t)'
      BY <1>2, <2>1 DEF Pending
    <3>4. t \in s.requested /\ \A k \in Nat : <<t, k>> \notin s.timers
      <4>1. Working(t)
        BY <1>7 DEF Working
      <4> QED  BY <1>1, <1>7, <4>1 DEF TargetInv, Current, Timers
    <3>5. ~Queued("confirm", t)' /\ Versions(t)'
      <4>1. ~Queued("confirm", t)'
        BY <1>2, <1>3 DEF Queued, Notices
      <4>2. ~On(t, Making \ {"create"})' /\ (Queued("notify", t)' => Queued("notify", t))
        BY <1>2, <2>3 DEF On, Making, Queued
      <4> QED  BY <1>1, <1>2, <1>7, <4>1, <4>2, VersionsKept DEF TargetInv
    <3>6. Fresh(t)' /\ Timers(t)'
      BY <1>2, <2>3, <3>4, <3>5 DEF Fresh, Timers, On, Making
    <3> QED  BY <1>2, <1>7, <3>2, <3>3, <3>4, <3>5, <3>6 DEF TargetInv
  <2>7. s'.phase = "ready" =>
           \A u \in Targets : TargetInv(u)' \/ (Still(u) /\ SamePump(u) /\ s.phase = "ready")
    BY <1>7, <2>5, <2>6
  <2>8. pump'.pc \in Active => pump'.target \in Targets
    BY <1>4, <2>3
  <2> QED  BY <1>2, <1>3, <2>3, <2>4, <2>7, <2>8, StepKeeps
<1> QED  BY <1>5, <1>6, <1>7

(* The steps that hand the frame on: into the queue, and back out of it. *)
LEMMA HandStep ==
  ASSUME SyncInv, s' = s, UNCHANGED <<version, reserved, wire, back, dev>>,
         \A i \in DOMAIN queue : queue[i].kind \in Notices,
         NEW kind \in PumpTasks, NEW from, NEW to,
         pump.pc = from, pump' = [pump EXCEPT !.pc = to],
         queue' = Append(queue, Sync!Task(kind, pump.target, pump.seq)),
         \/ kind = "gate" /\ from = "enter" /\ to = "gate"
         \/ kind = "sent" /\ from = "sending" /\ to = "sent"
         \/ kind = "sendFailed" /\ from \in {"transmit", "sending"} /\ to = "sent"
  PROVE  SyncInv'
<1>1. /\ SyncTypes /\ PumpNumbers /\ pump \in Pumps
  BY DEF SyncInv, SyncTypes, NumbersInv
<1>2. /\ pump' \in Pumps /\ pump'.pc = to /\ pump'.target = pump.target /\ pump'.seq = pump.seq
      /\ pump'.base = pump.base /\ pump'.version = pump.version
  BY <1>1 DEF Pumps, Awaits
<1>3. pump.pc \in Active /\ pump.target \in Targets /\ pump.seq \in Nat /\ pump.target \in Sync!Buses
  BY <1>1 DEF SyncTypes, Active, Sending, Pumps
<1>4. /\ Sync!Task(kind, pump.target, pump.seq) \in Tasks
      /\ Sync!Task(kind, pump.target, pump.seq).kind = kind
  BY <1>3, TaskType
<1>5. QueueKept /\ QueueShape'
  <2>1. kind \in Own(to) /\ to \in Awaits
    BY DEF Own, Awaits
  <2> QED  BY <1>2, <1>4, <2>1, QueueGains
<1>6. PumpNumbers'
  BY <1>1, <1>2 DEF PumpNumbers, Sending
<1>7. \A u \in Targets : SamePump(u)
  BY <1>2 DEF SamePump, On, Active, Making, Sending
<1> QED  BY <1>2, <1>3, <1>5, <1>6, <1>7, MoveKeeps

LEMMA EnterStep == SyncInv /\ (Sync!EnterSend \/ Sync!SendDone \/ Sync!SendFails) => SyncInv'
<1> SUFFICES ASSUME SyncInv, Sync!EnterSend \/ Sync!SendDone \/ Sync!SendFails PROVE SyncInv'
  OBVIOUS
<1>1. QueueShape
  BY DEF SyncInv
<1>2. s' = s /\ UNCHANGED <<version, reserved, wire, back, dev>>
  BY DEF Sync!EnterSend, Sync!SendDone, Sync!SendFails
<1>3. CASE Sync!EnterSend
  <2>1. \A i \in DOMAIN queue : queue[i].kind \in Notices
    BY <1>1, <1>3, RunsQueue DEF Sync!EnterSend, Sync!At, Runs
  <2> QED  BY <1>2, <1>3, <2>1, HandStep DEF Sync!EnterSend, Sync!At, PumpTasks
<1>4. CASE Sync!SendDone
  BY <1>2, <1>4, HandStep DEF Sync!SendDone, Sync!At, Sync!Settled, PumpTasks
<1>5. CASE Sync!SendFails
  BY <1>2, <1>5, HandStep DEF Sync!SendFails, Sync!At, Sync!Settled, PumpTasks
<1> QED  BY <1>3, <1>4, <1>5

(* What the pump holds is the pending frame of its target, if there is one. *)
LEMMA SendingTarget ==
  ASSUME SyncInv, s.phase = "ready", pump.pc \in Sending
  PROVE  LET t == pump.target IN
         /\ t \in Targets /\ t \in s.requested
         /\ s.current[t] # Sync!None =>
              /\ s.current[t] \in Attempts /\ Stage(t) /\ Pending(t) /\ s.current[t].seq = pump.seq
              /\ s.work[t] = "none" /\ Same(t) /\ ~s.current[t].confirmed /\ ~s.current[t].armed
              /\ s.current[t].inFlight <=> pump.pc \in {"transmit", "sending", "sent"}
<1>1. SyncTypes /\ \A u \in Targets : TargetInv(u)
  BY DEF SyncInv
<1>2. PICK t \in Targets : t = pump.target
  BY <1>1 DEF SyncTypes, Active
<1>3. t \in s.requested
  BY <1>1, <1>2 DEF TargetInv, Current, Working, On, Active
<1>4. ASSUME s.current[t] # Sync!None
      PROVE  /\ s.current[t] \in Attempts /\ Stage(t) /\ Pending(t) /\ s.current[t].seq = pump.seq
             /\ s.work[t] = "none" /\ Same(t) /\ ~s.current[t].confirmed /\ ~s.current[t].armed
             /\ s.current[t].inFlight <=> pump.pc \in {"transmit", "sending", "sent"}
  <2>1. s.current[t] \in Attempts /\ Stage(t) /\ Pending(t)
    BY <1>1, <1>4, SomeAttempt DEF TargetInv, SyncTypes
  <2>2. On(t, Active) /\ ~On(t, {"resend"})
    BY <1>2 DEF On, Active, Sending
  <2>3. /\ s.work[t] = "none" /\ Same(t) /\ ~s.current[t].confirmed /\ ~s.current[t].armed
        /\ s.current[t].inFlight <=> pump.pc \in {"transmit", "sending", "sent"}
    BY <2>1, <2>2 DEF Stage, On
  <2> QED  BY <2>1, <2>3 DEF Same
<1> QED  BY <1>2, <1>3, <1>4

LEMMA GateStep == SyncInv /\ Sync!RunGate => SyncInv'
<1> SUFFICES ASSUME SyncInv, Sync!RunGate PROVE SyncInv'
  OBVIOUS
<1>1. /\ queue # <<>> /\ Head(queue).kind = "gate" /\ UNCHANGED Sync!Env /\ queue' = Tail(queue)
  BY DEF Sync!RunGate, Sync!Runs, Sync!PumpTask
<1>2. /\ QueueKept /\ QueueShape' /\ pump.pc = "gate"
      /\ \A i \in DOMAIN queue' : queue'[i].kind \in Notices
      /\ \A u \in Targets : ~Queued("confirm", u)' /\ (Queued("notify", u)' => Queued("notify", u))
  BY <1>1, QueueLoses DEF PumpTasks, Awaits, Own
<1>3. /\ SyncTypes /\ QueueShape /\ NumbersInv /\ PumpNumbers /\ Readiness /\ s \in Coordinators
      /\ pump \in Pumps /\ \A u \in Targets : TargetInv(u)
  BY DEF SyncInv, SyncTypes, NumbersInv
<1>4. PICK t \in Targets : t = pump.target
  BY <1>2, <1>3 DEF SyncTypes, Active, Sending
<1> DEFINE a == s.current[t]
<1>5. \/ ~Sync!IsPending(s, t, pump.seq) /\ s' = s /\ pump' = [pump EXCEPT !.pc = "loop"]
      \/ /\ Sync!IsPending(s, t, pump.seq)
         /\ s' = [s EXCEPT !.current[t].confirmed = FALSE, !.current[t].inFlight = TRUE,
                           !.current[t].early = "none"]
         /\ pump' = [pump EXCEPT !.pc = "transmit"]
  BY <1>4 DEF Sync!RunGate, Sync!PumpTask
<1>6. CASE ~Sync!IsPending(s, t, pump.seq) /\ s' = s /\ pump' = [pump EXCEPT !.pc = "loop"]
  <2>1. ASSUME s.phase = "ready", s.current[t] # Sync!None PROVE FALSE
    <3>1. s.current[t].seq = pump.seq
      BY <1>2, <1>4, <2>1, SendingTarget DEF Sending
    <3> QED  BY <1>6, <2>1, <3>1 DEF Sync!IsPending
  <2>2. pump' \in Pumps /\ pump'.pc = "loop" /\ pump'.pc \notin Active
    BY <1>3, <1>6 DEF Pumps, Runs, Active, Making, Sending
  <2>3. PumpNumbers'
    BY <2>2 DEF PumpNumbers, Sending
  <2>4. s.phase = "ready" => \A u \in Targets : SamePump(u)
    BY <1>4, <2>1, <2>2 DEF SamePump, On
  <2> QED  BY <1>1, <1>2, <1>6, <2>2, <2>3, <2>4, MoveKeeps
<1>7. CASE /\ Sync!IsPending(s, t, pump.seq)
           /\ s' = [s EXCEPT !.current[t].confirmed = FALSE, !.current[t].inFlight = TRUE,
                             !.current[t].early = "none"]
           /\ pump' = [pump EXCEPT !.pc = "transmit"]
  <2> DEFINE d == [a EXCEPT !.confirmed = FALSE, !.inFlight = TRUE, !.early = "none"]
  <2>1. s.phase = "ready" /\ a # Sync!None
    BY <1>7 DEF Sync!IsPending
  <2>2. /\ t \in s.requested /\ a \in Attempts /\ Stage(t) /\ Pending(t)
        /\ s.work[t] = "none" /\ Same(t) /\ ~a.confirmed /\ ~a.armed
    BY <1>2, <1>4, <2>1, SendingTarget DEF Sending
  <2>3. /\ d \in Attempts /\ d.seq = a.seq /\ d.base = a.base /\ d.version = a.version
        /\ ~d.confirmed /\ d.inFlight /\ ~d.armed /\ d.early = "none"
    BY <2>2 DEF Attempts
  <2>4. s' = [s EXCEPT !.current = [s.current EXCEPT ![t] = d]]
    BY <1>3, <1>7 DEF Coordinators
  <2> HIDE DEF d
  <2>5. /\ s' \in Coordinators /\ s'.phase = s.phase /\ s'.base = s.base /\ s'.requested = s.requested
        /\ s'.ready = s.ready /\ s'.timers = s.timers /\ s'.handle = s.handle /\ s'.epoch = s.epoch
        /\ s'.work = s.work /\ s'.current = [s.current EXCEPT ![t] = d]
    BY <1>3, <2>3, <2>4 DEF Coordinators
  <2>6. s'.current[t] = d /\ \A u \in Targets : u # t => s'.current[u] = s.current[u]
    BY <1>3, <2>5 DEF Coordinators
  <2>7. /\ pump' \in Pumps /\ pump'.pc = "transmit" /\ pump'.target = t /\ pump'.seq = pump.seq
        /\ pump'.version = pump.version /\ pump'.base = pump.base
    BY <1>3, <1>4, <1>7 DEF Pumps, Waits
  <2>8. PumpNumbers' /\ Readiness' /\ version' \in [Sync!Buses -> Nat]
    BY <1>1, <1>2, <1>3, <2>5, <2>7 DEF PumpNumbers, Sending, Readiness, SyncTypes
  <2>9. ASSUME NEW u \in Targets, u # t PROVE Still(u) /\ SamePump(u)
    <3>1. Still(u)
      BY <1>1, <2>5, <2>6, <2>9 DEF Still
    <3>2. SamePump(u)
      BY <1>4, <2>7, <2>9 DEF SamePump, On
    <3> QED  BY <3>1, <3>2
  <2>10. TargetInv(t)'
    <3>1. Stage(t)'
      BY <2>2, <2>3, <2>5, <2>6, <2>7 DEF Stage, On, Same
    <3>2. Pending(t)'
      <4>1. \A i \in DOMAIN queue' : queue'[i].kind # "timeout"
        BY <1>2 DEF Notices
      <4> QED  BY <1>1, <2>2, <2>3, <2>6, <4>1 DEF Pending
    <3>3. Versions(t)'
      <4>1. ~On(t, Making \ {"create"})'
        BY <2>7 DEF On, Making
      <4> QED  BY <1>1, <1>2, <1>3, <2>1, <2>3, <2>6, <4>1, VersionsKept DEF TargetInv
    <3>4. \A k \in Nat : <<t, k>> \notin s.timers
      BY <1>2, <1>3, <2>1 DEF TargetInv, Timers, Working
    <3>5. Fresh(t)' /\ Timers(t)'
      BY <1>2, <2>5, <2>7, <3>4 DEF Fresh, Timers, On, Making
    <3>6. s'.current[t] # Sync!None
      BY <2>3, <2>6, NotNone
    <3> QED  BY <2>2, <2>5, <3>1, <3>2, <3>3, <3>5, <3>6 DEF TargetInv
  <2>11. s'.phase = "ready" =>
           \A u \in Targets : TargetInv(u)' \/ (Still(u) /\ SamePump(u) /\ s.phase = "ready")
    BY <2>1, <2>9, <2>10
  <2> QED  BY <1>1, <1>2, <2>5, <2>7, <2>8, <2>11, StepKeeps
<1> QED  BY <1>5, <1>6, <1>7

LEMMA PumpClosing ==
  ASSUME SyncInv, s' = Sync!CloseConnection(s, "transport_failure") \/ s' = Sync!CloseConnection(s, "internal_error")
                    \/ s' = Sync!CloseConnection(s, "protocol_violation"),
         UNCHANGED <<version, reserved, wire, back, dev>>, QueueKept, QueueShape',
         pump' = [pump EXCEPT !.pc = "loop"]
  PROVE  SyncInv'
<1>1. /\ s' \in Coordinators /\ s'.phase = "closed" /\ s'.requested = Targets /\ s'.ready = {}
      /\ s'.base = s.base
  <2>1. PICK why \in Reasons : s' = Sync!CloseConnection(s, why)
    BY DEF Reasons
  <2>2. s \in Coordinators /\ (s.phase = "closed" => s.requested = Targets /\ s.ready = {})
    BY DEF SyncInv, SyncTypes, Readiness
  <2> QED  BY <2>1, <2>2, CloseFacts
<1>2. Readiness' /\ version' \in [Sync!Buses -> Nat]
  BY <1>1 DEF SyncInv, SyncTypes, Readiness
<1>3. pump' \in Pumps /\ pump'.pc = "loop" /\ pump'.pc \notin Active
  BY DEF SyncInv, SyncTypes, Pumps, Runs, Active, Making, Sending
<1>4. PumpNumbers'
  BY <1>3 DEF PumpNumbers, Sending
<1> QED  BY <1>1, <1>2, <1>3, <1>4, StepKeeps

LEMMA FailStep == SyncInv /\ (Sync!RunSendFailed \/ Sync!CreateFails) => SyncInv'
<1> SUFFICES ASSUME SyncInv, Sync!RunSendFailed \/ Sync!CreateFails PROVE SyncInv'
  OBVIOUS
<1>1. CASE Sync!RunSendFailed
  <2>1. /\ queue # <<>> /\ Head(queue).kind = "sendFailed" /\ UNCHANGED Sync!Env /\ queue' = Tail(queue)
        /\ s' = Sync!CloseConnection(s, "transport_failure") /\ pump' = [pump EXCEPT !.pc = "loop"]
    BY <1>1 DEF Sync!RunSendFailed, Sync!Runs, Sync!PumpTask
  <2>2. QueueKept /\ QueueShape'
    BY <2>1, QueueLoses DEF PumpTasks
  <2> QED  BY <2>1, <2>2, PumpClosing
<1>2. CASE Sync!CreateFails
  <2>1. /\ queue = <<>> /\ queue' = queue /\ UNCHANGED <<version, reserved, wire, back, dev>>
        /\ s' = Sync!CloseConnection(s, "internal_error") /\ pump' = [pump EXCEPT !.pc = "loop"]
    BY <1>2 DEF Sync!CreateFails, Sync!Settled
  <2>2. QueueKept /\ QueueShape'
    BY <2>1, QueueSame, NoticesShape
  <2> QED  BY <2>1, <2>2, PumpClosing
<1> QED  BY <1>1, <1>2

LEMMA SentStep == SyncInv /\ Sync!RunSent => SyncInv'
<1> SUFFICES ASSUME SyncInv, Sync!RunSent PROVE SyncInv'
  OBVIOUS
<1>1. /\ queue # <<>> /\ Head(queue).kind = "sent" /\ UNCHANGED Sync!Env /\ queue' = Tail(queue)
      /\ pump' = [pump EXCEPT !.pc = "loop"]
  BY DEF Sync!RunSent, Sync!Runs, Sync!PumpTask
<1>2. /\ QueueKept /\ QueueShape' /\ pump.pc = "sent"
      /\ \A i \in DOMAIN queue' : queue'[i].kind \in Notices
      /\ \A u \in Targets : ~Queued("confirm", u)' /\ (Queued("notify", u)' => Queued("notify", u))
  BY <1>1, QueueLoses DEF PumpTasks, Awaits, Own
<1>3. /\ SyncTypes /\ QueueShape /\ NumbersInv /\ PumpNumbers /\ Readiness /\ s \in Coordinators
      /\ pump \in Pumps /\ \A u \in Targets : TargetInv(u)
  BY DEF SyncInv, SyncTypes, NumbersInv
<1>4. PICK t \in Targets : t = pump.target
  BY <1>2, <1>3 DEF SyncTypes, Active, Sending
<1> DEFINE a == s.current[t]
           r == [s EXCEPT !.current[t].inFlight = FALSE, !.current[t].confirmed = TRUE,
                          !.current[t].early = "none",
                          !.current[t].retries = IF pump.retry THEN @ + 1 ELSE @]
<1>5. s' = IF ~Sync!IsPending(s, t, pump.seq) THEN s
           ELSE IF a.early = "none" THEN [r EXCEPT !.current[t].armed = TRUE]
           ELSE Sync!ProcessAck(r, t, a.seq, a.early)
  BY <1>4 DEF Sync!RunSent, Sync!PumpTask
<1>6. pump' \in Pumps /\ pump'.pc = "loop" /\ pump'.pc \notin Active
  BY <1>1, <1>3 DEF Pumps, Runs, Active, Making, Sending
<1>7. PumpNumbers' /\ version' \in [Sync!Buses -> Nat]
  BY <1>1, <1>3, <1>6 DEF PumpNumbers, Sending, SyncTypes
<1>8. \A u \in Targets : u # t => SamePump(u) /\ SameTasks(u)
  BY <1>2, <1>4, <1>6 DEF SamePump, On, QueueKept
<1>9. ASSUME s.phase = "ready", a # Sync!None
      PROVE  /\ a \in Attempts /\ Pending(t) /\ a.seq = pump.seq /\ s.work[t] = "none"
             /\ Sync!IsPending(s, t, pump.seq)
  <2>1. /\ a \in Attempts /\ Pending(t) /\ a.seq = pump.seq /\ s.work[t] = "none"
    BY <1>2, <1>4, <1>9, SendingTarget DEF Sending
  <2> QED  BY <1>9, <2>1 DEF Sync!IsPending
<1>10. CASE ~Sync!IsPending(s, t, pump.seq)
  <2>1. s' = s
    BY <1>5, <1>10
  <2>2. s.phase = "ready" => \A u \in Targets : SamePump(u)
    BY <1>4, <1>6, <1>9, <1>10 DEF SamePump, On
  <2> QED  BY <1>1, <1>2, <1>6, <1>7, <2>1, <2>2, MoveKeeps
<1>11. CASE Sync!IsPending(s, t, pump.seq)
  <2>1. s.phase = "ready" /\ a # Sync!None
    BY <1>11 DEF Sync!IsPending
  <2>2. a \in Attempts /\ Pending(t) /\ a.seq = pump.seq /\ s.work[t] = "none"
    BY <1>9, <2>1
  <2> DEFINE d == [a EXCEPT !.inFlight = FALSE, !.confirmed = TRUE, !.early = "none",
                            !.retries = IF pump.retry THEN a.retries + 1 ELSE a.retries]
             e == [d EXCEPT !.armed = TRUE]
  <2>3. /\ d \in Attempts /\ d.seq = a.seq /\ d.base = a.base /\ d.version = a.version
        /\ d.confirmed /\ ~d.inFlight /\ d.early = "none"
    <3> DEFINE k == IF pump.retry THEN a.retries + 1 ELSE a.retries
    <3>1. k \in Nat
      BY <2>2 DEF Attempts
    <3>2. d = [a EXCEPT !.inFlight = FALSE, !.confirmed = TRUE, !.early = "none", !.retries = k]
      OBVIOUS
    <3> HIDE DEF k, d
    <3>3. d \in Attempts
      BY <2>2, <3>1, <3>2 DEF Attempts
    <3>4. d.seq = a.seq /\ d.base = a.base /\ d.version = a.version
      BY <2>2, <3>2 DEF Attempts
    <3>5. d.confirmed /\ ~d.inFlight /\ d.early = "none"
      BY <2>2, <3>2 DEF Attempts
    <3> QED  BY <3>3, <3>4, <3>5
  <2>4. r = [s EXCEPT !.current = [s.current EXCEPT ![t] = d]]
    <3> DEFINE k == IF pump.retry THEN a.retries + 1 ELSE a.retries
    <3>1. s.current \in [Targets -> Attempts \cup {Sync!None}]
      BY <1>3 DEF Coordinators
    <3> HIDE DEF k
    <3> QED  BY <1>3, <3>1, ZenonT(30) DEF Coordinators
  <2> HIDE DEF d, r
  <2>5. /\ e \in Attempts /\ e.seq = a.seq /\ e.base = a.base /\ e.version = a.version
        /\ e.confirmed /\ ~e.inFlight /\ e.early = "none"
    BY <2>3 DEF Attempts
  <2>6. /\ r \in Coordinators /\ r.phase = s.phase /\ r.base = s.base /\ r.requested = s.requested
        /\ r.ready = s.ready /\ r.timers = s.timers /\ r.handle = s.handle /\ r.epoch = s.epoch
        /\ r.work = s.work /\ r.current = [s.current EXCEPT ![t] = d]
    BY <1>3, <2>3, <2>4 DEF Coordinators
  <2>7. r.current[t] = d /\ \A u \in Targets : u # t => r.current[u] = s.current[u]
    BY <1>3, <2>6 DEF Coordinators
  <2>8. [r EXCEPT !.current[t].armed = TRUE] = [r EXCEPT !.current = [r.current EXCEPT ![t] = e]]
    BY <2>6, <2>7 DEF Coordinators
  <2> DEFINE r2 == [r EXCEPT !.current = [r.current EXCEPT ![t] = e]]
  <2> HIDE DEF e
  <2>9. /\ r2 \in Coordinators /\ r2.phase = s.phase /\ r2.base = s.base /\ r2.requested = s.requested
        /\ r2.ready = s.ready /\ r2.timers = s.timers /\ r2.handle = s.handle /\ r2.epoch = s.epoch
        /\ r2.work = s.work /\ r2.current = [r.current EXCEPT ![t] = e]
    BY <2>5, <2>6 DEF Coordinators
  <2>10. r2.current[t] = e /\ \A u \in Targets : u # t => r2.current[u] = s.current[u]
    BY <2>6, <2>7, <2>9 DEF Coordinators
  <2> HIDE DEF r2
  <2>11. /\ ~On(t, Active)' /\ UNCHANGED <<version, reserved, wire, dev>>
         /\ \A i \in DOMAIN queue' : queue'[i].kind \notin Alone
         /\ Queued("notify", t)' => Queued("notify", t)
    BY <1>1, <1>2, <1>6, KindFacts DEF On
  <2>12. CASE a.early = "none"
    <3>1. s' = r2
      BY <1>5, <1>11, <2>8, <2>12 DEF r2
    <3>2. s' \in Coordinators /\ BasesInv' /\ Readiness' /\ \A u \in Targets : TargetInv(u)'
      BY <1>8, <2>1, <2>2, <2>5, <2>9, <2>10, <2>11, <3>1, Answered
    <3> QED  BY <1>1, <1>2, <1>6, <1>7, <3>2, StepKeeps
  <2>13. CASE a.early # "none"
    <3>1. s' = Sync!ProcessAck(r, t, a.seq, a.early)
      BY <1>5, <1>11, <2>13
    <3>2. a.early \in {"applied", "error"} /\ a.early \in {"applied", "error", "foreign"} /\ a.seq \in Nat
      BY <2>2, <2>13 DEF Attempts
    <3>3. a.early = "applied" => dev[t].seq = d.seq
      BY <2>2, <2>3 DEF Pending
    <3>4. \/ s' = r
          \/ s' = Sync!CloseConnection(r, "protocol_violation")
          \/ s' = Sync!RetryOrClose(r, t)
          \/ a.early = "applied" /\ Sync!IsCurrent(t, d) /\ s' = Sync!AdvanceBase(r, t)
          \/ s' = Sync!InvalidateCurrent(r, t)
      BY <2>3, <2>6, <2>7, <3>1, <3>2, AckCases
    <3>5. CASE s' = Sync!CloseConnection(r, "protocol_violation")
      <4>1. /\ s' \in Coordinators /\ s'.phase = "closed" /\ s'.requested = Targets /\ s'.ready = {}
            /\ s'.base = r.base
        BY <2>1, <2>6, <3>5, CloseFacts DEF Reasons
      <4>2. Readiness'
        BY <4>1 DEF Readiness
      <4> QED  BY <1>1, <1>2, <1>6, <1>7, <2>6, <4>1, <4>2, StepKeeps
    <3>6. CASE s' # Sync!CloseConnection(r, "protocol_violation")
      <4>1. s' \in Coordinators /\ BasesInv' /\ Readiness' /\ \A u \in Targets : TargetInv(u)'
        BY <1>8, <2>1, <2>2, <2>3, <2>6, <2>7, <2>11, <3>3, <3>4, <3>6, Answered
      <4> QED  BY <1>1, <1>2, <1>6, <1>7, <4>1, StepKeeps
    <3> QED  BY <3>5, <3>6
  <2> QED  BY <2>12, <2>13
<1> QED  BY <1>10, <1>11

------------------------------------------------------------------------------
(* The environment *)

LEMMA ChangeTasks ==
  ASSUME NEW A \in SUBSET Sync!Buses
  PROVE  LET o == Sync!InOrder(A)
             q == [i \in 1 .. Len(o) |-> Sync!Task("notify", o[i], 0)] IN
         q \in Seq(Tasks) /\ \A i \in DOMAIN q : q[i].kind = "notify" /\ q[i].target \in A
<1> DEFINE o == Sync!InOrder(A)
           q == [i \in 1 .. Len(o) |-> Sync!Task("notify", o[i], 0)]
<1>1. o \in Seq(Sync!Buses) /\ \A i \in 1 .. Len(o) : o[i] \in A
  <2>1. CASE "preview" \in A /\ "program" \in A
    <3>1. o = <<"preview">> \o <<"program">>
      BY <2>1 DEF Sync!InOrder
    <3>2. Len(o) = 2 /\ o[1] = "preview" /\ o[2] = "program" /\ o \in Seq(Sync!Buses)
      BY <3>1 DEF Sync!Buses
    <3> HIDE DEF o
    <3> QED  BY <2>1, <3>2
  <2>2. CASE "preview" \in A /\ "program" \notin A
    <3>1. o = <<"preview">>
      BY <2>2 DEF Sync!InOrder
    <3> QED  BY <2>2, <3>1 DEF Sync!Buses
  <2>3. CASE "preview" \notin A /\ "program" \in A
    <3>1. o = <<"program">>
      BY <2>3 DEF Sync!InOrder
    <3> QED  BY <2>3, <3>1 DEF Sync!Buses
  <2>4. CASE "preview" \notin A /\ "program" \notin A
    <3>1. o = <<>>
      BY <2>4 DEF Sync!InOrder
    <3> QED  BY <3>1
  <2> QED  BY <2>1, <2>2, <2>3, <2>4
<1> HIDE DEF o
<1>2. \A i \in 1 .. Len(o) : o[i] \in Sync!Buses /\ Sync!Task("notify", o[i], 0) \in Tasks
         /\ Sync!Task("notify", o[i], 0).kind = "notify" /\ Sync!Task("notify", o[i], 0).target = o[i]
  BY <1>1, TaskType DEF Notices
<1>3. q \in Seq(Tasks) /\ DOMAIN q = 1 .. Len(o)
  BY <1>1, <1>2
<1> QED  BY <1>1, <1>2, <1>3 DEF o

LEMMA ConcatFacts ==
  ASSUME NEW S, NEW q \in Seq(S), NEW r \in Seq(S)
  PROVE  /\ q \o r \in Seq(S)
         /\ \A i \in DOMAIN q : i \in DOMAIN (q \o r) /\ (q \o r)[i] = q[i]
         /\ \A i \in DOMAIN (q \o r) : \/ i \in DOMAIN q /\ (q \o r)[i] = q[i]
                                       \/ \E j \in DOMAIN r : (q \o r)[i] = r[j]
<1>1. q \o r \in Seq(S) /\ Len(q \o r) = Len(q) + Len(r)
  OBVIOUS
<1>2. \A i \in 1 .. Len(q) + Len(r) : (q \o r)[i] = IF i <= Len(q) THEN q[i] ELSE r[i - Len(q)]
  OBVIOUS
<1>3. DOMAIN q = 1 .. Len(q) /\ DOMAIN r = 1 .. Len(r) /\ Len(q) \in Nat /\ Len(r) \in Nat
      /\ DOMAIN (q \o r) = 1 .. Len(q) + Len(r)
  BY <1>1
<1>4. ASSUME NEW i \in DOMAIN (q \o r), i \notin DOMAIN q
      PROVE  \E j \in DOMAIN r : (q \o r)[i] = r[j]
  <2>1. i - Len(q) \in DOMAIN r /\ (q \o r)[i] = r[i - Len(q)]
    BY <1>2, <1>3, <1>4
  <2> QED  BY <2>1
<1>5. \A i \in DOMAIN q : i \in DOMAIN (q \o r) /\ (q \o r)[i] = q[i]
  BY <1>2, <1>3
<1> QED  BY <1>1, <1>4, <1>5

LEMMA ChangesStep ==
  ASSUME SyncInv, NEW b0 \in Sync!Buses, NEW c \in BOOLEAN, Sync!ProductionChanges(b0, c)
  PROVE  SyncInv'
<1> DEFINE A == Sync!Affected(b0, c)
           o == Sync!InOrder(A)
           news == IF A \subseteq Targets THEN [i \in 1 .. Len(o) |-> Sync!Task("notify", o[i], 0)]
                   ELSE <<Sync!Task("abort", b0, 0)>>
<1>1. /\ SyncTypes /\ QueueShape /\ NumbersInv /\ PumpNumbers /\ Readiness /\ s \in Coordinators
      /\ pump \in Pumps /\ \A u \in Targets : TargetInv(u)
  BY DEF SyncInv, SyncTypes, NumbersInv
<1>2. /\ UNCHANGED <<pump, reserved, wire, back, dev>>
      /\ version' = [u \in Sync!Buses |-> IF u \in A \cup {b0} THEN version[u] + 1 ELSE version[u]]
      /\ s' = [s EXCEPT !.requested = s.requested \cup (A \cap Targets), !.ready = s.ready \ A]
      /\ queue' = queue \o news
  BY DEF Sync!ProductionChanges
<1>3. A \in SUBSET Sync!Buses /\ (A \cup {b0}) \cap Targets \subseteq A
  BY DeviceSessionAssumption DEF Sync!Affected, Sync!SyncAssumption
<1> HIDE DEF A
<1>4. /\ news \in Seq(Tasks)
      /\ \A i \in DOMAIN news : news[i].kind \in {"notify", "abort"}
           /\ (news[i].kind = "notify" => news[i].target \in A /\ A \subseteq Targets)
  <2>1. CASE A \subseteq Targets
    BY <1>3, <2>1, ChangeTasks
  <2>2. CASE ~(A \subseteq Targets)
    <3>1. Sync!Task("abort", b0, 0) \in Tasks /\ Sync!Task("abort", b0, 0).kind = "abort"
      BY TaskType DEF Notices
    <3>2. news = <<Sync!Task("abort", b0, 0)>>
      BY <2>2
    <3> HIDE DEF news
    <3> QED  BY <3>1, <3>2
  <2> QED  BY <2>1, <2>2
<1> HIDE DEF news
<1>5. queue \in Seq(Tasks)
  BY <1>1 DEF SyncTypes
<1>6. /\ queue' \in Seq(Tasks)
      /\ \A i \in DOMAIN queue : i \in DOMAIN queue' /\ queue'[i] = queue[i]
      /\ \A i \in DOMAIN queue' : \/ i \in DOMAIN queue /\ queue'[i] = queue[i]
                                  \/ \E j \in DOMAIN news : queue'[i] = news[j]
  BY <1>2, <1>4, <1>5, ConcatFacts
<1>7. \A i \in DOMAIN queue' : queue'[i].kind \in Notices \/ (i \in DOMAIN queue /\ queue'[i] = queue[i])
  BY <1>4, <1>6 DEF Notices
<1>8. QueueShape'
  <2>1. \A i \in DOMAIN queue' :
          \/ queue'[i].kind \in Notices
          \/ queue'[i].kind \in Outside /\ pump'.pc \in Waits
          \/ queue'[i].kind \in Answers \cup {"pick"} /\ pump'.pc = "pick"
          \/ queue'[i].kind \in Own(pump'.pc) /\ pump'.pc \in Awaits
    BY <1>1, <1>2, <1>7 DEF QueueShape
  <2>2. \A i \in DOMAIN queue' : queue'[i].kind \in Alone => i = 1
    BY <1>1, <1>7, KindFacts DEF QueueShape
  <2>3. \A i, j \in DOMAIN queue' :
          queue'[i].kind \in PumpTasks /\ queue'[j].kind \in PumpTasks \cup Answers => j <= i
    BY <1>1, <1>7, KindFacts DEF QueueShape
  <2> QED  BY <2>1, <2>2, <2>3 DEF QueueShape
<1>9. /\ s' \in Coordinators /\ s'.phase = s.phase /\ s'.base = s.base
      /\ s'.requested = s.requested \cup (A \cap Targets) /\ s'.ready = s.ready \ A
      /\ s'.timers = s.timers /\ s'.handle = s.handle /\ s'.epoch = s.epoch /\ s'.work = s.work
      /\ s'.current = s.current
  BY <1>1, <1>2 DEF Coordinators
<1>10. QueueKept
  <2>1. Acknowledged(queue)'
    BY <1>1, <1>2, <1>7 DEF Acknowledged, NumbersInv, Notices
  <2>2. \A i \in DOMAIN queue' : queue'[i].kind \notin PumpTasks \cup {"abort", "dispose"} =>
          queue'[i].target \in Targets
    BY <1>1, <1>4, <1>6, <1>7 DEF SyncTypes, Notices
  <2>3. ASSUME NEW u \in Targets PROVE SameTasks(u)
    <3>1. Queued("notify", u)' => Queued("notify", u) \/ u \in A
      BY <1>4, <1>6 DEF Queued
    <3>2. u \in A => u \in s'.requested /\ version[u] < version'[u]
      <4>1. u \in Sync!Buses /\ version[u] \in Nat
        BY <1>1, DeviceSessionAssumption DEF SyncTypes, Sync!SyncAssumption
      <4> QED  BY <1>2, <1>9, <4>1
    <3>3. Queued("confirm", u)' => Queued("confirm", u)
      BY <1>7 DEF Queued, Notices
    <3>4. \A i \in DOMAIN queue' : queue'[i].kind = "timeout" /\ queue'[i].target = u =>
             \E k \in DOMAIN queue : queue[k] = queue'[i]
      BY <1>7 DEF Notices
    <3> QED  BY <3>1, <3>2, <3>3, <3>4 DEF SameTasks
  <2> QED  BY <1>6, <2>1, <2>2, <2>3 DEF QueueKept
<1>11. Readiness' /\ PumpNumbers' /\ version' \in [Sync!Buses -> Nat]
  BY <1>1, <1>2, <1>9 DEF Readiness, PumpNumbers, SyncTypes
<1>12. \A u \in Targets : Still(u) /\ SamePump(u)
  <2> SUFFICES ASSUME NEW u \in Targets PROVE Still(u) /\ SamePump(u)
    OBVIOUS
  <2>1. u \notin s'.requested => u \notin s.requested /\ version'[u] = version[u]
    BY <1>2, <1>3, <1>9, DeviceSessionAssumption DEF Sync!SyncAssumption
  <2>2. version'[u] = version[u] \/ version[u] < version'[u]
    <3>1. u \in Sync!Buses /\ version[u] \in Nat
      BY <1>1, DeviceSessionAssumption DEF SyncTypes, Sync!SyncAssumption
    <3> QED  BY <1>2, <3>1
  <2> QED  BY <1>2, <1>9, <2>1, <2>2 DEF Still, SamePump
<1>13. s'.phase = "ready" =>
         \A u \in Targets : TargetInv(u)' \/ (Still(u) /\ SamePump(u) /\ s.phase = "ready")
  BY <1>9, <1>12
<1>14. pump' \in Pumps /\ (pump'.pc \in Active => pump'.target \in Targets)
  BY <1>1, <1>2 DEF SyncTypes
<1> QED  BY <1>2, <1>8, <1>9, <1>10, <1>11, <1>13, <1>14, StepKeeps

(* The pump waits, and the queue does not change. *)
LEMMA QuietSteps == SyncInv /\ (Sync!RotateIssuer \/ Sync!Recapture) => SyncInv'
<1> SUFFICES ASSUME SyncInv, Sync!RotateIssuer \/ Sync!Recapture PROVE SyncInv'
  OBVIOUS
<1>1. /\ SyncTypes /\ QueueShape /\ PumpNumbers /\ pump \in Pumps
  BY DEF SyncInv, SyncTypes, NumbersInv
<1>2. /\ s' = s /\ UNCHANGED <<version, reserved, wire, back, dev>> /\ queue' = queue
      /\ \/ pump' = pump
         \/ pump.pc = "creating" /\ pump' = [pump EXCEPT !.version = version[pump.target]]
  BY DEF Sync!RotateIssuer, Sync!Recapture, Sync!At
<1>3. /\ pump' \in Pumps /\ pump'.pc = pump.pc /\ pump'.target = pump.target /\ pump'.epoch = pump.epoch
      /\ pump'.seq = pump.seq /\ pump'.base = pump.base
  <2>1. pump.pc = "creating" => version[pump.target] \in Nat
    BY <1>1 DEF SyncTypes, Pumps
  <2> QED  BY <1>1, <1>2, <2>1 DEF Pumps
<1>4. QueueShape' /\ PumpNumbers'
  BY <1>1, <1>2, <1>3 DEF QueueShape, PumpNumbers
<1>5. ASSUME NEW u \in Targets PROVE SamePump(u)
  <2>1. CASE pump' = pump
    BY <2>1 DEF SamePump
  <2>2. CASE pump' # pump /\ pump.target = u
    <3>1. pump'.version = version'[u] /\ pump.pc = "creating" /\ pump'.pc = "creating"
      BY <1>1, <1>2, <1>3, <2>2 DEF Pumps
    <3> QED  BY <1>3, <2>2, <3>1 DEF SamePump, On, Making
  <2>3. CASE pump' # pump /\ pump.target # u
    BY <1>3, <2>3 DEF SamePump, On
  <2> QED  BY <2>1, <2>2, <2>3
<1>6. QueueKept /\ (pump'.pc \in Active => pump'.target \in Targets)
  BY <1>1, <1>2, <1>3, QueueSame DEF SyncTypes
<1> QED  BY <1>2, <1>3, <1>4, <1>5, <1>6, MoveKeeps

LEMMA TransmitStep == SyncInv /\ Sync!Transmit => SyncInv'
<1> SUFFICES ASSUME SyncInv, Sync!Transmit PROVE SyncInv'
  OBVIOUS
<1> DEFINE f == [target |-> pump.target, seq |-> pump.seq, base |-> pump.base, version |-> pump.version]
<1>1. /\ SyncTypes /\ QueueShape /\ NumbersInv /\ PumpNumbers /\ Readiness /\ pump \in Pumps
      /\ \A u \in Targets : TargetInv(u)
  BY DEF SyncInv, SyncTypes, NumbersInv
<1>2. /\ pump.pc = "transmit" /\ queue = <<>> /\ wire' = Append(wire, f)
      /\ pump' = [pump EXCEPT !.pc = "sending"]
      /\ UNCHANGED <<version, s, queue, reserved, back, dev>>
  BY DEF Sync!Transmit, Sync!At, Sync!Settled
<1>3. PICK t \in Targets : t = pump.target
  BY <1>1, <1>2 DEF SyncTypes, Active, Sending
<1>4. f \in Sent /\ f.target = t /\ f.seq = pump.seq /\ f.base = pump.base /\ f.version = pump.version
  BY <1>1, <1>3 DEF Sent, Pumps
<1> HIDE DEF f
<1>5. wire \in Seq(Sent)
  BY <1>1 DEF SyncTypes
<1>6. /\ wire' \in Seq(Sent)
      /\ \A i \in DOMAIN wire' : (i \in DOMAIN wire /\ wire'[i] = wire[i]) \/ wire'[i] = f
  <2>1. /\ Append(wire, f) \in Seq(Sent)
        /\ \A i \in DOMAIN wire : Append(wire, f)[i] = wire[i]
        /\ \A i \in DOMAIN Append(wire, f) : i \in DOMAIN wire \/ Append(wire, f)[i] = f
    BY <1>4, <1>5, AppendFacts
  <2> QED  BY <1>2, <2>1
<1>7. /\ pump' \in Pumps /\ pump'.pc = "sending" /\ pump'.target = t /\ pump'.seq = pump.seq
      /\ pump'.version = pump.version /\ pump'.base = pump.base
  BY <1>1, <1>2, <1>3 DEF Pumps, Waits
<1>8. pump.base < pump.seq /\ pump.seq <= reserved
  BY <1>1, <1>2 DEF PumpNumbers, Sending
<1>9. SyncTypes'
  <2>1. pump'.pc \in Active => pump'.target \in Targets
    BY <1>7
  <2> QED  BY <1>1, <1>2, <1>6, <1>7, <2>1 DEF SyncTypes
<1>10. NumbersInv'
  <2>1. PumpNumbers'
    BY <1>2, <1>7, <1>8 DEF PumpNumbers, Sending
  <2>2. \A i \in DOMAIN wire' : wire'[i].base < wire'[i].seq /\ wire'[i].seq <= reserved'
    BY <1>1, <1>2, <1>4, <1>6, <1>8 DEF NumbersInv
  <2>3. BasesInv' /\ Acknowledged(back)' /\ Acknowledged(queue)'
        /\ \A u \in Targets : dev'[u].seq <= reserved'
    BY <1>1, <1>2 DEF NumbersInv, BasesInv, Acknowledged
  <2> QED  BY <2>1, <2>2, <2>3 DEF NumbersInv
<1>11. QueueShape' /\ Readiness'
  BY <1>1, <1>2, NoticesShape DEF Readiness
<1>12. \A u \in Targets : SameTasks(u) /\ SamePump(u) /\ Still(u)
  BY <1>2, <1>3, <1>7 DEF SameTasks, Queued, SamePump, On, Still
<1>13. ASSUME NEW u \in Targets, u # t PROVE TargetInv(u)'
  <2>1. SameWire(u)
    BY <1>4, <1>6, <1>13 DEF SameWire
  <2>2. /\ dev'[u] = dev[u] /\ reserved' \in Nat /\ reserved <= reserved'
        /\ version' \in [Sync!Buses -> Nat]
    BY <1>1, <1>2 DEF SyncTypes
  <2> QED  BY <1>1, <1>2, <1>12, <2>1, <2>2, TargetKept
<1>14. ASSUME s.phase = "ready" PROVE TargetInv(t)'
  <2>1. /\ t \in s.requested
        /\ s.current[t] # Sync!None =>
             /\ Stage(t) /\ Pending(t) /\ Same(t) /\ s.work[t] = "none" /\ ~s.current[t].confirmed
             /\ ~s.current[t].armed /\ s.current[t].inFlight
    BY <1>2, <1>3, <1>14, SendingTarget DEF Sending
  <2>2. ASSUME s.current[t] # Sync!None PROVE Stage(t)' /\ Pending(t)'
    <3>1. Stage(t)'
      BY <1>2, <1>7, <2>1, <2>2 DEF Stage, On, Same
    <3>2. \A i \in DOMAIN wire' : wire'[i].target = t =>
            wire'[i].seq <= s.current[t].seq
            /\ (wire'[i].seq = s.current[t].seq => wire'[i].version = s.current[t].version)
      <4>1. f.seq = s.current[t].seq /\ f.version = s.current[t].version
        BY <1>4, <2>1, <2>2 DEF Same
      <4>2. f.seq <= s.current[t].seq
        BY <4>1, <1>1, <1>4, NumberTypes
      <4>3. \A i \in DOMAIN wire : wire[i].target = t =>
              wire[i].seq <= s.current[t].seq
              /\ (wire[i].seq = s.current[t].seq => wire[i].version = s.current[t].version)
        BY <2>1, <2>2 DEF Pending
      <4> QED  BY <1>6, <4>1, <4>2, <4>3
    <3>3. Pending(t)'
      BY <1>2, <2>1, <2>2, <3>2 DEF Pending
    <3> QED  BY <3>1, <3>3
  <2>3. ASSUME s.current[t] = Sync!None PROVE s.work[t] # "resend"
    BY <1>1, <1>14, <2>3 DEF TargetInv
  <2>4. ~On(t, {"resend", "enter"})' /\ ~On(t, Making)'
    BY <1>7 DEF On, Making
  <2>5. \A k \in Nat : <<t, k>> \notin s.timers
    BY <1>1, <1>2, <1>3, <1>14 DEF TargetInv, Timers, Working, On, Active, Sending
  <2>6. ~Queued("confirm", t)'
    BY <1>2 DEF Queued
  <2>7. Fresh(t)' /\ Timers(t)'
    BY <1>2, <2>4, <2>5, <2>6 DEF Fresh, Timers, On, Making
  <2>8. Versions(t)'
    <3>1. ~On(t, Making \ {"create"})' /\ ~On(t, {"created", "commit"})'
      BY <2>4 DEF On, Making
    <3>2. Versions(t) /\ (Queued("notify", t)' => Queued("notify", t))
      BY <1>1, <1>2, <1>14 DEF TargetInv, Queued
    <3> QED  BY <1>2, <3>1, <3>2 DEF Versions
  <2> QED  BY <1>2, <2>1, <2>2, <2>3, <2>4, <2>7, <2>8 DEF TargetInv
<1>15. ASSUME s.phase # "ready" PROVE TargetInv(t)'
  BY <1>2, <1>15 DEF TargetInv
<1> QED  BY <1>9, <1>10, <1>11, <1>13, <1>14, <1>15 DEF SyncInv

(* A task arrives from outside while the pump waits: an answer behind those  *)
(* of the same packet, anything else at an empty queue.                      *)
LEMMA ArrivalFacts ==
  ASSUME SyncInv, \A i \in DOMAIN queue : queue[i].kind \in Answers, Sync!Waiting,
         NEW e \in Tasks, e.kind \in Outside, e.kind \in Alone => queue = <<>>,
         e.kind # "dispose" => e.target \in Targets,
         e.kind = "applied" => e.n <= dev[e.target].seq,
         queue' = Append(queue, e), UNCHANGED <<pump, dev>>
  PROVE  /\ queue' \in Seq(Tasks) /\ QueueShape' /\ Acknowledged(queue)'
         /\ queue = <<>> => DOMAIN queue' = {1} /\ queue'[1] = e
         /\ \A i \in DOMAIN queue' : queue'[i].kind \notin PumpTasks \cup {"abort", "dispose"} =>
              queue'[i].target \in Targets
         /\ \A u \in Targets :
              /\ e.kind \notin {"confirm", "timeout"} \/ e.target # u => SameTasks(u)
              /\ SamePump(u) /\ ~Queued("notify", u)' /\ ~Queued("notify", u)
<1>0. queue \in Seq(Tasks) /\ SyncTypes /\ Acknowledged(queue)
  BY DEF SyncInv, SyncTypes, NumbersInv
<1>1. /\ queue' \in Seq(Tasks)
      /\ \A i \in DOMAIN queue' : \/ i \in DOMAIN queue /\ queue'[i] = queue[i]
                                  \/ i = Len(queue) + 1 /\ queue'[i] = e
  <2>1. /\ Append(queue, e) \in Seq(Tasks)
        /\ \A i \in DOMAIN queue : Append(queue, e)[i] = queue[i]
        /\ \A i \in DOMAIN Append(queue, e) : i \in DOMAIN queue \/ (i = Len(queue) + 1 /\ Append(queue, e)[i] = e)
    BY <1>0, AppendFacts
  <2> QED  BY <2>1
<1>2. queue = <<>> => Len(queue) = 0 /\ DOMAIN queue' = {1} /\ queue'[1] = e
  OBVIOUS
<1>3. pump'.pc \in Waits
  BY DEF Sync!Waiting, Sync!At, Waits
<1>4. QueueShape'
  <2>1. \A i \in DOMAIN queue' : queue'[i].kind \in Outside
    BY <1>1, KindFacts
  <2>2. ASSUME NEW i \in DOMAIN queue', queue'[i].kind \in Alone PROVE i = 1
    <3>1. queue'[i] = e
      BY <1>1, <2>2, KindFacts
    <3> QED  BY <1>2, <2>2, <3>1
  <2> QED  BY <1>3, <2>1, <2>2, KindFacts DEF QueueShape
<1>5. Acknowledged(queue)'
  BY <1>0, <1>1 DEF Acknowledged
<1>6. \A u \in Targets : ~Queued("notify", u)' /\ ~Queued("notify", u)
  BY <1>1, KindFacts DEF Queued, Notices
<1>7. \A u \in Targets : (e.kind \notin {"confirm", "timeout"} \/ e.target # u) => SameTasks(u)
  BY <1>1, <1>6 DEF SameTasks, Queued, Answers
<1>8. \A u \in Targets : SamePump(u)
  BY DEF SamePump
<1>9. \A i \in DOMAIN queue' : queue'[i].kind \notin PumpTasks \cup {"abort", "dispose"} =>
         queue'[i].target \in Targets
  BY <1>0, <1>1 DEF SyncTypes
<1> QED  BY <1>1, <1>2, <1>4, <1>5, <1>6, <1>7, <1>8, <1>9

LEMMA ConfirmationStep ==
  ASSUME SyncInv, NEW p \in s.timers, Sync!ConfirmationFires(p) PROVE SyncInv'
<1>1. /\ SyncTypes /\ QueueShape /\ NumbersInv /\ PumpNumbers /\ Readiness /\ s \in Coordinators
      /\ pump \in Pumps /\ \A u \in Targets : TargetInv(u)
  BY DEF SyncInv, SyncTypes, NumbersInv
<1>2. PICK t \in Targets, k \in Nat : p = <<t, k>>
  BY <1>1 DEF Coordinators
<1> DEFINE e == Sync!Task("confirm", t, k)
<1>3. /\ queue = <<>> /\ Sync!Waiting /\ s' = [s EXCEPT !.timers = s.timers \ {p}]
      /\ queue' = Append(queue, e) /\ UNCHANGED <<version, pump, reserved, wire, back, dev>>
  BY <1>2 DEF Sync!ConfirmationFires, Sync!Settled
<1>4. e \in Tasks /\ e.kind = "confirm" /\ e.target = t /\ e.kind \in Outside
  <2>1. t \in Sync!Buses /\ "confirm" \in Outside
    BY DeviceSessionAssumption DEF Outside, Alone, Sync!SyncAssumption
  <2> QED  BY <2>1, TaskType
<1> HIDE DEF e
<1>5. /\ queue' \in Seq(Tasks) /\ QueueShape' /\ Acknowledged(queue)' /\ DOMAIN queue' = {1} /\ queue'[1] = e
      /\ \A i \in DOMAIN queue' : queue'[i].kind \notin PumpTasks \cup {"abort", "dispose"} =>
           queue'[i].target \in Targets
      /\ \A u \in Targets : /\ u # t => SameTasks(u)
                            /\ SamePump(u) /\ ~Queued("notify", u)' /\ ~Queued("notify", u)
  BY <1>3, <1>4, ArrivalFacts
<1>6. /\ s' \in Coordinators /\ s'.phase = s.phase /\ s'.base = s.base /\ s'.requested = s.requested
      /\ s'.ready = s.ready /\ s'.handle = s.handle /\ s'.epoch = s.epoch /\ s'.work = s.work
      /\ s'.current = s.current /\ s'.timers = s.timers \ {<<t, k>>}
      /\ version' \in [Sync!Buses -> Nat]
  BY <1>1, <1>2, <1>3 DEF Coordinators, SyncTypes
<1>7. SyncTypes'
  BY <1>1, <1>3, <1>5, <1>6 DEF SyncTypes
<1>8. NumbersInv' /\ Readiness'
  <2>1. PumpNumbers'
    BY <1>1, <1>3 DEF PumpNumbers
  <2> QED  BY <1>1, <1>3, <1>5, <1>6, <2>1, NumbersKept DEF Readiness
<1>9. ASSUME NEW u \in Targets, u # t PROVE TargetInv(u)'
  <2>1. Still(u)
    BY <1>3, <1>6 DEF Still
  <2> QED  BY <1>3, <1>5, <1>6, <1>9, <2>1, Others
<1>10. ASSUME s.phase = "ready" PROVE TargetInv(t)'
  <2>1. ~Working(t) /\ k = s.handle[t] /\ \A j \in Nat : <<t, j>> \in s.timers => j = k
    BY <1>1, <1>2, <1>5, <1>10 DEF TargetInv, Timers
  <2>2. \A j \in Nat : <<t, j>> \notin s'.timers
    BY <1>6, <2>1
  <2>3. ~Working(t)' /\ s'.current[t] = Sync!None /\ ~On(t, Active)' /\ s'.work[t] = "none"
    BY <1>3, <1>6, <2>1 DEF Working, On
  <2>4. Fresh(t)' /\ Timers(t)'
    BY <2>2, <2>3 DEF Fresh, Timers, On, Active, Making
  <2>5. t \notin s.requested => Current(t)'
    BY <1>1, <1>3, <1>5, <1>6, <1>10, <2>3 DEF TargetInv, Current
  <2>6. Versions(t)'
    <3>1. ~On(t, Making \ {"create"})'
      BY <2>3 DEF On, Active, Making
    <3>2. Versions(t) /\ ~Queued("notify", t)'
      BY <1>1, <1>5, <1>10 DEF TargetInv
    <3> QED  BY <1>3, <2>3, <3>1, <3>2, VersionsKept
  <2> QED  BY <1>6, <2>3, <2>4, <2>5, <2>6 DEF TargetInv, On, Active, Sending
<1>11. ASSUME s.phase # "ready" PROVE TargetInv(t)'
  BY <1>6, <1>11 DEF TargetInv
<1> QED  BY <1>5, <1>7, <1>8, <1>9, <1>10, <1>11 DEF SyncInv

LEMMA TimeoutFiresStep ==
  ASSUME SyncInv, NEW t \in Targets, Sync!TimeoutFires(t) PROVE SyncInv'
<1> DEFINE a == s.current[t]
           d == [a EXCEPT !.armed = FALSE]
           e == Sync!Task("timeout", t, a.seq)
<1>1. /\ SyncTypes /\ QueueShape /\ NumbersInv /\ PumpNumbers /\ Readiness /\ s \in Coordinators
      /\ pump \in Pumps /\ \A u \in Targets : TargetInv(u)
  BY DEF SyncInv, SyncTypes, NumbersInv
<1>2. /\ queue = <<>> /\ Sync!Waiting /\ a # Sync!None /\ a.armed
      /\ s' = [s EXCEPT !.current[t].armed = FALSE]
      /\ queue' = Append(queue, e) /\ UNCHANGED <<version, pump, reserved, wire, back, dev>>
  BY DEF Sync!TimeoutFires, Sync!Settled
<1>3. a \in Attempts
  BY <1>1, <1>2, SomeAttempt
<1>4. e \in Tasks /\ e.kind = "timeout" /\ e.target = t /\ e.kind \in Outside /\ e.n = a.seq
  <2>1. t \in Sync!Buses /\ "timeout" \in Outside /\ a.seq \in Nat
    BY <1>3, DeviceSessionAssumption DEF Outside, Alone, Sync!SyncAssumption, Attempts
  <2> QED  BY <2>1, TaskType
<1>5. /\ d \in Attempts /\ d.seq = a.seq /\ d.base = a.base /\ d.version = a.version /\ d.early = a.early
      /\ d.confirmed = a.confirmed /\ d.inFlight = a.inFlight /\ ~d.armed
  BY <1>3 DEF Attempts
<1>6. s' = [s EXCEPT !.current = [s.current EXCEPT ![t] = d]]
  BY <1>1, <1>2 DEF Coordinators
<1> HIDE DEF d, e
<1>7. /\ queue' \in Seq(Tasks) /\ QueueShape' /\ Acknowledged(queue)' /\ DOMAIN queue' = {1} /\ queue'[1] = e
      /\ \A i \in DOMAIN queue' : queue'[i].kind \notin PumpTasks \cup {"abort", "dispose"} =>
           queue'[i].target \in Targets
      /\ \A u \in Targets : /\ u # t => SameTasks(u)
                            /\ SamePump(u) /\ ~Queued("notify", u)' /\ ~Queued("notify", u)
  BY <1>2, <1>4, ArrivalFacts
<1>8. /\ s' \in Coordinators /\ s'.phase = s.phase /\ s'.base = s.base /\ s'.requested = s.requested
      /\ s'.ready = s.ready /\ s'.handle = s.handle /\ s'.epoch = s.epoch /\ s'.work = s.work
      /\ s'.timers = s.timers /\ s'.current = [s.current EXCEPT ![t] = d]
  BY <1>1, <1>5, <1>6 DEF Coordinators
<1>v. version' \in [Sync!Buses -> Nat]
  BY <1>1, <1>2 DEF SyncTypes
<1>9. s'.current[t] = d /\ \A u \in Targets : u # t => s'.current[u] = s.current[u]
  BY <1>1, <1>8 DEF Coordinators
<1>10. SyncTypes'
  BY <1>1, <1>2, <1>7, <1>8 DEF SyncTypes
<1>11. NumbersInv' /\ Readiness'
  <2>1. PumpNumbers'
    BY <1>1, <1>2 DEF PumpNumbers
  <2> QED  BY <1>1, <1>2, <1>7, <1>8, <2>1, NumbersKept DEF Readiness
<1>12. ASSUME NEW u \in Targets, u # t PROVE TargetInv(u)'
  <2>1. Still(u)
    BY <1>2, <1>8, <1>9, <1>12 DEF Still
  <2> QED  BY <1>2, <1>7, <1>8, <1>12, <1>v, <2>1, Others
<1>13. ASSUME s.phase = "ready" PROVE TargetInv(t)'
  <2>1. Stage(t) /\ Pending(t)
    BY <1>1, <1>2, <1>13 DEF TargetInv
  <2>2. a.confirmed /\ ~a.inFlight /\ s.work[t] = "none" /\ ~On(t, Active)
    BY <1>2, <2>1 DEF Stage
  <2>3. ~On(t, Active)'
    BY <1>2, <2>2 DEF On
  <2>4. Stage(t)'
    BY <1>5, <1>8, <1>9, <2>2, <2>3 DEF Stage
  <2>5. Pending(t)'
    BY <1>2, <1>5, <1>9, <2>1, <2>2 DEF Pending
  <2>6. \A k \in Nat : <<t, k>> \notin s.timers
    BY <1>1, <1>2, <1>7, <1>13 DEF TargetInv, Timers, Working
  <2>7. t \in s.requested
    BY <1>1, <1>2, <1>13 DEF TargetInv, Current, Working
  <2>8. ~Queued("confirm", t)'
    BY <1>4, <1>7 DEF Queued
  <2>9. Fresh(t)' /\ Timers(t)'
    BY <1>8, <2>3, <2>6, <2>8 DEF Fresh, Timers, On, Active, Making
  <2>10. s'.current[t] # Sync!None
    BY <1>5, <1>9, NotNone
  <2>11. Versions(t)'
    <3>1. ~On(t, Making \ {"create"})'
      BY <2>3 DEF On, Active, Making
    <3>2. Versions(t) /\ ~Queued("notify", t)' /\ s'.current[t].version = s.current[t].version
      BY <1>1, <1>5, <1>7, <1>9, <1>13 DEF TargetInv
    <3> QED  BY <1>2, <3>1, <3>2, VersionsKept
  <2> QED  BY <1>8, <2>4, <2>5, <2>7, <2>9, <2>10, <2>11 DEF TargetInv
<1>14. ASSUME s.phase # "ready" PROVE TargetInv(t)'
  BY <1>8, <1>14 DEF TargetInv
<1> QED  BY <1>7, <1>10, <1>11, <1>12, <1>13, <1>14 DEF SyncInv

LEMMA AgesStep ==
  ASSUME SyncInv, NEW t \in Targets, Sync!SnapshotAges(t) PROVE SyncInv'
<1> DEFINE a == s.current[t]
           d == [a EXCEPT !.aged = TRUE]
<1>1. /\ SyncTypes /\ QueueShape /\ NumbersInv /\ PumpNumbers /\ Readiness /\ s \in Coordinators
      /\ pump \in Pumps /\ \A u \in Targets : TargetInv(u)
  BY DEF SyncInv, SyncTypes, NumbersInv
<1>2. /\ queue = <<>> /\ a # Sync!None /\ s' = [s EXCEPT !.current[t].aged = TRUE]
      /\ UNCHANGED <<version, queue, pump, reserved, wire, back, dev>>
  BY DEF Sync!SnapshotAges, Sync!Settled
<1>3. a \in Attempts
  BY <1>1, <1>2, SomeAttempt
<1>4. /\ d \in Attempts /\ d.seq = a.seq /\ d.base = a.base /\ d.version = a.version /\ d.early = a.early
      /\ d.confirmed = a.confirmed /\ d.inFlight = a.inFlight /\ d.armed = a.armed
  BY <1>3 DEF Attempts
<1>5. s' = [s EXCEPT !.current = [s.current EXCEPT ![t] = d]]
  BY <1>1, <1>2 DEF Coordinators
<1> HIDE DEF d
<1>6. /\ s' \in Coordinators /\ s'.phase = s.phase /\ s'.base = s.base /\ s'.requested = s.requested
      /\ s'.ready = s.ready /\ s'.handle = s.handle /\ s'.epoch = s.epoch /\ s'.work = s.work
      /\ s'.timers = s.timers /\ s'.current = [s.current EXCEPT ![t] = d]
  BY <1>1, <1>4, <1>5 DEF Coordinators
<1>7. s'.current[t] = d /\ \A u \in Targets : u # t => s'.current[u] = s.current[u]
  BY <1>1, <1>6 DEF Coordinators
<1>8. QueueKept /\ \A u \in Targets : SamePump(u)
  BY <1>2, QueueSame DEF SamePump
<1>9. QueueShape' /\ PumpNumbers' /\ Readiness' /\ version' \in [Sync!Buses -> Nat]
      /\ pump' \in Pumps /\ (pump'.pc \in Active => pump'.target \in Targets)
  BY <1>1, <1>2, <1>6 DEF QueueShape, PumpNumbers, Readiness, SyncTypes
<1>10. ASSUME NEW u \in Targets, u # t PROVE Still(u)
  BY <1>2, <1>6, <1>7, <1>10 DEF Still
<1>11. ASSUME s.phase = "ready" PROVE TargetInv(t)'
  <2>1. Stage(t) /\ Pending(t)
    BY <1>1, <1>2, <1>11 DEF TargetInv
  <2>2. Stage(t)'
    BY <1>2, <1>4, <1>6, <1>7, <2>1 DEF Stage, On, Same
  <2>3. Pending(t)'
    BY <1>2, <1>4, <1>7, <2>1 DEF Pending
  <2>4. t \in s.requested
    BY <1>1, <1>2, <1>11 DEF TargetInv, Current, Working
  <2>5. Fresh(t) /\ \A k \in Nat : <<t, k>> \notin s.timers
    BY <1>1, <1>2, <1>11 DEF TargetInv, Timers, Working, Queued
  <2>6. Fresh(t)' /\ Timers(t)'
    BY <1>2, <1>6, <2>5 DEF Fresh, Timers, On, Queued
  <2>7. s'.current[t] # Sync!None
    BY <1>4, <1>7, NotNone
  <2>8. Versions(t)'
    <3>1. Versions(t) /\ s'.current[t].version = s.current[t].version /\ (Queued("notify", t)' => Queued("notify", t))
      BY <1>1, <1>2, <1>4, <1>7, <1>11 DEF TargetInv, Queued
    <3> QED  BY <1>2, <3>1, VersionsKept
  <2> QED  BY <1>6, <2>2, <2>3, <2>4, <2>6, <2>7, <2>8 DEF TargetInv
<1>12. s'.phase = "ready" =>
         \A u \in Targets : TargetInv(u)' \/ (Still(u) /\ SamePump(u) /\ s.phase = "ready")
  BY <1>6, <1>8, <1>10, <1>11
<1> QED  BY <1>2, <1>6, <1>8, <1>9, <1>12, StepKeeps

LEMMA ClosesStep == SyncInv /\ Sync!TransportCloses => SyncInv'
<1> SUFFICES ASSUME SyncInv, Sync!TransportCloses PROVE SyncInv'
  OBVIOUS
<1> DEFINE e == Sync!Task("dispose", "preview", 0)
<1>1. /\ SyncTypes /\ PumpNumbers /\ pump \in Pumps
  BY DEF SyncInv, SyncTypes, NumbersInv
<1>2. /\ queue = <<>> /\ Sync!Waiting /\ s' = s /\ queue' = Append(queue, e)
      /\ UNCHANGED <<version, pump, reserved, wire, back, dev>>
  BY DEF Sync!TransportCloses, Sync!Settled
<1>3. e \in Tasks /\ e.kind = "dispose" /\ e.kind \in Outside
  <2>1. "preview" \in Sync!Buses /\ "dispose" \in Outside
    BY DEF Sync!Buses, Outside, Alone
  <2> QED  BY <2>1, TaskType
<1> HIDE DEF e
<1>4. /\ queue' \in Seq(Tasks) /\ QueueShape' /\ Acknowledged(queue)'
      /\ \A i \in DOMAIN queue' : queue'[i].kind \notin PumpTasks \cup {"abort", "dispose"} =>
           queue'[i].target \in Targets
      /\ \A u \in Targets : SameTasks(u) /\ SamePump(u)
  BY <1>2, <1>3, ArrivalFacts
<1>5. QueueKept
  BY <1>4 DEF QueueKept
<1>6. PumpNumbers' /\ pump' \in Pumps /\ (pump'.pc \in Active => pump'.target \in Targets)
  BY <1>1, <1>2 DEF PumpNumbers, SyncTypes
<1> QED  BY <1>2, <1>4, <1>5, <1>6, MoveKeeps

LEMMA ReceiveStep == SyncInv /\ Sync!Receive => SyncInv'
<1> SUFFICES ASSUME SyncInv, Sync!Receive PROVE SyncInv'
  OBVIOUS
<1> DEFINE e == Head(back)
<1>1. /\ SyncTypes /\ NumbersInv /\ PumpNumbers /\ pump \in Pumps /\ \A u \in Targets : TargetInv(u)
  BY DEF SyncInv, SyncTypes, NumbersInv
<1>2. /\ \A i \in DOMAIN queue : queue[i].kind \in Answers
      /\ Sync!Waiting /\ s' = s /\ queue' = Append(queue, e) /\ back # <<>>
      /\ back' = Tail(back) /\ UNCHANGED <<version, pump, reserved, wire, dev>>
  BY DEF Sync!Receive, Sync!Delivering, Answers
<1>3. back \in Seq([kind : Answers, target : Targets, n : Nat])
  BY <1>1 DEF SyncTypes
<1>4. /\ back' \in Seq([kind : Answers, target : Targets, n : Nat]) /\ e = back[1] /\ 1 \in DOMAIN back
      /\ e \in [kind : Answers, target : Targets, n : Nat]
      /\ \A i \in DOMAIN back' : i + 1 \in DOMAIN back /\ back'[i] = back[i + 1]
  <2>1. /\ Tail(back) \in Seq([kind : Answers, target : Targets, n : Nat]) /\ e = back[1] /\ 1 \in DOMAIN back
        /\ e \in [kind : Answers, target : Targets, n : Nat]
        /\ \A i \in DOMAIN Tail(back) : i + 1 \in DOMAIN back /\ Tail(back)[i] = back[i + 1]
    BY <1>2, <1>3, TailFacts
  <2> QED  BY <1>2, <2>1
<1> HIDE DEF e
<1>5. e \in Tasks /\ e.kind \in Answers /\ e.kind \in Outside /\ e.target \in Targets
      /\ (e.kind = "applied" => e.n <= dev[e.target].seq)
  <2>1. e.kind \in Answers /\ e.target \in Targets /\ e.n \in Nat
        /\ e = [kind |-> e.kind, target |-> e.target, n |-> e.n]
    BY <1>4
  <2>2. e.target \in Sync!Buses
    BY <2>1, DeviceSessionAssumption DEF Sync!SyncAssumption
  <2>3. e.kind = "applied" => e.n <= dev[e.target].seq
    BY <1>1, <1>4 DEF NumbersInv, Acknowledged
  <2> QED  BY <2>1, <2>2, <2>3 DEF Tasks, Outside
<1>6. /\ queue' \in Seq(Tasks) /\ QueueShape' /\ Acknowledged(queue)'
      /\ \A i \in DOMAIN queue' : queue'[i].kind \notin PumpTasks \cup {"abort", "dispose"} =>
           queue'[i].target \in Targets
      /\ \A u \in Targets : SameTasks(u) /\ SamePump(u)
  BY <1>2, <1>5, ArrivalFacts, KindFacts DEF Answers
<1>7. SyncTypes'
  BY <1>1, <1>2, <1>4, <1>6 DEF SyncTypes
<1>8. NumbersInv'
  <2>1. PumpNumbers' /\ BasesInv'
    BY <1>1, <1>2 DEF NumbersInv, PumpNumbers, BasesInv
  <2>2. Acknowledged(back)'
    BY <1>1, <1>2, <1>4 DEF NumbersInv, Acknowledged
  <2> QED  BY <1>1, <1>2, <1>6, <2>1, <2>2 DEF NumbersInv
<1>9. ASSUME NEW u \in Targets PROVE TargetInv(u)'
  <2>1. Still(u) /\ version' \in [Sync!Buses -> Nat]
    BY <1>1, <1>2 DEF Still, SyncTypes
  <2> QED  BY <1>2, <1>6, <2>1, Others
<1>10. Readiness'
  BY <1>2 DEF SyncInv, Readiness
<1> QED  BY <1>6, <1>7, <1>8, <1>9, <1>10 DEF SyncInv

(* An answer is added to those on their way. *)
LEMMA AnswerStep ==
  ASSUME SyncInv, UNCHANGED <<version, s, queue, pump, reserved, dev>>,
         wire' = wire \/ (wire' = Tail(wire) /\ wire # <<>>),
         NEW e \in [kind : Answers, target : Targets, n : Nat], back' = Append(back, e),
         e.kind = "applied" => e.n <= dev[e.target].seq
  PROVE  SyncInv'
<1>1. /\ SyncTypes /\ QueueShape /\ NumbersInv /\ PumpNumbers /\ \A u \in Targets : TargetInv(u)
  BY DEF SyncInv, NumbersInv
<1>2. /\ back' \in Seq([kind : Answers, target : Targets, n : Nat])
      /\ \A i \in DOMAIN back' : (i \in DOMAIN back /\ back'[i] = back[i]) \/ back'[i] = e
  <2>1. back \in Seq([kind : Answers, target : Targets, n : Nat])
    BY <1>1 DEF SyncTypes
  <2>2. /\ Append(back, e) \in Seq([kind : Answers, target : Targets, n : Nat])
        /\ \A i \in DOMAIN back : Append(back, e)[i] = back[i]
        /\ \A i \in DOMAIN Append(back, e) : i \in DOMAIN back \/ Append(back, e)[i] = e
    BY <2>1, AppendFacts
  <2> QED  BY <2>2
<1>3. wire' \in Seq(Sent) /\ \A i \in DOMAIN wire' : \E j \in DOMAIN wire : wire'[i] = wire[j]
  <2>1. wire \in Seq(Sent)
    BY <1>1 DEF SyncTypes
  <2>2. CASE wire' = wire
    BY <2>1, <2>2
  <2>3. CASE wire' = Tail(wire) /\ wire # <<>>
    <3>1. Tail(wire) \in Seq(Sent)
          /\ \A i \in DOMAIN Tail(wire) : i + 1 \in DOMAIN wire /\ Tail(wire)[i] = wire[i + 1]
      BY <2>1, <2>3, TailFacts
    <3> QED  BY <2>3, <3>1
  <2> QED  BY <2>2, <2>3
<1>4. SyncTypes'
  BY <1>1, <1>2, <1>3 DEF SyncTypes
<1>5. NumbersInv'
  <2>1. BasesInv' /\ PumpNumbers'
    BY <1>1, <1>3 DEF NumbersInv, BasesInv, PumpNumbers
  <2>2. Acknowledged(back)' /\ Acknowledged(queue)'
    BY <1>1, <1>2 DEF NumbersInv, Acknowledged
  <2>3. \A i \in DOMAIN wire' : wire'[i].base < wire'[i].seq /\ wire'[i].seq <= reserved'
    BY <1>1, <1>3 DEF NumbersInv
  <2> QED  BY <1>1, <2>1, <2>2, <2>3 DEF NumbersInv
<1>6. ASSUME NEW u \in Targets PROVE TargetInv(u)'
  <2>1. SameTasks(u) /\ SamePump(u) /\ SameWire(u) /\ Still(u)
    BY <1>3 DEF SameTasks, Queued, SamePump, SameWire, Still
  <2>2. dev'[u] = dev[u] /\ reserved' \in Nat /\ reserved <= reserved' /\ version' \in [Sync!Buses -> Nat]
    BY <1>1 DEF SyncTypes
  <2> QED  BY <1>1, <2>1, <2>2, TargetKept
<1>7. QueueShape' /\ Readiness'
  BY <1>1 DEF QueueShape, SyncInv, Readiness
<1> QED  BY <1>4, <1>5, <1>6, <1>7 DEF SyncInv

LEMMA StrayStep ==
  ASSUME SyncInv, NEW t \in Targets, NEW k \in Nat, NEW kind \in {"applied", "foreign"},
         Sync!StrayAnswer(t, k, kind), kind = "applied" => k <= dev[t].seq
  PROVE  SyncInv'
<1> DEFINE e == Sync!Task(IF k = 0 THEN "malformed" ELSE kind, t, k)
<1>1. e \in [kind : Answers, target : Targets, n : Nat] /\ (e.kind = "applied" => e.n <= dev[e.target].seq)
  BY DEF Sync!Task, Answers
<1>2. back' = Append(back, e) /\ UNCHANGED <<version, s, queue, pump, reserved, wire, dev>>
  BY DEF Sync!StrayAnswer
<1> HIDE DEF e
<1> QED  BY <1>1, <1>2, AnswerStep

LEMMA DeviceFailsStep == SyncInv /\ Sync!DeviceFails => SyncInv'
<1> SUFFICES ASSUME SyncInv, Sync!DeviceFails PROVE SyncInv'
  OBVIOUS
<1> DEFINE e == Sync!Task("error", Head(wire).target, Head(wire).seq)
<1>1. /\ wire # <<>> /\ wire' = Tail(wire) /\ back' = Append(back, e)
      /\ UNCHANGED <<version, s, queue, pump, reserved, dev>>
  BY DEF Sync!DeviceFails
<1>2. Head(wire) \in Sent
  <2>1. wire \in Seq(Sent)
    BY DEF SyncInv, SyncTypes
  <2> QED  BY <1>1, <2>1, TailFacts
<1>3. e \in [kind : Answers, target : Targets, n : Nat] /\ e.kind = "error"
  BY <1>2 DEF Sync!Task, Answers, Sent
<1> HIDE DEF e
<1> QED  BY <1>1, <1>3, AnswerStep

(* The device handles the oldest frame: the one place where what it shows moves. *)
LEMMA DeviceStep ==
  ASSUME SyncInv, NEW answers \in BOOLEAN, Sync!DeviceHandles(answers) PROVE SyncInv'
<1> DEFINE Acks == [kind : Answers, target : Targets, n : Nat]
<1>1. /\ SyncTypes /\ QueueShape /\ NumbersInv /\ PumpNumbers /\ BasesInv
      /\ \A u \in Targets : TargetInv(u)
  BY DEF SyncInv, NumbersInv
<1>2. wire # <<>> /\ wire \in Seq(Sent) /\ back \in Seq(Acks) /\ dev \in [Targets -> Frames]
  BY <1>1 DEF Sync!DeviceHandles, SyncTypes
<1>3. PICK f \in Sent : f = Head(wire) /\ f = wire[1]
  BY <1>2, TailFacts
<1>4. 1 \in DOMAIN wire /\ Tail(wire) \in Seq(Sent)
      /\ \A i \in DOMAIN Tail(wire) : i + 1 \in DOMAIN wire /\ Tail(wire)[i] = wire[i + 1]
  BY <1>2, TailFacts
<1>5. PICK t \in Targets : t = f.target
  BY DEF Sent
<1> DEFINE applies == dev[t].seq = f.base
           d == [seq |-> f.seq, version |-> f.version]
           e == Sync!Task(Sync!Answer(f), t, f.seq)
<1>6. /\ queue = <<>> /\ Sync!Waiting /\ wire' = Tail(wire)
      /\ dev' = IF applies THEN [dev EXCEPT ![t] = d] ELSE dev
      /\ back' = back \/ back' = Append(back, e)
      /\ UNCHANGED <<version, s, queue, pump, reserved>>
  BY <1>3, <1>5 DEF Sync!DeviceHandles, Sync!Settled
<1>7. /\ f.base < f.seq /\ f.seq <= reserved /\ f.seq \in Nat /\ f.base \in Nat /\ f.version \in Nat
      /\ reserved \in Nat
  BY <1>1, <1>3, <1>4 DEF NumbersInv, Sent, SyncTypes
<1>8. /\ dev' \in [Targets -> Frames]
      /\ \A u \in Targets : u # t \/ ~applies => dev'[u] = dev[u]
      /\ applies => dev'[t] = d /\ dev'[t].seq = f.seq /\ dev'[t].version = f.version
  <2>1. d \in Frames /\ d.seq = f.seq /\ d.version = f.version
    BY <1>7 DEF Frames
  <2> HIDE DEF d
  <2> QED  BY <1>2, <1>6, <2>1
<1>9. \A u \in Targets : /\ dev[u].seq \in Nat /\ dev'[u].seq \in Nat
                         /\ dev[u].seq <= dev'[u].seq /\ dev'[u].seq <= reserved
  BY <1>1, <1>2, <1>7, <1>8 DEF NumbersInv, Frames
<1>10. wire' \in Seq(Sent) /\ \A i \in DOMAIN wire' : \E j \in DOMAIN wire : wire'[i] = wire[j]
  BY <1>4, <1>6
<1>11. /\ back' \in Seq(Acks)
       /\ \A i \in DOMAIN back' : (i \in DOMAIN back /\ back'[i] = back[i])
             \/ (back'[i].kind = "applied" => back'[i].n <= dev'[back'[i].target].seq)
  <2>1. e \in Acks /\ e.kind = Sync!Answer(f) /\ e.target = t /\ e.n = f.seq
    <3>1. Sync!Answer(f) \in Answers
      BY DEF Sync!Answer, Answers
    <3> QED  BY <1>7, <3>1 DEF Sync!Task
  <2>2. e.kind = "applied" => e.n <= dev'[e.target].seq
    <3>1. SUFFICES ASSUME Sync!Answer(f) = "applied" PROVE f.seq <= dev'[t].seq
      BY <2>1
    <3>2. applies \/ f.seq <= dev[t].seq
      BY <1>3, <1>5, <1>7, <3>1 DEF Sync!Answer
    <3>3. CASE applies
      BY <1>7, <1>8, <3>3
    <3>4. CASE f.seq <= dev[t].seq
      BY <1>7, <1>9, <3>4
    <3> QED  BY <3>2, <3>3, <3>4
  <2> HIDE DEF e, Acks, applies
  <2>3. CASE back' = back
    BY <1>2, <2>3
  <2>4. CASE back' = Append(back, e)
    <3>1. /\ Append(back, e) \in Seq(Acks)
          /\ \A i \in DOMAIN back : Append(back, e)[i] = back[i]
          /\ \A i \in DOMAIN Append(back, e) : i \in DOMAIN back \/ Append(back, e)[i] = e
      BY <1>2, <2>1, AppendFacts
    <3> QED  BY <2>2, <2>4, <3>1
  <2> QED  BY <1>6, <2>3, <2>4
<1>12. SyncTypes'
  BY <1>1, <1>6, <1>8, <1>10, <1>11 DEF SyncTypes
<1>13. BasesInv'
  <2> SUFFICES ASSUME NEW u \in Targets
               PROVE  /\ s.base[u].seq <= dev'[u].seq
                      /\ s.base[u].seq = dev'[u].seq => s.base[u] = dev'[u]
    BY <1>6 DEF BasesInv
  <2>1. s.base[u].seq \in Nat /\ s.base[u].seq <= dev[u].seq /\ (s.base[u].seq = dev[u].seq => s.base[u] = dev[u])
    BY <1>1 DEF BasesInv, SyncTypes, Coordinators, Frames
  <2>2. CASE u # t \/ ~applies
    BY <1>8, <2>1, <2>2
  <2>3. CASE u = t /\ applies
    BY <1>7, <1>8, <1>9, <2>1, <2>3
  <2> QED  BY <2>2, <2>3
<1>14. NumbersInv'
  <2>1. PumpNumbers'
    <3>1. pump.pc \notin {"created", "requeue", "commit"}
      BY <1>6 DEF Sync!Waiting, Sync!At
    <3> QED  BY <1>1, <1>6, <3>1 DEF PumpNumbers
  <2>2. Acknowledged(back)'
    <3> SUFFICES ASSUME NEW i \in DOMAIN back', back'[i].kind = "applied"
                 PROVE  back'[i].n <= dev'[back'[i].target].seq
      BY DEF Acknowledged
    <3>1. CASE i \in DOMAIN back /\ back'[i] = back[i]
      <4>1. back[i] \in Acks
        <5> HIDE DEF Acks, e, d, applies
        <5>1. i \in DOMAIN back /\ back \in Seq(Acks)
          BY <1>2, <3>1
        <5> QED  BY <5>1
      <4>2. back[i].n \in Nat /\ back[i].target \in Targets /\ back[i].n <= dev[back[i].target].seq
        BY <1>1, <3>1, <4>1 DEF NumbersInv, Acknowledged
      <4> QED  BY <1>9, <3>1, <4>2
    <3> QED  BY <1>11, <3>1
  <2>3. Acknowledged(queue)'
    BY <1>6 DEF Acknowledged
  <2>4. \A i \in DOMAIN wire' : wire'[i].base < wire'[i].seq /\ wire'[i].seq <= reserved'
    BY <1>1, <1>6, <1>10 DEF NumbersInv
  <2> QED  BY <1>6, <1>9, <1>13, <2>1, <2>2, <2>3, <2>4 DEF NumbersInv
<1>15. \A u \in Targets : SameTasks(u) /\ SamePump(u) /\ SameWire(u) /\ Still(u)
  BY <1>6, <1>10 DEF SameTasks, Queued, SamePump, SameWire, Still
<1>16. ASSUME NEW u \in Targets, u # t \/ ~applies PROVE TargetInv(u)'
  <2>1. dev'[u] = dev[u] /\ reserved' \in Nat /\ reserved <= reserved' /\ version' \in [Sync!Buses -> Nat]
    BY <1>1, <1>6, <1>7, <1>8, <1>16 DEF SyncTypes
  <2> QED  BY <1>1, <1>6, <1>15, <2>1, TargetKept
<1>17. ASSUME applies, s.phase = "ready" PROVE TargetInv(t)'
  <2>1. TargetInv(t) /\ dev'[t].seq = f.seq /\ dev'[t].version = f.version
    BY <1>1, <1>8, <1>17
  <2>2. ASSUME s.current[t] # Sync!None PROVE Stage(t)' /\ Pending(t)'
    <3> DEFINE a == s.current[t]
    <3>1. Stage(t) /\ Pending(t) /\ a \in Attempts
      BY <1>1, <1>17, <2>1, <2>2, SomeAttempt DEF TargetInv, SyncTypes
    <3>2. f.seq <= a.seq /\ (f.seq = a.seq => f.version = a.version)
      BY <1>3, <1>4, <1>5, <3>1 DEF Pending
    <3>3. a.early # "applied"
      BY <1>7, <1>17, <3>1, <3>2 DEF Pending, Attempts
    <3>4. Stage(t)'
      BY <1>6, <3>1 DEF Stage, On, Same
    <3>5. \A i \in DOMAIN wire' : wire'[i].target = t =>
            wire'[i].seq <= a.seq /\ (wire'[i].seq = a.seq => wire'[i].version = a.version)
      BY <1>10, <3>1 DEF Pending
    <3>6. Pending(t)'
      BY <1>6, <2>1, <3>1, <3>2, <3>3, <3>5 DEF Pending
    <3> QED  BY <3>4, <3>6
  <2>3. t \in s.requested
    <3> SUFFICES ASSUME t \notin s.requested PROVE FALSE
      OBVIOUS
    <3>1. Current(t)
      BY <1>17, <2>1 DEF TargetInv
    <3>2. dev[t].seq = s.base[t].seq /\ f.seq <= s.base[t].seq
      BY <1>3, <1>4, <1>5, <3>1 DEF Current
    <3> QED  BY <1>7, <1>9, <1>17, <3>2
  <2>4. Fresh(t)' /\ Timers(t)'
    BY <1>6, <1>17, <2>1 DEF TargetInv, Fresh, Timers, On, Queued, Working
  <2>5. s.current[t] = Sync!None => s.work[t] # "resend" /\ ~On(t, {"resend", "enter"})'
    BY <1>6, <1>17, <2>1 DEF TargetInv, On
  <2>6. Versions(t)'
    BY <1>6, <1>17, <2>1, VersionsKept DEF TargetInv, Queued
  <2> QED  BY <1>6, <2>2, <2>3, <2>4, <2>5, <2>6 DEF TargetInv
<1>18. ASSUME s.phase # "ready" PROVE TargetInv(t)'
  BY <1>6, <1>18 DEF TargetInv
<1>19. QueueShape' /\ Readiness'
  BY <1>1, <1>6 DEF QueueShape, SyncInv, Readiness
<1> QED  BY <1>12, <1>14, <1>16, <1>17, <1>18, <1>19 DEF SyncInv

------------------------------------------------------------------------------
LEMMA SyncInit == Sync!Init => SyncInv
<1> SUFFICES ASSUME Sync!Init PROVE SyncInv
  OBVIOUS
<1>1. Targets \subseteq Sync!Buses /\ SyncBudget \in Nat
  BY DeviceSessionAssumption DEF Sync!SyncAssumption
<1>2. /\ s.phase = "ready" /\ s.reason = "none" /\ s.epoch = [t \in Targets |-> 0]
      /\ s.base = [t \in Targets |-> [seq |-> 1, version |-> 1]]
      /\ s.current = [t \in Targets |-> Sync!None] /\ s.handle = [t \in Targets |-> 1]
      /\ s.timers = {<<t, 1>> : t \in Targets} /\ s.requested = {} /\ s.ready = Targets
      /\ s.work = [t \in Targets |-> "none"] /\ s.latest = 1
  BY DEF Sync!Init
<1>3. /\ version = [t \in Sync!Buses |-> 1] /\ queue = <<>> /\ pump = Sync!Idle /\ reserved = 1
      /\ wire = <<>> /\ back = <<>> /\ dev = [t \in Targets |-> [seq |-> 1, version |-> 1]]
  BY DEF Sync!Init
<1>4. pump \in Pumps /\ pump.pc = "idle"
  BY <1>3 DEF Sync!Idle, Pumps, Waits, Sync!Buses
<1>5. s \in Coordinators
  BY DEF Sync!Init, Coordinators, Reasons, Frames
<1>6. DOMAIN queue = {} /\ DOMAIN wire = {} /\ DOMAIN back = {}
  BY <1>3
<1>7. SyncTypes
  <2>1. dev \in [Targets -> Frames] /\ version \in [Sync!Buses -> Nat] /\ reserved \in Nat
    BY <1>3 DEF Frames
  <2>2. pump.pc \notin Active
    BY <1>4 DEF Active, Making, Sending
  <2> QED  BY <1>3, <1>4, <1>5, <1>6, <2>1, <2>2 DEF SyncTypes
<1>8. QueueShape
  BY <1>6 DEF QueueShape
<1>9. NumbersInv
  BY <1>2, <1>3, <1>4, <1>6 DEF NumbersInv, BasesInv, PumpNumbers, Acknowledged, Sending
<1>10. ASSUME NEW t \in Targets PROVE TargetInv(t)
  <2>1. ~On(t, Active)
    BY <1>4 DEF On, Active, Making, Sending
  <2>2. ~Working(t) /\ ~Queued("notify", t) /\ ~Queued("confirm", t)
    BY <1>2, <1>6, <2>1 DEF Working, Queued
  <2>3. Current(t)
    BY <1>1, <1>2, <1>3, <1>6, <2>2 DEF Current
  <2>4. Fresh(t) /\ ~On(t, {"resend", "enter"})
    BY <2>1 DEF Fresh, On, Active, Making, Sending
  <2>5. Timers(t)
    BY <1>2, <2>2 DEF Timers
  <2>6. Versions(t)
    BY <1>2, <1>10, <2>1, <2>2 DEF Versions, On, Active, Making
  <2> QED  BY <1>2, <2>3, <2>4, <2>5, <2>6 DEF TargetInv
<1>11. Readiness
  BY <1>2 DEF Readiness
<1> QED  BY <1>7, <1>8, <1>9, <1>10, <1>11 DEF SyncInv

LEMMA SyncStep == SyncInv /\ [Sync!Next]_(Sync!vars) => SyncInv'
<1> SUFFICES ASSUME SyncInv, [Sync!Next]_(Sync!vars) PROVE SyncInv'
  OBVIOUS
<1>1. CASE Sync!QueueStep
  BY <1>1, NotifyStep, AckStep, ClosingStep, ConfirmStep, TimeoutStep, PickStep, RequeueStep,
     CommitStep, GateStep, SentStep, FailStep DEF Sync!QueueStep
<1>2. CASE Sync!PumpStep
  BY <1>2, LoopStep, IssueStartStep, CreateDoneStep, IssueCheckStep, ResendStep, EnterStep,
     TransmitStep DEF Sync!PumpStep
<1>3. CASE Sync!EnvStep
  <2>1. CASE \E t \in Sync!Buses, c \in BOOLEAN : Sync!ProductionChanges(t, c)
    BY <2>1, ChangesStep
  <2>2. CASE \E p \in s.timers : Sync!ConfirmationFires(p)
    BY <2>2, ConfirmationStep
  <2>3. CASE \E t \in Targets : Sync!TimeoutFires(t) \/ Sync!SnapshotAges(t)
    BY <2>3, TimeoutFiresStep, AgesStep
  <2>4. CASE Sync!DeviceHandles(FALSE)
    BY <2>4, DeviceStep
  <2>5. ASSUME NEW t \in Targets, NEW k \in 0 .. dev[t].seq, Sync!StrayAnswer(t, k, "applied")
        PROVE  SyncInv'
    <3>1. dev[t].seq \in Nat
      BY NumberTypes DEF SyncInv
    <3> QED  BY <2>5, <3>1, StrayStep
  <2>6. ASSUME NEW t \in Targets, NEW k \in {dev[t].seq, reserved + 1}, Sync!StrayAnswer(t, k, "foreign")
        PROVE  SyncInv'
    <3>1. k \in Nat
      BY NumberTypes DEF SyncInv
    <3> QED  BY <2>6, <3>1, StrayStep
  <2>7. CASE Sync!RotateIssuer \/ Sync!Recapture \/ Sync!CreateFails \/ Sync!SendFails
             \/ Sync!TransportCloses \/ Sync!DeviceFails
    BY <2>7, QuietSteps, FailStep, EnterStep, ClosesStep, DeviceFailsStep
  <2> QED  BY <1>3, <2>1, <2>2, <2>3, <2>4, <2>5, <2>6, <2>7 DEF Sync!EnvStep
<1>4. CASE Sync!DeviceHandles(TRUE) \/ Sync!Receive
  BY <1>4, DeviceStep, ReceiveStep
<1>5. CASE UNCHANGED Sync!vars
  <2>1. UNCHANGED <<version, s, queue, pump, reserved, wire, back, dev>>
    BY <1>5 DEF Sync!vars
  <2>2. QueueKept /\ \A u \in Targets : SamePump(u)
    BY <2>1, QueueSame DEF SamePump
  <2>3. QueueShape' /\ PumpNumbers' /\ pump' \in Pumps /\ (pump'.pc \in Active => pump'.target \in Targets)
    BY <2>1 DEF SyncInv, SyncTypes, NumbersInv, QueueShape, PumpNumbers
  <2> QED  BY <2>1, <2>2, <2>3, MoveKeeps
<1> QED  BY <1>1, <1>2, <1>3, <1>4, <1>5 DEF Sync!Next

(* SyncInv: the single thread of the queue and the pump, the order of the    *)
(* frames on every way they take, and for every target either evidence that  *)
(* is current or work that will replace it.                                  *)
THEOREM SyncInvariant == Sync!Spec => []SyncInv
<1> QED  BY SyncInit, SyncStep, PTL DEF Sync!Spec

(* EvidenceIsCurrent: a target the coordinator calls ready is one whose      *)
(* state in production is what the device shows, whatever is lost, late,     *)
(* repeated, refused or foreign; and the base of a delta is a frame the      *)
(* device applied.                                                           *)
THEOREM EvidenceStaysCurrent == Sync!Spec => []EvidenceIsCurrent
<1>1. SyncInv => EvidenceIsCurrent
  <2> SUFFICES ASSUME SyncInv, NEW t \in Targets
               PROVE  /\ (t \in s.ready \/ Sync!IsTargetReady(t)) =>
                           /\ s.phase = "ready"
                           /\ s.base[t].version = version[t]
                           /\ dev[t].version = version[t]
                      /\ s.base[t].seq <= dev[t].seq
                      /\ s.base[t].seq = dev[t].seq => s.base[t] = dev[t]
    BY DEF EvidenceIsCurrent, Sync!EvidenceIsCurrent, SyncInv, SyncTypes, Coordinators
  <2>1. /\ s.base[t].seq <= dev[t].seq
        /\ s.base[t].seq = dev[t].seq => s.base[t] = dev[t]
    BY DEF SyncInv, NumbersInv, BasesInv
  <2>2. ASSUME t \in s.ready \/ Sync!IsTargetReady(t)
        PROVE  s.phase = "ready" /\ s.base[t].version = version[t] /\ dev[t].version = version[t]
    <3>1. t \notin s.requested
      BY <2>2 DEF Sync!IsTargetReady, SyncInv, Readiness
    <3>2. s.phase = "ready"
      BY <3>1 DEF SyncInv, Readiness, SyncTypes, Coordinators
    <3>3. Current(t)
      BY <3>1, <3>2 DEF SyncInv, TargetInv
    <3> QED  BY <2>1, <3>2, <3>3 DEF Current
  <2> QED  BY <2>1, <2>2
<1> QED  BY <1>1, SyncInvariant, PTL

------------------------------------------------------------------------------
(* BootstrapReadiness *)

(* The coordinator of BootstrapReadiness, the tasks of its queue by where    *)
(* they come from, and the emission lane.                                    *)
Snapshots == [seq : Nat \ {0}, version : Nat, confirmed : BOOLEAN, armed : BOOLEAN, aged : BOOLEAN]
BootReasons == {"none", "retries_exhausted", "protocol_violation", "internal_error", "deadline_exceeded"}
Bootstraps ==
  [phase : {"idle", "bootstrapping", "ready", "closed"},
   reason : BootReasons,
   epoch : [Targets -> Nat], retries : [Targets -> Nat],
   current : [Targets -> Snapshots \cup {Boot!None}], applied : [Targets -> Nat],
   pending : SUBSET Targets, issued : SUBSET Nat, deadline : BOOLEAN]

Buses == {"preview", "program"}
Intake == {"start", "applied", "error", "malformed", "timeout", "abort"}
LaneTasks == {"pick", "requeue", "commit", "stale", "sent", "sendFailed"}
BootKinds == {"notify"} \cup Intake \cup LaneTasks
BootTasks == [kind : BootKinds, target : Buses, n : Int]
BootAnswers == [kind : {"applied", "error", "malformed"}, target : Targets, n : Int]
Aimed == {"notify", "applied", "error", "timeout"}

LaneWaits == {"idle", "creating", "transmit", "sending"}
LaneRuns == {"emit", "created", "loop", "finish"}
LaneAwaits == {"pick", "requeue", "commit", "stale", "sent"}
LaneMaking == {"emit", "creating", "created", "requeue", "commit"}
LaneSending == {"committed", "stale", "transmit", "sending", "sent"}
LaneBusy == LaneMaking \cup LaneSending
Numbered == {"created", "requeue", "commit", "committed", "stale", "transmit"}

Lanes == [pc : LaneWaits \cup LaneRuns \cup LaneAwaits \cup {"committed"}, target : Buses,
          epoch : Nat, seq : Nat, version : Nat]
Issued == [target : Targets, seq : Nat, version : Nat]
Shown == [seq : Nat, version : Nat]

BootTypes ==
  /\ bVersion \in [Targets -> Nat] /\ bReserved \in Nat
  /\ b \in Bootstraps /\ bQueue \in Seq(BootTasks) /\ lane \in Lanes
  /\ granting \in BOOLEAN /\ session \in [post : BOOLEAN, disposed : BOOLEAN]
  /\ registry \in SUBSET Targets
  /\ bWire \in Seq(Issued) /\ bBack \in Seq(BootAnswers) /\ bDev \in [Targets -> Shown]
  /\ lane.pc \in LaneBusy => lane.target \in Targets
  /\ \A i \in DOMAIN bQueue : bQueue[i].kind \in Aimed => bQueue[i].target \in Targets

Live == b.phase \in {"idle", "bootstrapping"}
Granted == granting \/ session.post

(* One thread: what comes from outside is alone in the queue, the lane's own *)
(* task is its last, and while the lane runs the queue is empty.             *)
LaneShape ==
  /\ lane.pc \in LaneRuns => bQueue = <<>>
  /\ lane.pc \in LaneWaits => \/ \A i \in DOMAIN bQueue : bQueue[i].kind = "notify"
                              \/ Len(bQueue) = 1 /\ bQueue[1].kind \in Intake
  /\ lane.pc = "committed" => \A i \in DOMAIN bQueue : bQueue[i].kind = "notify"
  /\ lane.pc \in LaneAwaits =>
       /\ Len(bQueue) > 0
       /\ bQueue[Len(bQueue)].kind \in (IF lane.pc = "sent" THEN {"sent", "sendFailed"} ELSE {lane.pc})
       /\ \A i \in 1 .. Len(bQueue) - 1 : bQueue[i].kind = "notify"
  /\ b.phase = "idle" => /\ Len(bQueue) = 1 /\ bQueue[1].kind = "start" /\ lane.pc = "idle"
                         /\ \A t \in Targets : b.current[t] = Boot!None

(* The device has handled what it shows and whatever was sent before it.     *)
Confirmed(tasks) ==
  \A i \in DOMAIN tasks : tasks[i].kind = "applied" => tasks[i].n <= bDev[tasks[i].target].seq

(* Snapshots are numbered in the order they are made, on every way they take. *)
WireOrder ==
  /\ \A t \in Targets : bDev[t].seq <= bReserved
  /\ \A i \in DOMAIN bWire : bWire[i].seq <= bReserved /\ \A t \in Targets : bDev[t].seq < bWire[i].seq
  /\ \A i, j \in DOMAIN bWire : i < j => bWire[i].seq < bWire[j].seq
  /\ Confirmed(bBack) /\ Confirmed(bQueue)
  /\ lane.pc \in Numbered => /\ lane.seq = bReserved /\ bReserved > 0
                             /\ \A t \in Targets : bDev[t].seq < bReserved
                             /\ \A i \in DOMAIN bWire : bWire[i].seq < bReserved

(* The snapshot a is the last one made for its target. *)
Latest(a, t) ==
  /\ bDev[t].seq <= a.seq /\ (bDev[t].seq = a.seq => bDev[t].version = a.version)
  /\ \A i \in DOMAIN bWire : bWire[i].target = t =>
       bWire[i].seq <= a.seq /\ (bWire[i].seq = a.seq => bWire[i].version = a.version)

LaneOn(l, t, pcs) == l.target = t /\ l.pc \in pcs

(* The target waits for a snapshot, *)
Awaited(c, l, t) ==
  /\ t \notin c.pending
  /\ Latest(c.current[t], t)
  /\ c.applied[t] = c.current[t].seq => bDev[t].seq = c.current[t].seq
  /\ ~LaneOn(l, t, LaneMaking)
  /\ LaneOn(l, t, LaneSending) =>
       /\ l.seq = c.current[t].seq /\ l.version = c.current[t].version
       /\ ~c.current[t].confirmed

(* or one is being made, that is refused if the target changed meanwhile. *)
Unspoiled(c, l, t) ==
  /\ LaneOn(l, t, {"emit"}) => t \notin c.pending
  /\ LaneOn(l, t, LaneMaking \ {"emit"}) =>
       l.epoch <= c.epoch[t] /\ (l.epoch = c.epoch[t] => t \notin c.pending)

StandsAt(c, l, t) == (c.current[t] # Boot!None => Awaited(c, l, t)) /\ Unspoiled(c, l, t)

(* From the grant on nothing is under way any more. *)
GrantInv ==
  /\ b.deadline => b.phase = "bootstrapping"
  /\ Granted => /\ ~Live /\ lane.pc \in {"idle", "loop", "finish"}
                /\ audit # "not_ready" /\ bWire = <<>>
  /\ granting => /\ b.phase = "ready" /\ ~session.post
                 /\ \A t \in Targets : b.current[t] # Boot!None /\ bDev[t].version = b.current[t].version

(* A disposal that did not meet the mounted session has an abort queued;     *)
(* registered targets are a mounted session's, and current.                  *)
Aborting == \E i \in DOMAIN bQueue : bQueue[i].kind = "abort" /\ bQueue[i].n = 1

RegistryInv ==
  /\ registry # {} => session.post
  /\ \A t \in registry : ~session.disposed => bDev[t].version = bVersion[t]
  /\ session.disposed => /\ granting \/ registry # {} => Aborting
                         /\ Live => b.phase = "bootstrapping" /\ Len(bQueue) = 1 /\ bQueue[1].kind = "abort"

(* The inductive invariant of BootstrapReadiness.                            *)
BootInv ==
  /\ BootTypes /\ GrantInv /\ RegistryInv
  /\ Live => LaneShape /\ WireOrder /\ \A t \in Targets : StandsAt(b, lane, t)

------------------------------------------------------------------------------
(* The coordinator's operators *)

LEMMA SnapshotNotNone == \A a \in Snapshots : a # Boot!None
  BY DEF Snapshots, Boot!None

LEMMA DisarmedSnapshot ==
  \A a \in Snapshots : [a EXCEPT !.armed = FALSE] \in Snapshots
  BY DEF Snapshots

LEMMA BootCloseFacts ==
  ASSUME NEW r \in Bootstraps, NEW why \in BootReasons, r.phase = "closed" => ~r.deadline
  PROVE  LET c == Boot!CloseConnection(r, why) IN
         c \in Bootstraps /\ c.phase = "closed" /\ ~c.deadline
<1> DEFINE c == Boot!CloseConnection(r, why)
           cur == [t \in Targets |-> IF r.current[t] = Boot!None THEN Boot!None
                                     ELSE [r.current[t] EXCEPT !.armed = FALSE]]
<1>1. cur \in [Targets -> Snapshots \cup {Boot!None}]
  <2>1. ASSUME NEW t \in Targets, r.current[t] # Boot!None
        PROVE  [r.current[t] EXCEPT !.armed = FALSE] \in Snapshots
    <3>1. r.current[t] \in Snapshots
      BY <2>1 DEF Bootstraps
    <3> QED  BY <3>1, DisarmedSnapshot
  <2> QED  BY <2>1
<1>2. CASE r.phase = "closed"
  BY <1>2 DEF Boot!CloseConnection
<1>3. CASE r.phase # "closed"
  <2>1. c = [r EXCEPT !.phase = "closed", !.reason = why, !.pending = {}, !.deadline = FALSE,
                      !.current = cur]
    BY <1>3, Zenon DEF Boot!CloseConnection, Bootstraps
  <2> HIDE DEF c, cur
  <2>2. c \in Bootstraps /\ c.phase = "closed"
    BY <2>1, <1>1 DEF Bootstraps, BootReasons
  <2>3. c.deadline = FALSE
    BY <2>1 DEF Bootstraps
  <2> QED  BY <2>2, <2>3 DEF c
<1> QED  BY <1>2, <1>3

(* c is r with the snapshots of the targets S dropped and to be issued again. *)
Reissues(r, c, S) ==
  /\ c \in Bootstraps /\ c.phase = r.phase /\ c.deadline = r.deadline /\ c.epoch = r.epoch
  /\ c.pending = r.pending \cup S
  /\ \A u \in Targets : /\ c.current[u] = IF u \in S THEN Boot!None ELSE r.current[u]
                        /\ c.applied[u] = IF u \in S THEN 0 ELSE r.applied[u]

LEMMA DropFacts ==
  ASSUME NEW r \in Bootstraps, NEW t \in Targets
  PROVE  /\ Boot!Drop(r, t) = [r EXCEPT !.current = [r.current EXCEPT ![t] = Boot!None],
                                        !.applied = [r.applied EXCEPT ![t] = 0]]
         /\ Boot!Drop(r, t) \in Bootstraps
<1>1. Boot!Drop(r, t) = [r EXCEPT !.current = [r.current EXCEPT ![t] = Boot!None],
                                  !.applied = [r.applied EXCEPT ![t] = 0]]
  BY DEF Boot!Drop, Bootstraps
<1>2. /\ [r.current EXCEPT ![t] = Boot!None] \in [Targets -> Snapshots \cup {Boot!None}]
      /\ [r.applied EXCEPT ![t] = 0] \in [Targets -> Nat]
  BY DEF Bootstraps
<1> QED  BY <1>1, <1>2 DEF Bootstraps

LEMMA ConsumeFacts ==
  ASSUME NEW r \in Bootstraps, NEW t \in Targets, r.phase = "bootstrapping"
  PROVE  LET c == Boot!ConsumeRetry(r, t) IN
         \/ c \in Bootstraps /\ c.phase = "closed" /\ ~c.deadline
         \/ Reissues(r, c, {t})
<1> DEFINE c == Boot!ConsumeRetry(r, t)
           d == Boot!Drop(r, t)
<1>1. /\ d = [r EXCEPT !.current = [r.current EXCEPT ![t] = Boot!None],
                       !.applied = [r.applied EXCEPT ![t] = 0]]
      /\ d \in Bootstraps
  BY DropFacts
<1> HIDE DEF d
<1>2. /\ d.phase = r.phase /\ d.deadline = r.deadline /\ d.epoch = r.epoch /\ d.pending = r.pending
      /\ d.retries = r.retries
      /\ d.current = [r.current EXCEPT ![t] = Boot!None]
      /\ d.applied = [r.applied EXCEPT ![t] = 0]
  BY <1>1 DEF Bootstraps
<1>3. CASE r.retries[t] >= BootRetries
  <2>1. c = Boot!CloseConnection(d, "retries_exhausted")
    BY <1>3 DEF Boot!ConsumeRetry, d
  <2> HIDE DEF c
  <2>2. c \in Bootstraps /\ c.phase = "closed" /\ ~c.deadline
    BY <1>1, <1>2, <2>1, BootCloseFacts DEF BootReasons
  <2> QED  BY <2>2 DEF c
<1>4. CASE ~(r.retries[t] >= BootRetries)
  <2> DEFINE k == [r.retries EXCEPT ![t] = r.retries[t] + 1]
             p == r.pending \cup {t}
  <2>1. c = [d EXCEPT !.retries = k, !.pending = p]
    BY <1>1, <1>2, <1>4 DEF Boot!ConsumeRetry, d, Bootstraps
  <2>2. k \in [Targets -> Nat] /\ p \in SUBSET Targets
    BY DEF Bootstraps
  <2> HIDE DEF c, k
  <2>3. /\ c \in Bootstraps /\ c.phase = d.phase /\ c.deadline = d.deadline /\ c.epoch = d.epoch
        /\ c.pending = p /\ c.current = d.current /\ c.applied = d.applied
    BY <1>1, <2>1, <2>2 DEF Bootstraps
  <2>4. /\ r.current \in [Targets -> Snapshots \cup {Boot!None}] /\ r.applied \in [Targets -> Nat]
    BY DEF Bootstraps
  <2>5. Reissues(r, c, {t})
    BY <1>2, <2>3, <2>4 DEF Reissues
  <2> QED  BY <2>5 DEF c
<1> QED  BY <1>3, <1>4

LEMMA StaleFacts ==
  ASSUME NEW r \in Bootstraps, NEW S \in SUBSET Targets
  PROVE  Reissues(r, Boot!InvalidateStale(r, S), S)
<1> DEFINE c == Boot!InvalidateStale(r, S)
           cur == [t \in Targets |-> IF t \in S THEN Boot!None ELSE r.current[t]]
           app == [t \in Targets |-> IF t \in S THEN 0 ELSE r.applied[t]]
           p == r.pending \cup S
<1>1. c = [r EXCEPT !.current = cur, !.applied = app, !.pending = p]
  BY DEF Boot!InvalidateStale, Bootstraps
<1>2. cur \in [Targets -> Snapshots \cup {Boot!None}] /\ app \in [Targets -> Nat] /\ p \in SUBSET Targets
  BY DEF Bootstraps
<1>3. \A u \in Targets : /\ cur[u] = IF u \in S THEN Boot!None ELSE r.current[u]
                         /\ app[u] = IF u \in S THEN 0 ELSE r.applied[u]
  OBVIOUS
<1> HIDE DEF c, cur, app
<1>4. /\ c \in Bootstraps /\ c.phase = r.phase /\ c.deadline = r.deadline /\ c.epoch = r.epoch
      /\ c.pending = p /\ c.current = cur /\ c.applied = app
  BY <1>1, <1>2 DEF Bootstraps
<1>5. Reissues(r, c, S)
  BY <1>3, <1>4 DEF Reissues
<1> QED  BY <1>5 DEF c

(* Grant leaves the coordinator alone, issues stale frames again, or finds   *)
(* every target applied and current.                                         *)
LEMMA GrantFacts ==
  ASSUME NEW r \in Bootstraps
  PROVE  LET c == Boot!Grant(r)
             S == {t \in Targets : ~Boot!IsCurrent(t, r.current[t])} IN
         \/ c = r
         \/ Boot!Complete(r) /\ c = Boot!InvalidateStale(r, S)
         \/ Boot!Complete(r) /\ c = [r EXCEPT !.phase = "ready", !.deadline = FALSE]
  BY DEF Boot!Grant

LEMMA ReadyFacts ==
  ASSUME NEW r \in Bootstraps
  PROVE  LET c == [r EXCEPT !.phase = "ready", !.deadline = FALSE] IN
         c \in Bootstraps /\ c.phase = "ready" /\ ~c.deadline /\ c.current = r.current
<1> DEFINE c == [r EXCEPT !.phase = "ready", !.deadline = FALSE]
<1>1. c \in Bootstraps /\ c.phase = "ready" /\ c.current = r.current
  BY DEF Bootstraps
<1>2. c.deadline = FALSE
  BY DEF Bootstraps
<1> QED  BY <1>1, <1>2

------------------------------------------------------------------------------
(* What a step may leave alone *)

LEMMA StandsOther ==
  ASSUME NEW c \in Bootstraps, NEW d \in Bootstraps, NEW l \in Lanes, NEW k \in Lanes, NEW t \in Targets,
         StandsAt(c, l, t), d.current[t] = c.current[t], d.applied[t] = c.applied[t],
         d.epoch[t] = c.epoch[t], t \in d.pending => t \in c.pending,
         k = l \/ ~LaneOn(k, t, LaneBusy)
  PROVE  StandsAt(d, k, t)
  BY DEF StandsAt, Awaited, Unspoiled, LaneOn, LaneBusy, LaneMaking, LaneSending

LEMMA ReissueStands ==
  ASSUME NEW r \in Bootstraps, NEW c, NEW S \in SUBSET Targets, Reissues(r, c, S), NEW l \in Lanes,
         \A u \in Targets : StandsAt(r, l, u),
         \A u \in S : r.current[u] # Boot!None \/ l.pc \notin LaneMaking
  PROVE  \A u \in Targets : StandsAt(c, l, u)
<1> SUFFICES ASSUME NEW u \in Targets PROVE StandsAt(c, l, u)
  OBVIOUS
<1>1. CASE u \in S
  <2>1. c.current[u] = Boot!None /\ ~LaneOn(l, u, LaneMaking)
    BY <1>1 DEF Reissues, StandsAt, Awaited, LaneOn
  <2> QED  BY <2>1 DEF StandsAt, Unspoiled, LaneOn, LaneMaking
<1>2. CASE u \notin S
  <2>1. /\ c \in Bootstraps /\ c.current[u] = r.current[u] /\ c.applied[u] = r.applied[u]
        /\ c.epoch[u] = r.epoch[u] /\ (u \in c.pending => u \in r.pending)
    BY <1>2 DEF Reissues
  <2> QED  BY <2>1, StandsOther
<1> QED  BY <1>1, <1>2

------------------------------------------------------------------------------
(* A task of the queue ends *)

BootHead == Head(bQueue)

LEMMA BootPick == Boot!Pick \in BootTasks /\ Boot!Pick.kind = "pick"
  BY DEF Boot!Pick, Boot!Task, BootTasks, BootKinds, LaneTasks, Buses

LEMMA TaskEnds ==
  ASSUME BootTypes, bQueue # <<>>, NEW r \in Bootstraps, NEW l \in Lanes, Boot!FinishTask(r, l)
  PROVE  /\ UNCHANGED <<bVersion, bReserved, session, registry, bWire, bBack, bDev>>
         /\ \/ b' = r /\ granting' = (r.phase = "ready" /\ b.phase # "ready")
            \/ /\ r.phase = "ready" /\ b.phase # "ready" /\ granting' = granting
               /\ b' \in Bootstraps /\ b'.phase = "closed" /\ ~b'.deadline
         /\ audit' = Boot!AuditAfter(b')
         /\ \/ /\ lane.pc = "idle" /\ b'.phase = "bootstrapping"
               /\ bQueue' = Append(Tail(bQueue), Boot!Pick) /\ lane' = [lane EXCEPT !.pc = "pick"]
            \/ bQueue' = Tail(bQueue) /\ lane' = l
<1>1. /\ UNCHANGED <<bVersion, bReserved, session, registry, bWire, bBack, bDev>>
      /\ audit' = Boot!AuditAfter(b')
  BY DEF Boot!FinishTask
<1>2. \/ b' = r /\ granting' = (r.phase = "ready" /\ b.phase # "ready")
      \/ /\ r.phase = "ready" /\ b.phase # "ready" /\ granting' = granting
         /\ b' \in Bootstraps /\ b'.phase = "closed" /\ ~b'.deadline
  <2>1. CASE b' = r /\ granting' = (r.phase = "ready" /\ b.phase # "ready")
    BY <2>1
  <2>2. CASE /\ r.phase = "ready" /\ b.phase # "ready" /\ granting' = granting
             /\ b' = Boot!CloseConnection([r EXCEPT !.phase = "bootstrapping"], "internal_error")
    <3> DEFINE d == [r EXCEPT !.phase = "bootstrapping"]
    <3>1. d \in Bootstraps /\ d.phase = "bootstrapping"
      BY DEF Bootstraps
    <3> HIDE DEF d
    <3>2. b' \in Bootstraps /\ b'.phase = "closed" /\ ~b'.deadline
      BY <2>2, <3>1, BootCloseFacts DEF BootReasons, d
    <3> QED  BY <2>2, <3>2
  <2> QED  BY <2>1, <2>2 DEF Boot!FinishTask
<1>3. /\ bQueue' = Tail(bQueue) \o (IF Boot!LaneStarts(b') THEN <<Boot!Pick>> ELSE <<>>)
      /\ lane' = IF Boot!LaneStarts(b') THEN [lane EXCEPT !.pc = "pick"] ELSE l
  BY DEF Boot!FinishTask
<1>4. Tail(bQueue) \in Seq(BootTasks)
  BY TailFacts DEF BootTypes
<1>5. CASE Boot!LaneStarts(b')
  <2>1. lane.pc = "idle" /\ b'.phase = "bootstrapping"
    BY <1>5 DEF Boot!LaneStarts, Boot!At, Boot!Bootstrapping
  <2>2. bQueue' = Append(Tail(bQueue), Boot!Pick)
    BY <1>3, <1>4, <1>5, BootPick
  <2> QED  BY <1>1, <1>2, <1>3, <1>5, <2>1, <2>2
<1>6. CASE ~Boot!LaneStarts(b')
  <2>1. bQueue' = Tail(bQueue)
    BY <1>3, <1>4, <1>6
  <2> QED  BY <1>1, <1>2, <1>3, <1>6, <2>1
<1> QED  BY <1>5, <1>6

(* The types a task leaves. *)
LEMMA TaskTypes ==
  ASSUME BootTypes, bQueue # <<>>, NEW r \in Bootstraps, NEW l \in Lanes, Boot!FinishTask(r, l),
         l.pc \in LaneBusy => l.target \in Targets
  PROVE  /\ BootTypes'
         /\ \A i \in DOMAIN bQueue' : bQueue'[i] = Boot!Pick \/ \E j \in DOMAIN bQueue : bQueue'[i] = bQueue[j]
         /\ \A i \in DOMAIN bQueue : i # 1 => \E j \in DOMAIN bQueue' : bQueue'[j] = bQueue[i]
<1>1. /\ UNCHANGED <<bVersion, bReserved, session, registry, bWire, bBack, bDev>>
      /\ b' \in Bootstraps /\ granting' \in BOOLEAN
      /\ \/ bQueue' = Append(Tail(bQueue), Boot!Pick) /\ lane' = [lane EXCEPT !.pc = "pick"]
         \/ bQueue' = Tail(bQueue) /\ lane' = l
  BY TaskEnds DEF BootTypes
<1>2. /\ Tail(bQueue) \in Seq(BootTasks)
      /\ \A i \in DOMAIN Tail(bQueue) : i + 1 \in DOMAIN bQueue /\ Tail(bQueue)[i] = bQueue[i + 1]
      /\ \A i \in DOMAIN bQueue : i # 1 => i - 1 \in DOMAIN Tail(bQueue) /\ Tail(bQueue)[i - 1] = bQueue[i]
  BY TailFacts DEF BootTypes
<1>3. /\ bQueue' \in Seq(BootTasks)
      /\ \A i \in DOMAIN bQueue' : bQueue'[i] = Boot!Pick \/ \E j \in DOMAIN bQueue : bQueue'[i] = bQueue[j]
      /\ \A i \in DOMAIN bQueue : i # 1 => \E j \in DOMAIN bQueue' : bQueue'[j] = bQueue[i]
  <2>1. CASE bQueue' = Tail(bQueue)
    BY <1>2, <2>1
  <2>2. CASE bQueue' = Append(Tail(bQueue), Boot!Pick)
    <3>1. /\ bQueue' \in Seq(BootTasks)
          /\ \A i \in DOMAIN Tail(bQueue) : i \in DOMAIN bQueue' /\ bQueue'[i] = Tail(bQueue)[i]
          /\ \A i \in DOMAIN bQueue' : i \in DOMAIN Tail(bQueue) \/ bQueue'[i] = Boot!Pick
      BY <1>2, <2>2, BootPick, AppendFacts
    <3>2. \A i \in DOMAIN bQueue' : bQueue'[i] = Boot!Pick \/ \E j \in DOMAIN bQueue : bQueue'[i] = bQueue[j]
      BY <1>2, <3>1
    <3>3. \A i \in DOMAIN bQueue : i # 1 => \E j \in DOMAIN bQueue' : bQueue'[j] = bQueue[i]
      BY <1>2, <3>1
    <3> QED  BY <3>1, <3>2, <3>3
  <2> QED  BY <1>1, <2>1, <2>2
<1>4. lane' \in Lanes /\ (lane'.pc \in LaneBusy => lane'.target \in Targets)
  <2>1. CASE lane' = [lane EXCEPT !.pc = "pick"]
    BY <2>1 DEF BootTypes, Lanes, LaneAwaits, LaneBusy, LaneMaking, LaneSending
  <2>2. CASE lane' = l
    BY <2>2
  <2> QED  BY <1>1, <2>1, <2>2
<1>5. \A i \in DOMAIN bQueue' : bQueue'[i].kind \in Aimed => bQueue'[i].target \in Targets
  BY <1>3, BootPick DEF BootTypes, Aimed
<1> QED  BY <1>1, <1>3, <1>4, <1>5 DEF BootTypes

(* After the grant or a close. *)
LEMMA TaskLate ==
  ASSUME BootInv, bQueue # <<>>, ~granting, ~Live, bQueue[1].kind # "abort",
         NEW r \in Bootstraps, r = b \/ (r.phase = "closed" /\ ~r.deadline),
         NEW l \in Lanes, l = lane \/ l.pc \in {"loop", "finish"}, Boot!FinishTask(r, l)
  PROVE  BootInv'
<1>1. BootTypes /\ GrantInv /\ RegistryInv
  BY DEF BootInv
<1>2. r.phase \in {"ready", "closed"} /\ (r.phase = "ready" => b.phase = "ready")
  BY <1>1 DEF Live, BootTypes, Bootstraps
<1>3. /\ UNCHANGED <<bVersion, bReserved, session, registry, bWire, bBack, bDev>>
      /\ b' = r /\ granting' = FALSE /\ audit' = Boot!AuditAfter(b') /\ lane' = l
  BY <1>1, <1>2, TaskEnds
<1>4. /\ BootTypes'
      /\ \A i \in DOMAIN bQueue : i # 1 => \E j \in DOMAIN bQueue' : bQueue'[j] = bQueue[i]
  <2>1. l.pc \in LaneBusy => l.target \in Targets
    BY <1>1 DEF BootTypes, LaneBusy, LaneMaking, LaneSending
  <2> QED  BY <1>1, <2>1, TaskTypes
<1>5. ~b'.deadline /\ ~Live'
  BY <1>1, <1>2, <1>3 DEF GrantInv, Live
<1>6. GrantInv'
  <2>1. audit' # "not_ready"
    BY <1>2, <1>3 DEF Boot!AuditAfter
  <2> QED  BY <1>1, <1>3, <1>5, <2>1 DEF GrantInv, Granted
<1>7. RegistryInv'
  <2>1. Aborting => Aborting'
    BY <1>4 DEF Aborting
  <2> QED  BY <1>1, <1>3, <1>5, <2>1 DEF RegistryInv, Live
<1> QED  BY <1>4, <1>5, <1>6, <1>7 DEF BootInv

(* Before it nothing is granted, mounted or registered. *)
LEMMA LiveFacts ==
  ASSUME BootInv, Live
  PROVE  /\ ~granting /\ ~session.post /\ registry = {}
         /\ BootTypes /\ LaneShape /\ WireOrder /\ \A t \in Targets : StandsAt(b, lane, t)
  BY DEF BootInv, GrantInv, RegistryInv, Granted

(* The connection is closed before anything was granted. *)
LEMMA EarlyClose ==
  ASSUME BootInv, Live, b'.phase = "closed", ~b'.deadline, ~granting', UNCHANGED <<registry, session>>,
         BootTypes'
  PROVE  BootInv'
<1>1. ~session.post /\ registry = {}
  BY LiveFacts
<1> QED  BY <1>1 DEF BootInv, GrantInv, RegistryInv, Live, Granted

LEMMA TaskCloses ==
  ASSUME BootInv, bQueue # <<>>, Live, NEW r \in Bootstraps, r.phase = "closed", ~r.deadline,
         NEW l \in Lanes, l.pc \in LaneBusy => l.target \in Targets, Boot!FinishTask(r, l)
  PROVE  BootInv'
<1>1. BootTypes /\ BootTypes'
  BY TaskTypes DEF BootInv
<1>2. /\ UNCHANGED <<registry, session>> /\ b' = r /\ ~granting'
  BY <1>1, TaskEnds
<1> QED  BY <1>1, <1>2, EarlyClose

(* Every target is applied and current. *)
LEMMA TaskGrants ==
  ASSUME BootInv, bQueue # <<>>, Live, bQueue[1].kind # "abort",
         NEW r \in Bootstraps, r.phase = "ready", ~r.deadline,
         \A t \in Targets : r.current[t] # Boot!None /\ bDev[t].version = r.current[t].version,
         bWire = <<>>, NEW l \in Lanes, l.pc \in {"idle", "loop", "finish"}, Boot!FinishTask(r, l)
  PROVE  BootInv'
<1>1. BootTypes /\ BootTypes'
  <2>1. l.pc \notin LaneBusy
    BY DEF LaneBusy, LaneMaking, LaneSending
  <2> QED  BY <2>1, TaskTypes DEF BootInv
<1>2. /\ UNCHANGED <<bVersion, bReserved, session, registry, bWire, bBack, bDev>>
      /\ \/ b' = r /\ granting'
         \/ b'.phase = "closed" /\ ~b'.deadline /\ granting' = granting
      /\ b'.phase # "bootstrapping" /\ lane' = l /\ audit' = Boot!AuditAfter(b')
  BY <1>1, TaskEnds DEF Live
<1>3. ~granting /\ ~session.post /\ registry = {} /\ ~session.disposed
  <2>1. session.disposed => bQueue[1].kind = "abort"
    BY DEF BootInv, RegistryInv
  <2> QED  BY <2>1, LiveFacts
<1>4. CASE b' = r /\ granting'
  <2>1. GrantInv'
    BY <1>2, <1>3, <1>4 DEF GrantInv, Live, Granted, Boot!AuditAfter
  <2>2. RegistryInv'
    BY <1>2, <1>3 DEF RegistryInv
  <2>3. ~Live'
    BY <1>4 DEF Live
  <2> QED  BY <1>1, <2>1, <2>2, <2>3 DEF BootInv
<1>5. CASE b'.phase = "closed" /\ ~b'.deadline /\ granting' = granting
  BY <1>1, <1>2, <1>3, <1>5, EarlyClose
<1> QED  BY <1>2, <1>4, <1>5

(* Where the queue is while bootstrapping goes on. *)
LEMMA HeadFacts ==
  ASSUME BootTypes, LaneShape, bQueue # <<>>
  PROVE  /\ BootHead = bQueue[1] /\ bQueue[1] \in BootTasks /\ 1 \in DOMAIN bQueue /\ Len(bQueue) > 0
         /\ lane.pc \in LaneWaits \cup LaneAwaits \cup {"committed"}
         /\ bQueue[1].kind \in Intake => Len(bQueue) = 1 /\ lane.pc \in LaneWaits
         /\ bQueue[1].kind \in LaneTasks =>
              /\ Len(bQueue) = 1 /\ lane.pc \in LaneAwaits
              /\ bQueue[1].kind \in (IF lane.pc = "sent" THEN {"sent", "sendFailed"} ELSE {lane.pc})
<1>1. BootHead = bQueue[1] /\ bQueue[1] \in BootTasks /\ 1 \in DOMAIN bQueue /\ Len(bQueue) > 0 /\ Len(bQueue) \in Nat
  BY TailFacts DEF BootTypes, BootHead
<1>2. lane.pc \in LaneWaits \cup LaneAwaits \cup {"committed"}
  BY DEF BootTypes, Lanes, LaneShape
<1>3. "notify" \notin Intake \cup LaneTasks /\ Intake \cap LaneTasks = {}
  BY DEF Intake, LaneTasks
<1>4. lane.pc \in LaneAwaits => bQueue[Len(bQueue)].kind \in LaneTasks
  BY DEF LaneShape, LaneAwaits, LaneTasks
<1>5. lane.pc \in LaneAwaits /\ bQueue[1].kind # "notify" => Len(bQueue) = 1
  <2> SUFFICES ASSUME lane.pc \in LaneAwaits, Len(bQueue) # 1 PROVE bQueue[1].kind = "notify"
    OBVIOUS
  <2> DEFINE n == Len(bQueue)
  <2>1. n \in Nat /\ n > 0 /\ n # 1
    BY <1>1
  <2> HIDE DEF n
  <2>2. 1 \in 1 .. n - 1
    BY <2>1
  <2> QED  BY <2>2 DEF LaneShape, n
<1>6. ASSUME bQueue[1].kind \in Intake PROVE Len(bQueue) = 1 /\ lane.pc \in LaneWaits
  <2>1. lane.pc \notin LaneAwaits
    BY <1>3, <1>4, <1>5, <1>6
  <2>2. lane.pc # "committed"
    BY <1>1, <1>3, <1>6 DEF LaneShape
  <2>3. lane.pc \in LaneWaits
    BY <1>2, <2>1, <2>2
  <2> QED  BY <1>1, <1>3, <1>6, <2>3 DEF LaneShape
<1>7. ASSUME bQueue[1].kind \in LaneTasks
      PROVE  /\ Len(bQueue) = 1 /\ lane.pc \in LaneAwaits
             /\ bQueue[1].kind \in (IF lane.pc = "sent" THEN {"sent", "sendFailed"} ELSE {lane.pc})
  <2>1. lane.pc \notin LaneWaits \cup {"committed"}
    BY <1>1, <1>3, <1>7 DEF LaneShape
  <2>2. lane.pc \in LaneAwaits /\ Len(bQueue) = 1
    BY <1>2, <1>3, <1>5, <1>7, <2>1
  <2> QED  BY <2>2 DEF LaneShape
<1> QED  BY <1>1, <1>2, <1>6, <1>7

LEMMA ShapeGoesOn ==
  ASSUME BootTypes, BootTypes', LaneShape, bQueue # <<>>, bQueue[1].kind # "start" \/ b'.phase # "idle",
         b.phase = "idle" => b'.phase # "idle",
         b'.phase = "idle" => b.phase = "idle",
         NEW l \in Lanes,
         \/ bQueue[1].kind \in {"notify"} \cup Intake /\ l = lane
         \/ bQueue[1].kind \in LaneTasks /\ l.pc \in {"emit", "loop", "finish", "committed"},
         \/ /\ lane.pc = "idle" /\ b'.phase = "bootstrapping"
            /\ bQueue' = Append(Tail(bQueue), Boot!Pick) /\ lane' = [lane EXCEPT !.pc = "pick"]
         \/ bQueue' = Tail(bQueue) /\ lane' = l
  PROVE  LaneShape'
<1> DEFINE q == Tail(bQueue)
<1>1. /\ q \in Seq(BootTasks) /\ Len(bQueue) \in Nat /\ Len(bQueue) > 0 /\ Len(q) = Len(bQueue) - 1
      /\ \A i \in DOMAIN q : i + 1 \in DOMAIN bQueue /\ q[i] = bQueue[i + 1]
      /\ DOMAIN q = 1 .. Len(q)
  BY TailFacts DEF BootTypes
<1>2. /\ lane.pc \in LaneWaits \cup LaneAwaits \cup {"committed"}
      /\ bQueue[1].kind \in Intake \cup LaneTasks => Len(bQueue) = 1
      /\ bQueue[1].kind \in Intake => lane.pc \in LaneWaits
      /\ bQueue[1].kind \in BootKinds
  BY HeadFacts DEF BootTasks, BootKinds
<1> HIDE DEF q
<1>3. b'.phase # "idle"
  OBVIOUS
<1>4. ASSUME lane.pc \in LaneWaits PROVE \A i \in DOMAIN q : q[i].kind = "notify"
  <2>1. CASE \A i \in DOMAIN bQueue : bQueue[i].kind = "notify"
    BY <1>1, <2>1
  <2>2. CASE Len(bQueue) = 1
    BY <1>1, <2>2
  <2> QED  BY <1>4, <2>1, <2>2 DEF LaneShape
<1>5. CASE bQueue' = Append(q, Boot!Pick) /\ lane.pc = "idle" /\ lane' = [lane EXCEPT !.pc = "pick"]
  <2>1. lane'.pc = "pick" /\ lane.pc \in LaneWaits
    BY <1>5 DEF BootTypes, Lanes, LaneWaits
  <2>2. /\ Len(bQueue') = Len(q) + 1 /\ bQueue'[Len(q) + 1] = Boot!Pick /\ Len(q) \in Nat
        /\ \A i \in DOMAIN q : bQueue'[i] = q[i]
    BY <1>1, <1>5, BootPick, AppendFacts
  <2>3. \A i \in 1 .. Len(bQueue') - 1 : bQueue'[i].kind = "notify"
    BY <1>1, <1>4, <2>1, <2>2
  <2>4. Len(bQueue') > 0 /\ bQueue'[Len(bQueue')].kind = "pick"
    BY <2>2, BootPick
  <2> QED  BY <1>3, <2>1, <2>3, <2>4 DEF LaneShape, LaneRuns, LaneWaits
<1>6. CASE bQueue' = q /\ lane' = l /\ bQueue[1].kind \in LaneTasks
  <2>1. Len(q) = 0
    BY <1>1, <1>2, <1>6
  <2>2. bQueue' = <<>>
    BY <1>1, <1>6, <2>1
  <2>3. lane'.pc \in {"emit", "loop", "finish", "committed"}
    BY <1>6 DEF LaneTasks, Intake
  <2> QED  BY <1>3, <2>2, <2>3 DEF LaneShape, LaneRuns, LaneWaits, LaneAwaits
<1>7. CASE bQueue' = q /\ lane' = lane /\ bQueue[1].kind \in Intake
  <2>1. lane.pc \in LaneWaits
    BY <1>2, <1>7
  <2> QED  BY <1>3, <1>4, <1>7, <2>1 DEF LaneShape, LaneRuns, LaneWaits, LaneAwaits
<1>8. CASE bQueue' = q /\ lane' = lane /\ bQueue[1].kind = "notify"
  <2>1. CASE lane.pc \in LaneWaits
    BY <1>3, <1>4, <1>8, <2>1 DEF LaneShape, LaneRuns, LaneWaits, LaneAwaits
  <2>2. CASE lane.pc = "committed"
    <3>1. \A i \in DOMAIN bQueue' : bQueue'[i].kind = "notify"
      BY <1>1, <1>8, <2>2 DEF LaneShape
    <3> QED  BY <1>3, <1>8, <2>2, <3>1 DEF LaneShape, LaneRuns, LaneWaits, LaneAwaits
  <2>3. CASE lane.pc \in LaneAwaits
    <3>1. /\ bQueue[Len(bQueue)].kind \in (IF lane.pc = "sent" THEN {"sent", "sendFailed"} ELSE {lane.pc})
          /\ \A i \in 1 .. Len(bQueue) - 1 : bQueue[i].kind = "notify"
      BY <2>3 DEF LaneShape
    <3>2. Len(bQueue) # 1
      BY <1>8, <2>3, <3>1 DEF LaneAwaits
    <3>3. Len(q) > 0 /\ q[Len(q)] = bQueue[Len(bQueue)]
      BY <1>1, <3>2
    <3>4. \A i \in 1 .. Len(q) - 1 : q[i].kind = "notify"
      BY <1>1, <3>1
    <3>5. lane.pc \notin LaneRuns \cup LaneWaits \cup {"committed", "idle"}
      BY <2>3 DEF LaneRuns, LaneWaits, LaneAwaits
    <3> QED  BY <1>3, <1>8, <3>1, <3>3, <3>4, <3>5 DEF LaneShape
  <2> QED  BY <1>2, <2>1, <2>2, <2>3
<1> QED  BY <1>2, <1>5, <1>6, <1>7, <1>8 DEF q, BootKinds

(* A task that leaves every target waiting for its last snapshot. *)
LEMMA TaskGoesOn ==
  ASSUME BootInv, bQueue # <<>>, Live, bQueue[1].kind # "abort",
         NEW r \in Bootstraps, r.phase = "bootstrapping",
         NEW l \in Lanes, l.pc \in LaneBusy => l.target \in Targets,
         \/ bQueue[1].kind \in {"notify"} \cup Intake /\ l = lane
         \/ bQueue[1].kind \in LaneTasks /\ l.pc \in {"emit", "loop", "finish", "committed"},
         l.pc \in Numbered => lane.pc \in Numbered /\ l.seq = lane.seq,
         \A t \in Targets : StandsAt(r, l, t), Boot!FinishTask(r, l)
  PROVE  BootInv'
<1>1. /\ BootTypes /\ LaneShape /\ WireOrder /\ ~granting /\ ~session.post /\ registry = {}
      /\ ~session.disposed
  <2>1. session.disposed => bQueue[1].kind = "abort"
    BY DEF BootInv, RegistryInv
  <2> QED  BY <2>1, LiveFacts
<1>2. /\ UNCHANGED <<bVersion, bReserved, session, registry, bWire, bBack, bDev>>
      /\ b' = r /\ ~granting'
      /\ \/ /\ lane.pc = "idle" /\ b'.phase = "bootstrapping"
            /\ bQueue' = Append(Tail(bQueue), Boot!Pick) /\ lane' = [lane EXCEPT !.pc = "pick"]
         \/ bQueue' = Tail(bQueue) /\ lane' = l
  BY <1>1, TaskEnds
<1>3. /\ BootTypes'
      /\ \A i \in DOMAIN bQueue' : bQueue'[i] = Boot!Pick \/ \E j \in DOMAIN bQueue : bQueue'[i] = bQueue[j]
  BY <1>1, TaskTypes
<1>4. LaneShape'
  BY <1>1, <1>2, <1>3, ShapeGoesOn DEF Live
<1>5. lane'.pc \in Numbered => lane.pc \in Numbered /\ lane'.seq = lane.seq
  BY <1>1, <1>2 DEF BootTypes, Lanes, Numbered
<1>6. Confirmed(bQueue)'
  BY <1>1, <1>2, <1>3, BootPick DEF WireOrder, Confirmed
<1>7. WireOrder'
  BY <1>1, <1>2, <1>5, <1>6 DEF WireOrder, Confirmed
<1>8. ASSUME NEW t \in Targets PROVE StandsAt(b, lane, t)'
  <2>1. lane' = l \/ ~LaneOn(lane', t, LaneBusy)
    BY <1>1, <1>2 DEF BootTypes, Lanes, LaneOn, LaneBusy, LaneMaking, LaneSending
  <2>2. lane' \in Lanes
    BY <1>3 DEF BootTypes
  <2>3. StandsAt(r, lane', t)
    BY <2>1, <2>2, StandsOther
  <2> QED  BY <1>2, <2>3 DEF StandsAt, Awaited, Unspoiled, Latest, LaneOn
<1>9. GrantInv' /\ RegistryInv'
  BY <1>1, <1>2 DEF GrantInv, RegistryInv, Granted
<1> QED  BY <1>3, <1>4, <1>7, <1>8, <1>9 DEF BootInv

------------------------------------------------------------------------------
(* Tasks of the queue *)

LEMMA BootRunFacts ==
  ASSUME BootInv, bQueue # <<>>, ~granting
  PROVE  /\ BootTypes /\ b \in Bootstraps /\ lane \in Lanes /\ (b.phase = "closed" => ~b.deadline)
         /\ Head(bQueue) = bQueue[1] /\ bQueue[1] \in BootTasks
         /\ bQueue[1].kind \in Aimed => bQueue[1].target \in Targets
         /\ lane.pc \in LaneBusy => lane.target \in Targets
         /\ Live /\ bQueue[1].kind # "start" => b.phase = "bootstrapping"
         /\ Live /\ bQueue[1].kind = "applied" => bQueue[1].n <= bDev[bQueue[1].target].seq
         /\ Live /\ bQueue[1].kind \in LaneTasks =>
              bQueue[1].kind \in (IF lane.pc = "sent" THEN {"sent", "sendFailed"} ELSE {lane.pc})
<1>1. BootTypes /\ Head(bQueue) = bQueue[1] /\ bQueue[1] \in BootTasks /\ 1 \in DOMAIN bQueue
  BY TailFacts DEF BootInv, BootTypes
<1>2. b.phase = "closed" => ~b.deadline
  BY DEF BootInv, GrantInv
<1>3. ASSUME Live
      PROVE  /\ bQueue[1].kind # "start" => b.phase = "bootstrapping"
             /\ bQueue[1].kind = "applied" => bQueue[1].n <= bDev[bQueue[1].target].seq
             /\ bQueue[1].kind \in LaneTasks =>
                  bQueue[1].kind \in (IF lane.pc = "sent" THEN {"sent", "sendFailed"} ELSE {lane.pc})
  <2>1. LaneShape /\ WireOrder
    BY <1>3, LiveFacts
  <2>2. bQueue[1].kind # "start" => b.phase = "bootstrapping"
    BY <1>3, <2>1 DEF Live, LaneShape
  <2>3. bQueue[1].kind = "applied" => bQueue[1].n <= bDev[bQueue[1].target].seq
    BY <1>1, <2>1 DEF WireOrder, Confirmed
  <2>4. bQueue[1].kind \in LaneTasks =>
          bQueue[1].kind \in (IF lane.pc = "sent" THEN {"sent", "sendFailed"} ELSE {lane.pc})
    BY <1>1, <2>1, HeadFacts
  <2> QED  BY <2>2, <2>3, <2>4
<1>4. b \in Bootstraps /\ lane \in Lanes /\ (lane.pc \in LaneBusy => lane.target \in Targets)
      /\ (bQueue[1].kind \in Aimed => bQueue[1].target \in Targets)
  BY <1>1 DEF BootTypes
<1> QED  BY <1>1, <1>2, <1>3, <1>4

LEMMA SameTask ==
  ASSUME BootInv, bQueue # <<>>, ~granting, bQueue[1].kind \in ({"notify"} \cup Intake) \ {"abort"},
         b.phase # "idle", Boot!FinishTask(b, lane)
  PROVE  BootInv'
<1>1. /\ b \in Bootstraps /\ lane \in Lanes /\ (lane.pc \in LaneBusy => lane.target \in Targets)
      /\ bQueue[1].kind # "abort"
  BY BootRunFacts
<1>2. CASE ~Live
  BY <1>1, <1>2, TaskLate
<1>3. CASE Live
  <2>1. b.phase = "bootstrapping" /\ \A t \in Targets : StandsAt(b, lane, t)
    BY <1>3, LiveFacts DEF Live
  <2> QED  BY <1>1, <1>3, <2>1, TaskGoesOn
<1> QED  BY <1>2, <1>3

LEMMA BootStartStep == BootInv /\ Boot!Start => BootInv'
<1> SUFFICES ASSUME BootInv, Boot!Start PROVE BootInv'
  OBVIOUS
<1>1. bQueue # <<>> /\ ~granting /\ Head(bQueue).kind = "start"
  BY DEF Boot!Start, Boot!Runs
<1>2. /\ Head(bQueue) = bQueue[1] /\ b \in Bootstraps /\ lane \in Lanes /\ BootTypes
      /\ (lane.pc \in LaneBusy => lane.target \in Targets)
  BY <1>1, BootRunFacts
<1>3. bQueue[1].kind = "start" /\ bQueue[1].kind \in Intake /\ bQueue[1].kind # "abort"
  BY <1>1, <1>2 DEF Intake
<1>4. CASE b.phase # "idle"
  <2>1. Boot!FinishTask(b, lane)
    BY <1>4 DEF Boot!Start
  <2> QED  BY <1>1, <1>3, <1>4, <2>1, SameTask
<1>5. CASE b.phase = "idle"
  <2> DEFINE r == [b EXCEPT !.phase = "bootstrapping", !.deadline = TRUE, !.pending = Targets]
  <2>1. Boot!FinishTask(r, lane)
    BY <1>5 DEF Boot!Start
  <2>2. /\ r \in Bootstraps /\ r.phase = "bootstrapping" /\ r.current = b.current
    BY <1>2 DEF Bootstraps
  <2> HIDE DEF r
  <2>3. Live
    BY <1>5 DEF Live
  <2>4. lane.pc = "idle" /\ \A t \in Targets : b.current[t] = Boot!None
    BY <1>5, <2>3, LiveFacts DEF LaneShape
  <2>5. \A t \in Targets : StandsAt(r, lane, t)
    BY <2>2, <2>4 DEF StandsAt, Unspoiled, LaneOn, LaneMaking
  <2>6. lane.pc \notin Numbered
    BY <2>4 DEF Numbered
  <2> QED  BY <1>1, <1>2, <1>3, <2>1, <2>2, <2>3, <2>5, <2>6, TaskGoesOn
<1> QED  BY <1>4, <1>5

LEMMA BootNotifyStep == BootInv /\ Boot!RunNotify => BootInv'
<1> SUFFICES ASSUME BootInv, Boot!RunNotify PROVE BootInv'
  OBVIOUS
<1>1. bQueue # <<>> /\ ~granting /\ Head(bQueue).kind = "notify"
  BY DEF Boot!RunNotify, Boot!Runs
<1>2. /\ Head(bQueue) = bQueue[1] /\ b \in Bootstraps /\ lane \in Lanes /\ BootTypes
      /\ (lane.pc \in LaneBusy => lane.target \in Targets)
      /\ Live => b.phase = "bootstrapping"
      /\ bQueue[1].kind = "notify" /\ bQueue[1].target \in Targets
  BY <1>1, BootRunFacts DEF Aimed
<1>3. PICK t \in Targets : t = bQueue[1].target
  BY <1>2
<1>4. CASE ~Live
  <2>1. Boot!FinishTask(b, lane)
    BY <1>2, <1>4 DEF Boot!RunNotify, Boot!Arg, Boot!Bootstrapping, Live
  <2>2. b.phase # "idle"
    BY <1>4 DEF Live
  <2> QED  BY <1>1, <1>2, <2>1, <2>2, SameTask
<1>5. CASE Live
  <2> DEFINE d == Boot!Drop(b, t)
             e == [b.epoch EXCEPT ![t] = b.epoch[t] + 1]
             p == b.pending \cup {t}
             r == [d EXCEPT !.epoch = e, !.pending = p]
  <2>1. /\ d = [b EXCEPT !.current = [b.current EXCEPT ![t] = Boot!None],
                         !.applied = [b.applied EXCEPT ![t] = 0]]
        /\ d \in Bootstraps
    BY <1>2, DropFacts
  <2>2. d.phase = b.phase /\ d.epoch = b.epoch /\ d.pending = b.pending
        /\ d.current = [b.current EXCEPT ![t] = Boot!None]
        /\ d.applied = [b.applied EXCEPT ![t] = 0]
    <3> HIDE DEF d
    <3> QED  BY <1>2, <2>1 DEF Bootstraps
  <2>3. Boot!FinishTask(r, lane)
    <3>1. Boot!FinishTask([Boot!Drop(b, t) EXCEPT !.epoch[t] = @ + 1, !.pending = @ \cup {t}], lane)
      BY <1>2, <1>3, <1>5 DEF Boot!RunNotify, Boot!Arg, Boot!Bootstrapping
    <3>2. [Boot!Drop(b, t) EXCEPT !.epoch[t] = @ + 1, !.pending = @ \cup {t}] = r
      <4> HIDE DEF d
      <4> QED  BY <2>1, <2>2 DEF Bootstraps, d
    <3> HIDE DEF r
    <3> QED  BY <3>1, <3>2
  <2>4. e \in [Targets -> Nat] /\ p \in SUBSET Targets
    BY <1>2 DEF Bootstraps
  <2>5. b.epoch \in [Targets -> Nat] /\ b.current \in [Targets -> Snapshots \cup {Boot!None}]
        /\ b.applied \in [Targets -> Nat]
    BY <1>2 DEF Bootstraps
  <2> HIDE DEF d
  <2>6. /\ r \in Bootstraps /\ r.phase = "bootstrapping" /\ r.epoch = e /\ r.pending = p
        /\ r.current = d.current /\ r.applied = d.applied
    <3> HIDE DEF e, p
    <3> QED  BY <1>2, <1>5, <2>1, <2>2, <2>4 DEF Bootstraps
  <2> HIDE DEF r
  <2>7. bQueue # <<>> => ~LaneOn(lane, t, {"emit"})
    BY <1>5, LiveFacts DEF LaneShape, LaneOn, LaneRuns
  <2>8. ASSUME NEW u \in Targets PROVE StandsAt(r, lane, u)
    <3>1. StandsAt(b, lane, u)
      BY <1>5, LiveFacts
    <3>2. CASE u # t
      <4>1. /\ r.current[u] = b.current[u] /\ r.applied[u] = b.applied[u] /\ r.epoch[u] = b.epoch[u]
            /\ (u \in r.pending => u \in b.pending)
        BY <2>2, <2>5, <2>6, <3>2
      <4> QED  BY <1>2, <2>6, <3>1, <4>1, StandsOther
    <3>3. CASE u = t
      <4>1. r.current[t] = Boot!None /\ r.epoch[t] = b.epoch[t] + 1 /\ b.epoch[t] \in Nat
        BY <2>2, <2>5, <2>6
      <4>2. lane.epoch \in Nat
        BY <1>2 DEF Lanes
      <4> QED  BY <1>1, <2>7, <3>1, <3>3, <4>1, <4>2 DEF StandsAt, Unspoiled
    <3> QED  BY <3>2, <3>3
  <2> QED  BY <1>1, <1>2, <1>5, <2>3, <2>6, <2>8, TaskGoesOn
<1> QED  BY <1>4, <1>5

(* A snapshot that is confirmed, applied or timed keeps its place. *)
LEMMA StandsRetouched ==
  ASSUME NEW c \in Bootstraps, NEW d \in Bootstraps, NEW l \in Lanes, NEW k \in Lanes, NEW t \in Targets,
         StandsAt(c, l, t), c.current[t] # Boot!None,
         d.current[t].seq = c.current[t].seq, d.current[t].version = c.current[t].version,
         d.epoch[t] = c.epoch[t], t \in d.pending => t \in c.pending,
         d.applied[t] = c.applied[t] \/ bDev[t].seq = c.current[t].seq,
         (k = l /\ d.current[t].confirmed = c.current[t].confirmed) \/ ~LaneOn(k, t, LaneBusy)
  PROVE  StandsAt(d, k, t)
<1>1. Awaited(c, l, t) /\ Unspoiled(c, l, t)
  BY DEF StandsAt
<1>2. Latest(d.current[t], t)
  BY <1>1 DEF Awaited, Latest
<1>3. CASE k = l /\ d.current[t].confirmed = c.current[t].confirmed
  BY <1>1, <1>2, <1>3 DEF StandsAt, Awaited, Unspoiled
<1>4. CASE ~LaneOn(k, t, LaneBusy)
  BY <1>1, <1>2, <1>4 DEF StandsAt, Awaited, Unspoiled, LaneOn, LaneBusy, LaneMaking, LaneSending
<1> QED  BY <1>3, <1>4

LEMMA CompleteFacts ==
  ASSUME BootTypes, WireOrder, NEW r \in Bootstraps, NEW l \in Lanes, Boot!Complete(r),
         l.pc \in LaneBusy => l.target \in Targets, \A t \in Targets : StandsAt(r, l, t)
  PROVE  /\ bWire = <<>> /\ l.pc \notin LaneBusy
         /\ \A t \in Targets : r.current[t] # Boot!None /\ bDev[t].version = r.current[t].version
<1>1. ASSUME NEW t \in Targets
      PROVE  /\ r.current[t] # Boot!None /\ Latest(r.current[t], t) /\ bDev[t].seq = r.current[t].seq
             /\ ~LaneOn(l, t, LaneBusy)
  <2>1. r.current[t] # Boot!None /\ r.current[t].confirmed /\ r.applied[t] = r.current[t].seq
    BY DEF Boot!Complete
  <2>2. Awaited(r, l, t)
    BY <2>1 DEF StandsAt
  <2>3. Latest(r.current[t], t) /\ bDev[t].seq = r.current[t].seq
    BY <2>1, <2>2 DEF Awaited
  <2>4. ~LaneOn(l, t, LaneMaking) /\ ~LaneOn(l, t, LaneSending)
    BY <2>1, <2>2 DEF Awaited
  <2> QED  BY <2>1, <2>3, <2>4 DEF LaneOn, LaneBusy
<1>2. l.pc \notin LaneBusy
  BY <1>1 DEF LaneOn
<1>3. bWire = <<>>
  <2> SUFFICES ASSUME bWire # <<>> PROVE FALSE
    OBVIOUS
  <2>1. 1 \in DOMAIN bWire /\ bWire[1] \in Issued
    BY TailFacts DEF BootTypes
  <2>2. PICK t \in Targets : t = bWire[1].target
    BY <2>1 DEF Issued
  <2>3. bWire[1].seq <= bDev[t].seq
    BY <1>1, <2>1, <2>2 DEF Latest
  <2>4. bDev[t].seq < bWire[1].seq
    BY <2>1 DEF WireOrder
  <2>5. bDev[t].seq \in Nat /\ bWire[1].seq \in Nat
    BY <2>1 DEF BootTypes, Shown, Issued
  <2> QED  BY <2>3, <2>4, <2>5
<1>4. \A t \in Targets : bDev[t].version = r.current[t].version
  BY <1>1 DEF Latest
<1> QED  BY <1>1, <1>2, <1>3, <1>4

(* A task that ends by asking for the grant. *)
LEMMA GrantTask ==
  ASSUME BootInv, bQueue # <<>>, ~granting, Live, bQueue[1].kind # "abort",
         NEW r \in Bootstraps, r.phase = "bootstrapping",
         NEW l \in Lanes, l.pc \in LaneBusy => l.target \in Targets,
         \/ bQueue[1].kind \in Intake /\ l = lane
         \/ bQueue[1].kind \in LaneTasks /\ l.pc = "loop",
         l.pc \in Numbered => lane.pc \in Numbered /\ l.seq = lane.seq,
         \A t \in Targets : StandsAt(r, l, t), Boot!FinishTask(Boot!Grant(r), l)
  PROVE  BootInv'
<1> DEFINE S == {t \in Targets : ~Boot!IsCurrent(t, r.current[t])}
           c == Boot!Grant(r)
           i == Boot!InvalidateStale(r, S)
           g == [r EXCEPT !.phase = "ready", !.deadline = FALSE]
<1>1. BootTypes /\ WireOrder /\ LaneShape
  BY LiveFacts
<1>2. \/ bQueue[1].kind \in {"notify"} \cup Intake /\ l = lane
      \/ bQueue[1].kind \in LaneTasks /\ l.pc \in {"emit", "loop", "finish", "committed"}
  OBVIOUS
<1>3. \/ c = r
      \/ Boot!Complete(r) /\ c = i
      \/ Boot!Complete(r) /\ c = g
  BY GrantFacts
<1> HIDE DEF c, i, g, S
<1>4. Boot!FinishTask(c, l)
  BY DEF c
<1>5. CASE c = r
  BY <1>2, <1>4, <1>5, TaskGoesOn
<1>6. CASE Boot!Complete(r) /\ c = i
  <2>1. S \in SUBSET Targets
    BY DEF S
  <2>2. Reissues(r, i, S)
    BY <2>1, StaleFacts DEF i
  <2>3. \A u \in S : r.current[u] # Boot!None
    BY <1>6, <2>1 DEF Boot!Complete
  <2>4. \A u \in Targets : StandsAt(i, l, u)
    BY <2>1, <2>2, <2>3, ReissueStands
  <2>5. i \in Bootstraps /\ i.phase = "bootstrapping"
    BY <2>2 DEF Reissues
  <2> QED  BY <1>2, <1>4, <1>6, <2>4, <2>5, TaskGoesOn
<1>7. CASE Boot!Complete(r) /\ c = g
  <2>1. /\ bWire = <<>> /\ l.pc \notin LaneBusy
        /\ \A t \in Targets : r.current[t] # Boot!None /\ bDev[t].version = r.current[t].version
    BY <1>1, <1>7, CompleteFacts
  <2>2. g \in Bootstraps /\ g.phase = "ready" /\ ~g.deadline /\ g.current = r.current
    BY ReadyFacts DEF g
  <2>3. l.pc \in {"idle", "loop", "finish"}
    <3>1. CASE bQueue[1].kind \in Intake /\ l = lane
      <4>1. lane.pc \in LaneWaits
        BY <1>1, <3>1, HeadFacts
      <4> QED  BY <2>1, <3>1, <4>1 DEF LaneWaits, LaneBusy, LaneMaking, LaneSending
    <3>2. CASE l.pc = "loop"
      BY <3>2
    <3> QED  BY <3>1, <3>2
  <2> QED  BY <1>4, <1>7, <2>1, <2>2, <2>3, TaskGrants
<1> QED  BY <1>3, <1>5, <1>6, <1>7

(* The ends of a task that every handler shares. *)
LEMMA ClosingTask ==
  ASSUME BootInv, bQueue # <<>>, ~granting, bQueue[1].kind # "abort",
         NEW r \in Bootstraps, r.phase = "closed" /\ ~r.deadline,
         NEW l \in Lanes, l = lane \/ l.pc \in {"loop", "finish"}, Boot!FinishTask(r, l)
  PROVE  BootInv'
<1>1. l.pc \in LaneBusy => l.target \in Targets
  BY BootRunFacts DEF LaneBusy, LaneMaking, LaneSending
<1> QED  BY <1>1, TaskLate, TaskCloses

LEMMA ReissuingTask ==
  ASSUME BootInv, bQueue # <<>>, ~granting, Live,
         NEW S \in SUBSET Targets, NEW r, Reissues(b, r, S), b.phase = "bootstrapping",
         NEW l \in Lanes,
         \/ bQueue[1].kind \in Intake \ {"abort"} /\ l = lane /\ (\A u \in S : b.current[u] # Boot!None)
         \/ bQueue[1].kind \in LaneTasks /\ l.pc \in {"loop", "finish"},
         Boot!FinishTask(r, l)
  PROVE  BootInv'
<1>1. BootTypes /\ b \in Bootstraps /\ lane \in Lanes /\ \A u \in Targets : StandsAt(b, lane, u)
  BY LiveFacts DEF BootTypes
<1>2. /\ l.pc \in LaneBusy => l.target \in Targets
      /\ l.pc \in Numbered => lane.pc \in Numbered /\ l.seq = lane.seq
      /\ l = lane \/ l.pc \notin LaneBusy
      /\ bQueue[1].kind # "abort"
  BY <1>1 DEF BootTypes, LaneBusy, LaneMaking, LaneSending, Numbered, LaneTasks
<1>3. \A u \in Targets : StandsAt(b, l, u)
  BY <1>1, <1>2, StandsOther DEF LaneOn
<1>4. \A u \in S : b.current[u] # Boot!None \/ l.pc \notin LaneMaking
  BY <1>2 DEF LaneMaking
<1>5. r \in Bootstraps /\ r.phase = "bootstrapping" /\ \A u \in Targets : StandsAt(r, l, u)
  BY <1>1, <1>3, <1>4, ReissueStands DEF Reissues
<1>6. \/ bQueue[1].kind \in {"notify"} \cup Intake /\ l = lane
      \/ bQueue[1].kind \in LaneTasks /\ l.pc \in {"emit", "loop", "finish", "committed"}
  OBVIOUS
<1> QED  BY <1>2, <1>5, <1>6, TaskGoesOn

(* What an answer makes of the coordinator. *)
AckResult ==
  LET t == Head(bQueue).target
      a == b.current[t]
      n == Head(bQueue).n
      exact == a # Boot!None /\ a.seq = n
  IN  CASE b.phase = "closed" -> b
        [] b.phase # "closed" /\ n \notin b.issued -> Boot!CloseConnection(b, "protocol_violation")
        [] b.phase = "ready" /\ n \in b.issued ->
             IF ~exact \/ (Head(bQueue).kind = "applied" /\ b.applied[t] = n) THEN b
             ELSE Boot!CloseConnection(b, "protocol_violation")
        [] Boot!Bootstrapping(b) /\ n \in b.issued ->
             IF ~exact THEN b
             ELSE IF ~Boot!IsCurrent(t, a) THEN Boot!InvalidateStale(b, {t})
             ELSE IF Head(bQueue).kind = "error" THEN Boot!ConsumeRetry(b, t)
             ELSE Boot!Grant([b EXCEPT !.current[t].armed = FALSE, !.applied[t] = n])

LEMMA BootAckStep == BootInv /\ Boot!RunAck => BootInv'
<1> SUFFICES ASSUME BootInv, Boot!RunAck PROVE BootInv'
  OBVIOUS
<1>1. bQueue # <<>> /\ ~granting /\ Head(bQueue).kind \in {"applied", "error"}
  BY DEF Boot!RunAck, Boot!Runs
<1>2. /\ Head(bQueue) = bQueue[1] /\ b \in Bootstraps /\ lane \in Lanes /\ BootTypes
      /\ (lane.pc \in LaneBusy => lane.target \in Targets)
      /\ Live => b.phase = "bootstrapping"
      /\ bQueue[1].kind \in {"applied", "error"} /\ bQueue[1].target \in Targets
      /\ bQueue[1].kind \in Intake \ {"abort"} /\ bQueue[1] \in BootTasks
      /\ b.phase = "closed" => ~b.deadline
      /\ Live /\ bQueue[1].kind = "applied" => bQueue[1].n <= bDev[bQueue[1].target].seq
  BY <1>1, BootRunFacts DEF Aimed, Intake
<1>3. Boot!FinishTask(AckResult, lane)
  BY Zenon DEF Boot!RunAck, Boot!Arg, AckResult
<1>4. PICK t \in Targets, n \in Int, k \in {"applied", "error"} :
        t = bQueue[1].target /\ n = bQueue[1].n /\ k = bQueue[1].kind
  BY <1>2 DEF BootTasks
<1> DEFINE a == b.current[t]
           r == [b EXCEPT !.current[t].armed = FALSE, !.applied[t] = n]
           c == AckResult
<1>5. \/ c = b /\ b.phase # "idle"
      \/ c = Boot!CloseConnection(b, "protocol_violation")
      \/ /\ b.phase = "bootstrapping" /\ a # Boot!None /\ a.seq = n
         /\ \/ c = Boot!InvalidateStale(b, {t})
            \/ c = Boot!ConsumeRetry(b, t)
            \/ k = "applied" /\ c = Boot!Grant(r)
  <2> HIDE DEF r, a
  <2>1. b.phase = "closed" => c = b
    BY DEF AckResult, Boot!Bootstrapping
  <2>2. b.phase # "closed" /\ n \notin b.issued => c = Boot!CloseConnection(b, "protocol_violation")
    BY <1>2, <1>4 DEF AckResult, Boot!Bootstrapping
  <2>3. b.phase = "ready" /\ n \in b.issued => c = b \/ c = Boot!CloseConnection(b, "protocol_violation")
    BY <1>2, <1>4 DEF AckResult, Boot!Bootstrapping
  <2>4. b.phase = "bootstrapping" /\ n \in b.issued =>
          \/ c = b
          \/ /\ a # Boot!None /\ a.seq = n
             /\ \/ c = Boot!InvalidateStale(b, {t})
                \/ c = Boot!ConsumeRetry(b, t)
                \/ k # "error" /\ c = Boot!Grant(r)
    BY <1>2, <1>4 DEF AckResult, Boot!Bootstrapping, a, r
  <2>5. b.phase \in {"bootstrapping", "ready", "closed"}
    BY <1>2 DEF Live, Bootstraps
  <2> QED  BY <2>1, <2>2, <2>3, <2>4, <2>5
<1> HIDE DEF c
<1>6. Boot!FinishTask(c, lane) /\ bQueue[1].kind \in {"notify"} \cup Intake /\ bQueue[1].kind # "abort"
      /\ bQueue[1].kind \in ({"notify"} \cup Intake) \ {"abort"}
  BY <1>2, <1>3 DEF c
<1>7. CASE c = b /\ b.phase # "idle"
  BY <1>1, <1>6, <1>7, SameTask
<1>8. CASE c = Boot!CloseConnection(b, "protocol_violation")
  <2>1. c \in Bootstraps /\ c.phase = "closed" /\ ~c.deadline
    BY <1>2, <1>8, BootCloseFacts DEF BootReasons
  <2> QED  BY <1>1, <1>2, <1>6, <2>1, ClosingTask
<1>9. ASSUME b.phase = "bootstrapping", a # Boot!None, a.seq = n PROVE
        /\ Live /\ {t} \in SUBSET Targets /\ \A u \in {t} : b.current[u] # Boot!None
        /\ \A u \in Targets : StandsAt(b, lane, u)
  <2>1. Live
    BY <1>9 DEF Live
  <2> QED  BY <1>9, <2>1, LiveFacts
<1>10. CASE b.phase = "bootstrapping" /\ a # Boot!None /\ a.seq = n /\ c = Boot!InvalidateStale(b, {t})
  <2>1. Reissues(b, c, {t})
    BY <1>2, <1>9, <1>10, StaleFacts
  <2> QED  BY <1>1, <1>2, <1>6, <1>9, <1>10, <2>1, ReissuingTask
<1>11. CASE b.phase = "bootstrapping" /\ a # Boot!None /\ a.seq = n /\ c = Boot!ConsumeRetry(b, t)
  <2>1. CASE c \in Bootstraps /\ c.phase = "closed" /\ ~c.deadline
    BY <1>1, <1>2, <1>6, <2>1, ClosingTask
  <2>2. CASE Reissues(b, c, {t})
    BY <1>1, <1>2, <1>6, <1>9, <1>11, <2>2, ReissuingTask
  <2>3. LET d == Boot!ConsumeRetry(b, t) IN
          \/ d \in Bootstraps /\ d.phase = "closed" /\ ~d.deadline
          \/ Reissues(b, d, {t})
    BY <1>2, <1>11, ConsumeFacts
  <2> QED  BY <1>11, <2>1, <2>2, <2>3
<1>12. CASE b.phase = "bootstrapping" /\ a # Boot!None /\ a.seq = n /\ k = "applied" /\ c = Boot!Grant(r)
  <2> DEFINE d == [a EXCEPT !.armed = FALSE]
             cur == [b.current EXCEPT ![t] = d]
             app == [b.applied EXCEPT ![t] = n]
  <2>1. a \in Snapshots /\ n \in Nat
    <3>1. a \in Snapshots
      BY <1>2, <1>12 DEF Bootstraps
    <3> QED  BY <1>12, <3>1 DEF Snapshots
  <2>2. d \in Snapshots /\ d.seq = a.seq /\ d.version = a.version
    BY <2>1 DEF Snapshots
  <2>3. d.confirmed = a.confirmed
    BY <2>1 DEF Snapshots
  <2>4. r = [b EXCEPT !.current = cur, !.applied = app]
    BY <1>2 DEF Bootstraps
  <2>5. /\ cur \in [Targets -> Snapshots \cup {Boot!None}] /\ cur[t] = d
        /\ \A u \in Targets : u # t => cur[u] = b.current[u]
    <3> HIDE DEF d
    <3> QED  BY <1>2, <2>2 DEF Bootstraps
  <2>6. /\ app \in [Targets -> Nat] /\ app[t] = n /\ \A u \in Targets : u # t => app[u] = b.applied[u]
    BY <1>2, <2>1 DEF Bootstraps
  <2> HIDE DEF r, cur, app, d
  <2>7. /\ r \in Bootstraps /\ r.phase = "bootstrapping" /\ r.epoch = b.epoch /\ r.pending = b.pending
        /\ r.current = cur /\ r.applied = app
    BY <1>2, <1>12, <2>4, <2>5, <2>6 DEF Bootstraps
  <2>8. bDev[t].seq = a.seq
    <3>1. Latest(a, t)
      BY <1>9, <1>12 DEF StandsAt, Awaited
    <3>2. bDev[t].seq <= a.seq /\ n <= bDev[t].seq
      BY <1>2, <1>4, <1>9, <1>12, <3>1 DEF Latest
    <3>3. bDev[t].seq \in Nat
      BY <1>2 DEF BootTypes, Shown
    <3> QED  BY <1>12, <2>1, <3>2, <3>3
  <2>9. ASSUME NEW u \in Targets PROVE StandsAt(r, lane, u)
    <3>1. StandsAt(b, lane, u)
      BY <1>9, <1>12
    <3>2. CASE u # t
      BY <1>2, <2>5, <2>6, <2>7, <3>1, <3>2, StandsOther
    <3>3. CASE u = t
      BY <1>2, <1>12, <2>2, <2>3, <2>5, <2>6, <2>7, <2>8, <3>1, <3>3, StandsRetouched
    <3> QED  BY <3>2, <3>3
  <2>10. Boot!FinishTask(Boot!Grant(r), lane)
    BY <1>6, <1>12
  <2> QED  BY <1>1, <1>2, <1>9, <1>12, <2>7, <2>9, <2>10, GrantTask
<1> QED  BY <1>5, <1>7, <1>8, <1>10, <1>11, <1>12

LEMMA BootTimeoutStep == BootInv /\ (Boot!RunTimeout \/ Boot!RunMalformed) => BootInv'
<1> SUFFICES ASSUME BootInv, Boot!RunTimeout \/ Boot!RunMalformed PROVE BootInv'
  OBVIOUS
<1>1. bQueue # <<>> /\ ~granting /\ Head(bQueue).kind \in {"timeout", "malformed"}
  BY DEF Boot!RunTimeout, Boot!RunMalformed, Boot!Runs
<1>2. /\ Head(bQueue) = bQueue[1] /\ b \in Bootstraps /\ lane \in Lanes /\ BootTypes
      /\ Live => b.phase = "bootstrapping"
      /\ bQueue[1].kind \in Intake \ {"abort"}
      /\ bQueue[1].kind \in ({"notify"} \cup Intake) \ {"abort"}
      /\ b.phase = "closed" => ~b.deadline
      /\ bQueue[1].kind = "timeout" => bQueue[1].target \in Targets
  BY <1>1, BootRunFacts DEF Aimed, Intake
<1>3. CASE Boot!RunMalformed
  <2> DEFINE c == Boot!CloseConnection(b, "protocol_violation")
  <2>1. Boot!FinishTask(c, lane)
    BY <1>3 DEF Boot!RunMalformed
  <2>2. c \in Bootstraps /\ c.phase = "closed" /\ ~c.deadline
    BY <1>2, BootCloseFacts DEF BootReasons
  <2> HIDE DEF c
  <2> QED  BY <1>1, <1>2, <2>1, <2>2, ClosingTask
<1>4. CASE Boot!RunTimeout
  <2>1. bQueue[1].kind = "timeout"
    BY <1>2, <1>4 DEF Boot!RunTimeout, Boot!Runs
  <2>2. PICK t \in Targets : t = bQueue[1].target
    BY <1>2, <2>1
  <2> DEFINE c == Boot!ConsumeRetry(b, t)
  <2>3. \/ Boot!FinishTask(b, lane) /\ b.phase # "idle"
        \/ Boot!FinishTask(c, lane) /\ b.phase = "bootstrapping" /\ b.current[t] # Boot!None
    <3> HIDE DEF c
    <3>1. b.phase # "idle"
      BY <1>2 DEF Live
    <3> QED  BY <1>2, <1>4, <2>2, <3>1 DEF Boot!RunTimeout, Boot!Arg, Boot!Bootstrapping, c
  <2>4. b.phase = "bootstrapping" =>
          \/ c \in Bootstraps /\ c.phase = "closed" /\ ~c.deadline
          \/ Reissues(b, c, {t})
    BY <1>2, ConsumeFacts
  <2> HIDE DEF c
  <2>5. CASE Boot!FinishTask(b, lane) /\ b.phase # "idle"
    BY <1>1, <1>2, <2>5, SameTask
  <2>6. CASE Boot!FinishTask(c, lane) /\ c \in Bootstraps /\ c.phase = "closed" /\ ~c.deadline
    BY <1>1, <1>2, <2>6, ClosingTask
  <2>7. CASE Boot!FinishTask(c, lane) /\ b.phase = "bootstrapping" /\ b.current[t] # Boot!None /\ Reissues(b, c, {t})
    <3>1. Live /\ {t} \in SUBSET Targets /\ \A u \in {t} : b.current[u] # Boot!None
      BY <2>7 DEF Live
    <3> QED  BY <1>1, <1>2, <2>7, <3>1, ReissuingTask
  <2> QED  BY <2>3, <2>4, <2>5, <2>6, <2>7
<1> QED  BY <1>3, <1>4

(* dispose goes on behind the abort, and takes the registry's entries back. *)
LEMMA BootAbortStep == BootInv /\ Boot!RunAbort => BootInv'
<1> SUFFICES ASSUME BootInv, Boot!RunAbort PROVE BootInv'
  OBVIOUS
<1>1. /\ bQueue # <<>> /\ ~granting /\ Head(bQueue).kind = "abort"
      /\ b' = Boot!CloseConnection(b, "internal_error") /\ audit' = "closed" /\ bQueue' = Tail(bQueue)
      /\ registry' = IF Head(bQueue).n = 1 THEN {} ELSE registry
      /\ UNCHANGED <<bVersion, granting, lane, bReserved, session, bWire, bBack, bDev>>
  BY DEF Boot!RunAbort, Boot!Runs, Boot!Arg
<1>2. /\ BootTypes /\ GrantInv /\ RegistryInv /\ Head(bQueue) = bQueue[1] /\ b \in Bootstraps
      /\ b.phase = "closed" => ~b.deadline
  BY <1>1, BootRunFacts DEF BootInv
<1>3. b' \in Bootstraps /\ b'.phase = "closed" /\ ~b'.deadline
  BY <1>1, <1>2, BootCloseFacts DEF BootReasons
<1>4. /\ Tail(bQueue) \in Seq(BootTasks)
      /\ \A i \in DOMAIN Tail(bQueue) : i + 1 \in DOMAIN bQueue /\ Tail(bQueue)[i] = bQueue[i + 1]
      /\ \A i \in DOMAIN bQueue : i # 1 => i - 1 \in DOMAIN Tail(bQueue) /\ Tail(bQueue)[i - 1] = bQueue[i]
  BY <1>1, <1>2, TailFacts DEF BootTypes
<1>5. registry' \in SUBSET Targets /\ registry' \subseteq registry
  BY <1>1, <1>2 DEF BootTypes
<1>6. BootTypes'
  BY <1>1, <1>2, <1>3, <1>4, <1>5 DEF BootTypes
<1>7. GrantInv' /\ ~Live'
  BY <1>1, <1>2, <1>3 DEF GrantInv, Granted, Live
<1>8. RegistryInv'
  <2>1. ASSUME session.disposed, registry' # {} PROVE Aborting'
    <3>1. PICK i \in DOMAIN bQueue : bQueue[i].kind = "abort" /\ bQueue[i].n = 1
      BY <1>2, <1>5, <2>1 DEF RegistryInv, Aborting
    <3>2. i # 1
      BY <1>1, <1>2, <2>1, <3>1
    <3> QED  BY <1>1, <1>4, <3>1, <3>2 DEF Aborting
  <2> QED  BY <1>1, <1>2, <1>5, <1>7, <2>1 DEF RegistryInv
<1> QED  BY <1>6, <1>7, <1>8 DEF BootInv

LEMMA BootFirst == \A S \in SUBSET Targets : S # {} => Boot!First(S) \in S
  BY DeviceSessionAssumption DEF Boot!BootstrapAssumption, Boot!First

(* A task of the lane's that ends with the coordinator as it was. *)
LEMMA SameLaneTask ==
  ASSUME BootInv, bQueue # <<>>, ~granting, bQueue[1].kind \in LaneTasks,
         NEW l \in Lanes, l.pc \in {"loop", "finish"}, Boot!FinishTask(b, l)
  PROVE  BootInv'
<1>1. /\ b \in Bootstraps /\ lane \in Lanes /\ bQueue[1].kind # "abort" /\ bQueue[1].kind # "start"
      /\ Live => b.phase = "bootstrapping"
  BY BootRunFacts DEF LaneTasks
<1>2. CASE ~Live
  BY <1>1, <1>2, TaskLate
<1>3. CASE Live
  <2>1. l.pc \notin LaneBusy \cup Numbered
    BY DEF LaneBusy, LaneMaking, LaneSending, Numbered
  <2>2. \A u \in Targets : StandsAt(b, l, u)
    BY <1>1, <1>3, <2>1, LiveFacts, StandsOther DEF LaneOn
  <2> QED  BY <1>1, <1>3, <2>1, <2>2, TaskGoesOn
<1> QED  BY <1>2, <1>3

LEMMA LaneMoved ==
  ASSUME NEW l \in Lanes
  PROVE  /\ [l EXCEPT !.pc = "loop"] \in Lanes /\ [l EXCEPT !.pc = "loop"].pc = "loop"
         /\ [l EXCEPT !.pc = "finish"] \in Lanes /\ [l EXCEPT !.pc = "finish"].pc = "finish"
         /\ [l EXCEPT !.pc = "loop"].target = l.target
  BY DEF Lanes, LaneRuns

LEMMA BootPickStep == BootInv /\ Boot!RunPick => BootInv'
<1> SUFFICES ASSUME BootInv, Boot!RunPick PROVE BootInv'
  OBVIOUS
<1>1. bQueue # <<>> /\ ~granting /\ Head(bQueue).kind = "pick"
  BY DEF Boot!RunPick, Boot!Runs
<1>2. /\ Head(bQueue) = bQueue[1] /\ b \in Bootstraps /\ lane \in Lanes /\ BootTypes
      /\ Live => b.phase = "bootstrapping"
      /\ bQueue[1].kind \in LaneTasks /\ bQueue[1].kind # "abort"
  BY <1>1, BootRunFacts DEF LaneTasks
<1>3. CASE b.phase # "bootstrapping" \/ b.pending = {}
  <2> DEFINE l == [lane EXCEPT !.pc = "finish"]
  <2>1. Boot!FinishTask(b, l)
    BY <1>3, Zenon DEF Boot!RunPick, Boot!Bootstrapping
  <2>2. l \in Lanes /\ l.pc = "finish"
    BY <1>2, LaneMoved
  <2> HIDE DEF l
  <2> QED  BY <1>1, <1>2, <2>1, <2>2, SameLaneTask
<1>4. CASE b.phase = "bootstrapping" /\ b.pending # {}
  <2>1. b.pending \in SUBSET Targets
    BY <1>2 DEF Bootstraps
  <2>2. PICK t \in Targets : t = Boot!First(b.pending) /\ t \in b.pending
    BY <1>4, <2>1, BootFirst
  <2> DEFINE p == b.pending \ {t}
             r == [b EXCEPT !.pending = p]
             l == [lane EXCEPT !.pc = "emit", !.target = t]
  <2>3. Boot!FinishTask(r, l)
    BY <1>4, <2>2 DEF Boot!RunPick, Boot!Bootstrapping
  <2>4. p \in SUBSET Targets
    BY <2>1
  <2>5. /\ r \in Bootstraps /\ r.phase = "bootstrapping" /\ r.pending = p /\ r.epoch = b.epoch
        /\ r.current = b.current /\ r.applied = b.applied
    <3> HIDE DEF p
    <3> QED  BY <1>2, <1>4, <2>4 DEF Bootstraps
  <2>6. l \in Lanes /\ l.pc = "emit" /\ l.target = t /\ l.pc \notin Numbered
    <3>1. t \in Buses
      BY DeviceSessionAssumption DEF Boot!BootstrapAssumption, Buses
    <3> QED  BY <1>2, <3>1 DEF Lanes, LaneRuns, Numbered
  <2>7. Live
    BY <1>4 DEF Live
  <2> HIDE DEF r, l
  <2>8. ASSUME NEW u \in Targets PROVE StandsAt(r, l, u)
    <3>1. StandsAt(b, lane, u)
      BY <2>7, LiveFacts
    <3>2. CASE u # t
      <4>1. ~LaneOn(l, u, LaneBusy) /\ (u \in r.pending => u \in b.pending)
        BY <2>5, <2>6, <3>2 DEF LaneOn
      <4> QED  BY <1>2, <2>5, <2>6, <3>1, <4>1, StandsOther
    <3>3. CASE u = t
      <4>1. b.current[t] = Boot!None
        BY <2>2, <3>1, <3>3 DEF StandsAt, Awaited
      <4> QED  BY <2>5, <2>6, <3>3, <4>1 DEF StandsAt, Unspoiled, LaneOn
    <3> QED  BY <3>2, <3>3
  <2> QED  BY <1>1, <1>2, <2>3, <2>5, <2>6, <2>7, <2>8, TaskGoesOn
<1> QED  BY <1>3, <1>4

LEMMA BootRequeueStep == BootInv /\ (Boot!RunRequeue \/ Boot!RunStale) => BootInv'
<1> SUFFICES ASSUME BootInv, Boot!RunRequeue \/ Boot!RunStale PROVE BootInv'
  OBVIOUS
<1>1. bQueue # <<>> /\ ~granting /\ Head(bQueue).kind \in {"requeue", "stale"}
  BY DEF Boot!RunRequeue, Boot!RunStale, Boot!Runs
<1>2. /\ Head(bQueue) = bQueue[1] /\ b \in Bootstraps /\ lane \in Lanes /\ BootTypes
      /\ bQueue[1].kind \in LaneTasks /\ bQueue[1].kind \in {"requeue", "stale"}
      /\ Live => bQueue[1].kind \in (IF lane.pc = "sent" THEN {"sent", "sendFailed"} ELSE {lane.pc})
      /\ lane.pc \in LaneBusy => lane.target \in Targets
  BY <1>1, BootRunFacts DEF LaneTasks
<1> DEFINE l == [lane EXCEPT !.pc = "loop"]
           r == [b EXCEPT !.pending = b.pending \cup {lane.target}]
           i == Boot!InvalidateStale(b, {lane.target})
<1>3. l \in Lanes /\ l.pc = "loop"
  BY <1>2, LaneMoved
<1>4. \/ Boot!FinishTask(b, l)
      \/ b.phase = "bootstrapping" /\ bQueue[1].kind = "requeue" /\ Boot!FinishTask(r, l)
      \/ b.phase = "bootstrapping" /\ Boot!FinishTask(i, l)
  <2>1. CASE Boot!RunRequeue
    BY <1>2, <2>1 DEF Boot!RunRequeue, Boot!Runs, Boot!Bootstrapping
  <2>2. CASE Boot!RunStale
    BY <2>2 DEF Boot!RunStale, Boot!Bootstrapping
  <2> QED  BY <2>1, <2>2
<1> HIDE DEF l
<1>5. CASE Boot!FinishTask(b, l)
  BY <1>1, <1>2, <1>3, <1>5, SameLaneTask
<1>6. ASSUME b.phase = "bootstrapping" PROVE Live /\ lane.target \in Targets /\ {lane.target} \in SUBSET Targets
  <2>1. Live
    BY <1>6 DEF Live
  <2>2. lane.pc \in {"requeue", "stale"}
    BY <1>2, <2>1
  <2> QED  BY <1>2, <2>1, <2>2 DEF LaneBusy, LaneMaking, LaneSending
<1>7. CASE b.phase = "bootstrapping" /\ bQueue[1].kind = "requeue" /\ Boot!FinishTask(r, l)
  <2>1. b.pending \cup {lane.target} \in SUBSET Targets
    BY <1>2, <1>6, <1>7 DEF Bootstraps
  <2>2. /\ r \in Bootstraps /\ r.phase = "bootstrapping" /\ r.epoch = b.epoch
        /\ r.current = b.current /\ r.applied = b.applied /\ r.pending = b.pending \cup {lane.target}
    BY <1>2, <1>7, <2>1 DEF Bootstraps
  <2> HIDE DEF r
  <2>3. l.pc \notin LaneBusy \cup Numbered
    BY <1>3 DEF LaneBusy, LaneMaking, LaneSending, Numbered
  <2>4. ASSUME NEW u \in Targets PROVE StandsAt(r, l, u)
    <3>1. StandsAt(b, lane, u)
      BY <1>6, <1>7, LiveFacts
    <3>2. CASE u # lane.target
      <4>1. ~LaneOn(l, u, LaneBusy) /\ (u \in r.pending => u \in b.pending)
        BY <2>2, <2>3, <3>2 DEF LaneOn
      <4> QED  BY <1>2, <1>3, <2>2, <3>1, <4>1, StandsOther
    <3>3. CASE u = lane.target
      <4>1. lane.pc = "requeue"
        BY <1>2, <1>6, <1>7
      <4>2. b.current[u] = Boot!None
        BY <3>1, <3>3, <4>1 DEF StandsAt, Awaited, LaneOn, LaneMaking
      <4> QED  BY <2>2, <2>3, <4>2 DEF StandsAt, Unspoiled, LaneOn, LaneBusy, LaneMaking
    <3> QED  BY <3>2, <3>3
  <2> QED  BY <1>1, <1>2, <1>3, <1>6, <1>7, <2>2, <2>3, <2>4, TaskGoesOn DEF LaneTasks
<1>8. CASE b.phase = "bootstrapping" /\ Boot!FinishTask(i, l)
  <2>1. Reissues(b, i, {lane.target})
    BY <1>2, <1>6, <1>8, StaleFacts
  <2> HIDE DEF i
  <2> QED  BY <1>1, <1>2, <1>3, <1>6, <1>8, <2>1, ReissuingTask
<1> QED  BY <1>4, <1>5, <1>7, <1>8

LEMMA BootCommitStep == BootInv /\ Boot!RunCommit => BootInv'
<1> SUFFICES ASSUME BootInv, Boot!RunCommit PROVE BootInv'
  OBVIOUS
<1>1. bQueue # <<>> /\ ~granting /\ Head(bQueue).kind = "commit"
  BY DEF Boot!RunCommit, Boot!Runs
<1>2. /\ Head(bQueue) = bQueue[1] /\ b \in Bootstraps /\ lane \in Lanes /\ BootTypes
      /\ bQueue[1].kind \in LaneTasks /\ bQueue[1].kind = "commit" /\ bQueue[1].kind # "abort"
      /\ Live => lane.pc = "commit"
      /\ lane.pc \in LaneBusy => lane.target \in Targets
  BY <1>1, BootRunFacts DEF LaneTasks
<1> DEFINE l == [lane EXCEPT !.pc = "loop"]
           t == lane.target
           p == b.pending \cup {t}
           r == [b EXCEPT !.pending = p]
           k == [lane EXCEPT !.pc = "committed"]
           a == [seq |-> lane.seq, version |-> lane.version, confirmed |-> FALSE, armed |-> FALSE,
                 aged |-> FALSE]
           c == [b EXCEPT !.current[t] = a, !.applied[t] = 0]
<1>3. \/ Boot!FinishTask(b, l)
      \/ b.phase = "bootstrapping" /\ Boot!FinishTask(r, l)
      \/ b.phase = "bootstrapping" /\ b.epoch[t] = lane.epoch /\ Boot!FinishTask(c, k)
  <2>1. CASE b.phase # "bootstrapping"
    BY <2>1 DEF Boot!RunCommit, Boot!Bootstrapping
  <2>2. CASE b.phase = "bootstrapping" /\ b.epoch[t] # lane.epoch
    BY <2>2 DEF Boot!RunCommit, Boot!Bootstrapping
  <2>3. CASE b.phase = "bootstrapping" /\ b.epoch[t] = lane.epoch
    BY <2>3, Zenon DEF Boot!RunCommit, Boot!Bootstrapping
  <2> QED  BY <2>1, <2>2, <2>3
<1>4. l \in Lanes /\ l.pc = "loop" /\ l.pc \notin LaneBusy \cup Numbered
  <2>1. l \in Lanes /\ l.pc = "loop"
    BY <1>2, LaneMoved
  <2> HIDE DEF l
  <2> QED  BY <2>1 DEF LaneBusy, LaneMaking, LaneSending, Numbered
<1>5. CASE Boot!FinishTask(b, l)
  <2> HIDE DEF l
  <2> QED  BY <1>1, <1>2, <1>4, <1>5, SameLaneTask
<1>6. ASSUME b.phase = "bootstrapping"
      PROVE  /\ Live /\ t \in Targets /\ lane.pc = "commit" /\ WireOrder
             /\ \A u \in Targets : StandsAt(b, lane, u)
             /\ b.current[t] = Boot!None
  <2>1. Live
    BY <1>6 DEF Live
  <2>2. lane.pc = "commit" /\ t \in Targets
    BY <1>2, <2>1 DEF LaneBusy, LaneMaking
  <2>3. WireOrder /\ \A u \in Targets : StandsAt(b, lane, u)
    BY <2>1, LiveFacts
  <2>4. b.current[t] = Boot!None
    BY <2>2, <2>3 DEF StandsAt, Awaited, LaneOn, LaneMaking
  <2> QED  BY <2>1, <2>2, <2>3, <2>4
<1>7. CASE b.phase = "bootstrapping" /\ Boot!FinishTask(r, l)
  <2>1. p \in SUBSET Targets
    BY <1>2, <1>6, <1>7 DEF Bootstraps
  <2>2. /\ r \in Bootstraps /\ r.phase = "bootstrapping" /\ r.epoch = b.epoch
        /\ r.current = b.current /\ r.applied = b.applied /\ r.pending = p
    <3> HIDE DEF p
    <3> QED  BY <1>2, <1>7, <2>1 DEF Bootstraps
  <2> HIDE DEF r, l
  <2>3. ASSUME NEW u \in Targets PROVE StandsAt(r, l, u)
    <3>1. StandsAt(b, lane, u)
      BY <1>6, <1>7
    <3>2. CASE u # t
      <4>1. ~LaneOn(l, u, LaneBusy) /\ (u \in r.pending => u \in b.pending)
        BY <1>4, <2>2, <3>2 DEF LaneOn
      <4> QED  BY <1>2, <1>4, <2>2, <3>1, <4>1, StandsOther
    <3>3. CASE u = t
      BY <1>4, <1>6, <1>7, <2>2, <3>3 DEF StandsAt, Unspoiled, LaneOn, LaneBusy, LaneMaking
    <3> QED  BY <3>2, <3>3
  <2> QED  BY <1>1, <1>2, <1>4, <1>6, <1>7, <2>2, <2>3, TaskGoesOn
<1>8. CASE b.phase = "bootstrapping" /\ b.epoch[t] = lane.epoch /\ Boot!FinishTask(c, k)
  <2> DEFINE cur == [b.current EXCEPT ![t] = a]
             app == [b.applied EXCEPT ![t] = 0]
  <2>1. /\ lane.seq = bReserved /\ bReserved \in Nat /\ bReserved > 0 /\ lane.version \in Nat
        /\ \A u \in Targets : bDev[u].seq < bReserved /\ bDev[u].seq \in Nat
        /\ \A i \in DOMAIN bWire : bWire[i].seq < bReserved /\ bWire[i].seq \in Nat
    <3>1. /\ lane.seq = bReserved /\ bReserved > 0 /\ \A u \in Targets : bDev[u].seq < bReserved
          /\ \A i \in DOMAIN bWire : bWire[i].seq < bReserved
      BY <1>6, <1>8 DEF WireOrder, Numbered
    <3>2. bReserved \in Nat /\ lane.version \in Nat /\ \A u \in Targets : bDev[u].seq \in Nat
      BY <1>2 DEF BootTypes, Lanes, Shown
    <3>3. \A i \in DOMAIN bWire : bWire[i].seq \in Nat
      <4>1. bWire \in Seq(Issued)
        BY <1>2 DEF BootTypes
      <4>2. \A i \in DOMAIN bWire : bWire[i] \in Issued
        BY <4>1
      <4> QED  BY <4>2 DEF Issued
    <3> QED  BY <3>1, <3>2, <3>3
  <2>2. a \in Snapshots /\ a.seq = lane.seq /\ a.version = lane.version
    BY <2>1 DEF Snapshots
  <2>3. a.confirmed = FALSE
    OBVIOUS
  <2>4. c = [b EXCEPT !.current = cur, !.applied = app]
    BY <1>2 DEF Bootstraps
  <2> HIDE DEF a
  <2>5. /\ cur \in [Targets -> Snapshots \cup {Boot!None}] /\ cur[t] = a
        /\ \A u \in Targets : u # t => cur[u] = b.current[u]
    BY <1>2, <1>6, <1>8, <2>2 DEF Bootstraps
  <2>6. /\ app \in [Targets -> Nat] /\ app[t] = 0 /\ \A u \in Targets : u # t => app[u] = b.applied[u]
    BY <1>2, <1>6, <1>8 DEF Bootstraps
  <2> HIDE DEF c, cur, app
  <2>7. /\ c \in Bootstraps /\ c.phase = "bootstrapping" /\ c.epoch = b.epoch /\ c.pending = b.pending
        /\ c.current = cur /\ c.applied = app
    BY <1>2, <1>8, <2>4, <2>5, <2>6 DEF Bootstraps
  <2>8. k \in Lanes /\ k.pc = "committed" /\ k.target = t /\ k.seq = lane.seq /\ k.version = lane.version
    BY <1>2 DEF Lanes
  <2> HIDE DEF k
  <2>9. k.pc \in Numbered => lane.pc \in Numbered /\ k.seq = lane.seq
    BY <1>6, <1>8, <2>8 DEF Numbered
  <2>10. ASSUME NEW u \in Targets PROVE StandsAt(c, k, u)
    <3>1. StandsAt(b, lane, u)
      BY <1>6, <1>8
    <3>2. CASE u # t
      <4>1. ~LaneOn(k, u, LaneBusy)
        BY <2>8, <3>2 DEF LaneOn
      <4> QED  BY <1>2, <2>5, <2>6, <2>7, <2>8, <3>1, <3>2, <4>1, StandsOther
    <3>3. CASE u = t
      <4>1. t \notin c.pending
        BY <1>6, <1>8, <2>7, <3>1, <3>3 DEF StandsAt, Unspoiled, LaneOn, LaneMaking
      <4>2. Latest(c.current[t], t)
        BY <1>6, <1>8, <2>1, <2>2, <2>5, <2>7 DEF Latest
      <4>3. /\ c.applied[t] # c.current[t].seq /\ ~LaneOn(k, t, LaneMaking)
            /\ k.seq = c.current[t].seq /\ k.version = c.current[t].version
        BY <2>1, <2>2, <2>5, <2>6, <2>7, <2>8 DEF LaneOn, LaneMaking
      <4>4. ~c.current[t].confirmed
        BY <2>3, <2>5, <2>7
      <4> QED  BY <3>3, <4>1, <4>2, <4>3, <4>4 DEF StandsAt, Awaited, Unspoiled, LaneOn, LaneMaking
    <3> QED  BY <3>2, <3>3
  <2> QED  BY <1>1, <1>2, <1>6, <1>8, <2>7, <2>8, <2>9, <2>10, TaskGoesOn
<1> QED  BY <1>3, <1>5, <1>7, <1>8

LEMMA BootSentStep == BootInv /\ Boot!RunSent => BootInv'
<1> SUFFICES ASSUME BootInv, Boot!RunSent PROVE BootInv'
  OBVIOUS
<1>1. bQueue # <<>> /\ ~granting /\ Head(bQueue).kind \in {"sent", "sendFailed"}
  BY DEF Boot!RunSent, Boot!Runs
<1>2. /\ Head(bQueue) = bQueue[1] /\ b \in Bootstraps /\ lane \in Lanes /\ BootTypes
      /\ bQueue[1].kind \in LaneTasks /\ bQueue[1].kind # "abort"
      /\ Live => lane.pc = "sent"
      /\ lane.pc \in LaneBusy => lane.target \in Targets
  <2>1. Head(bQueue) = bQueue[1] /\ bQueue[1].kind \in {"sent", "sendFailed"}
    BY <1>1, BootRunFacts
  <2>2. bQueue[1].kind \in LaneTasks /\ bQueue[1].kind # "abort"
    BY <2>1 DEF LaneTasks
  <2>3. Live => lane.pc = "sent"
    <3>1. lane.pc # "sendFailed"
      BY <1>1, BootRunFacts DEF Lanes, LaneWaits, LaneRuns, LaneAwaits
    <3>2. Live => bQueue[1].kind \in (IF lane.pc = "sent" THEN {"sent", "sendFailed"} ELSE {lane.pc})
      BY <1>1, <2>2, BootRunFacts
    <3> QED  BY <2>1, <3>1, <3>2
  <2> QED  BY <1>1, <2>1, <2>2, <2>3, BootRunFacts
<1> DEFINE l == [lane EXCEPT !.pc = "loop"]
           t == lane.target
           a == b.current[t]
           r == [b EXCEPT !.current[t].confirmed = TRUE]
           v == Boot!ConsumeRetry(b, t)
           w == [r EXCEPT !.current[t].armed = TRUE]
<1>3. \/ Boot!FinishTask(b, l)
      \/ /\ b.phase = "bootstrapping" /\ a # Boot!None /\ a.seq = lane.seq
         /\ \/ Boot!FinishTask(v, l)
            \/ Boot!FinishTask(Boot!Grant(r), l)
            \/ Boot!FinishTask(w, l)
  <2>1. CASE b.phase # "bootstrapping" \/ a = Boot!None \/ a.seq # lane.seq
    BY <2>1 DEF Boot!RunSent, Boot!Bootstrapping
  <2>2. CASE b.phase = "bootstrapping" /\ a # Boot!None /\ a.seq = lane.seq
    <3>1. CASE Head(bQueue).kind = "sendFailed"
      BY <2>2, <3>1 DEF Boot!RunSent, Boot!Bootstrapping, Boot!Arg
    <3>2. CASE Head(bQueue).kind # "sendFailed" /\ b.applied[t] = lane.seq
      BY <2>2, <3>2 DEF Boot!RunSent, Boot!Bootstrapping, Boot!Arg
    <3>3. CASE Head(bQueue).kind # "sendFailed" /\ b.applied[t] # lane.seq
      BY <2>2, <3>3 DEF Boot!RunSent, Boot!Bootstrapping, Boot!Arg
    <3> QED  BY <2>2, <3>1, <3>2, <3>3
  <2> QED  BY <2>1, <2>2
<1>4. l \in Lanes /\ l.pc = "loop" /\ l.pc \notin LaneBusy \cup Numbered
  <2>1. l \in Lanes /\ l.pc = "loop"
    BY <1>2, LaneMoved
  <2> HIDE DEF l
  <2> QED  BY <2>1 DEF LaneBusy, LaneMaking, LaneSending, Numbered
<1> HIDE DEF l
<1>5. CASE Boot!FinishTask(b, l)
  BY <1>1, <1>2, <1>4, <1>5, SameLaneTask
<1>6. ASSUME b.phase = "bootstrapping", a # Boot!None
      PROVE  /\ Live /\ t \in Targets /\ lane.pc = "sent" /\ {t} \in SUBSET Targets
             /\ \A u \in Targets : StandsAt(b, lane, u)
             /\ a \in Snapshots
  <2>1. Live
    BY <1>6 DEF Live
  <2>2. lane.pc = "sent" /\ t \in Targets
    BY <1>2, <2>1 DEF LaneBusy, LaneSending
  <2>3. \A u \in Targets : StandsAt(b, lane, u)
    BY <2>1, LiveFacts
  <2>4. a \in Snapshots
    BY <1>2, <1>6, <2>2 DEF Bootstraps
  <2> QED  BY <2>1, <2>2, <2>3, <2>4
<1>7. CASE b.phase = "bootstrapping" /\ a # Boot!None /\ Boot!FinishTask(v, l)
  <2>1. \/ v \in Bootstraps /\ v.phase = "closed" /\ ~v.deadline
        \/ Reissues(b, v, {t})
    BY <1>2, <1>6, <1>7, ConsumeFacts
  <2> HIDE DEF v
  <2>2. CASE v \in Bootstraps /\ v.phase = "closed" /\ ~v.deadline
    BY <1>1, <1>2, <1>4, <1>7, <2>2, ClosingTask
  <2>3. CASE Reissues(b, v, {t})
    BY <1>1, <1>2, <1>4, <1>6, <1>7, <2>3, ReissuingTask
  <2> QED  BY <2>1, <2>2, <2>3
<1>8. ASSUME NEW d \in Snapshots, d.seq = a.seq, d.version = a.version, NEW c,
             c = [b EXCEPT !.current = [b.current EXCEPT ![t] = d]],
             b.phase = "bootstrapping", a # Boot!None
      PROVE  c \in Bootstraps /\ c.phase = "bootstrapping" /\ \A u \in Targets : StandsAt(c, l, u)
  <2> DEFINE cur == [b.current EXCEPT ![t] = d]
  <2>1. /\ cur \in [Targets -> Snapshots \cup {Boot!None}] /\ cur[t] = d
        /\ \A u \in Targets : u # t => cur[u] = b.current[u]
    BY <1>2, <1>6, <1>8 DEF Bootstraps
  <2> HIDE DEF cur
  <2>2. /\ c \in Bootstraps /\ c.phase = "bootstrapping" /\ c.epoch = b.epoch /\ c.pending = b.pending
        /\ c.current = cur /\ c.applied = b.applied
    BY <1>2, <1>8, <2>1 DEF Bootstraps, cur
  <2>3. ASSUME NEW u \in Targets PROVE StandsAt(c, l, u)
    <3>1. StandsAt(b, lane, u) /\ ~LaneOn(l, u, LaneBusy)
      BY <1>4, <1>6, <1>8 DEF LaneOn
    <3>2. CASE u # t
      BY <1>2, <1>4, <2>1, <2>2, <3>1, <3>2, StandsOther
    <3>3. CASE u = t
      <4>1. /\ c.current[u].seq = b.current[u].seq /\ c.current[u].version = b.current[u].version
            /\ b.current[u] # Boot!None /\ c.epoch[u] = b.epoch[u] /\ c.applied[u] = b.applied[u]
            /\ (u \in c.pending => u \in b.pending) /\ c \in Bootstraps
        BY <1>8, <2>1, <2>2, <3>3
      <4> QED  BY <1>2, <1>4, <3>1, <4>1, StandsRetouched
    <3> QED  BY <3>2, <3>3
  <2> QED  BY <2>2, <2>3
<1>9. CASE b.phase = "bootstrapping" /\ a # Boot!None /\ Boot!FinishTask(Boot!Grant(r), l)
  <2> DEFINE d == [a EXCEPT !.confirmed = TRUE]
  <2>1. d \in Snapshots /\ d.seq = a.seq /\ d.version = a.version
    BY <1>6, <1>9 DEF Snapshots
  <2>2. r = [b EXCEPT !.current = [b.current EXCEPT ![t] = d]]
    BY <1>2 DEF Bootstraps
  <2> HIDE DEF d, r
  <2>3. r \in Bootstraps /\ r.phase = "bootstrapping" /\ \A u \in Targets : StandsAt(r, l, u)
    BY <1>8, <1>9, <2>1, <2>2
  <2> QED  BY <1>1, <1>2, <1>4, <1>6, <1>9, <2>3, GrantTask
<1>10. CASE b.phase = "bootstrapping" /\ a # Boot!None /\ Boot!FinishTask(w, l)
  <2> DEFINE d == [a EXCEPT !.confirmed = TRUE]
             e == [d EXCEPT !.armed = TRUE]
  <2>1. d \in Snapshots /\ d.seq = a.seq /\ d.version = a.version
    BY <1>6, <1>10 DEF Snapshots
  <2>2. r = [b EXCEPT !.current = [b.current EXCEPT ![t] = d]]
    BY <1>2 DEF Bootstraps
  <2> HIDE DEF d
  <2>3. e \in Snapshots /\ e.seq = a.seq /\ e.version = a.version
    BY <2>1 DEF Snapshots
  <2>4. w = [b EXCEPT !.current = [b.current EXCEPT ![t] = e]]
    <3> DEFINE cur == [b.current EXCEPT ![t] = d]
    <3>1. b.current \in [Targets -> Snapshots \cup {Boot!None}] /\ t \in Targets
      BY <1>2, <1>6, <1>10 DEF Bootstraps
    <3>2. cur \in [Targets -> Snapshots \cup {Boot!None}] /\ cur[t] = d
      BY <2>1, <3>1
    <3>3. [cur EXCEPT ![t] = e] = [b.current EXCEPT ![t] = e]
      BY <3>1
    <3> HIDE DEF cur, r
    <3>4. r \in Bootstraps /\ r.current = cur /\ r = [b EXCEPT !.current = cur]
      BY <1>2, <2>2, <3>2 DEF Bootstraps, cur
    <3>5. w = [r EXCEPT !.current = [cur EXCEPT ![t] = e]]
      BY <3>2, <3>4 DEF Bootstraps
    <3> HIDE DEF e, w
    <3> QED  BY <1>2, <3>3, <3>4, <3>5 DEF Bootstraps
  <2> HIDE DEF e, r, w
  <2>5. w \in Bootstraps /\ w.phase = "bootstrapping" /\ \A u \in Targets : StandsAt(w, l, u)
    BY <1>8, <1>10, <2>3, <2>4
  <2> QED  BY <1>1, <1>2, <1>4, <1>6, <1>10, <2>5, TaskGoesOn
<1> QED  BY <1>3, <1>5, <1>7, <1>9, <1>10

------------------------------------------------------------------------------
(* The emission lane *)

LEMMA NotDisposed ==
  ASSUME BootInv, Live, bQueue = <<>> \/ lane.pc = "committed"
  PROVE  ~session.disposed
<1> SUFFICES ASSUME session.disposed PROVE FALSE
  OBVIOUS
<1>1. Len(bQueue) = 1 /\ bQueue[1].kind = "abort"
  BY DEF BootInv, RegistryInv
<1>2. bQueue \in Seq(BootTasks) /\ LaneShape
  BY LiveFacts DEF BootTypes
<1>3. bQueue # <<>>
  BY <1>1
<1>4. 1 \in DOMAIN bQueue
  BY <1>1, <1>2
<1> QED  BY <1>1, <1>2, <1>3, <1>4 DEF LaneShape

LEMMA LaneKeeps ==
  ASSUME BootInv, BootTypes', UNCHANGED <<granting, session, registry, audit, bVersion, bDev>>,
         b'.phase = b.phase, b'.deadline = b.deadline,
         \A t \in Targets : b.current[t] # Boot!None =>
           b'.current[t] # Boot!None /\ b'.current[t].version = b.current[t].version,
         Granted => lane'.pc \in {"idle", "loop", "finish"} /\ bWire' = bWire,
         Aborting => Aborting',
         Live => /\ bQueue = <<>> \/ lane.pc = "committed"
                 /\ LaneShape' /\ WireOrder' /\ \A t \in Targets : StandsAt(b, lane, t)'
  PROVE  BootInv'
<1>1. GrantInv /\ RegistryInv /\ (Live => ~session.disposed)
  BY NotDisposed DEF BootInv
<1>2. GrantInv'
  BY <1>1 DEF GrantInv, Granted, Live
<1>3. RegistryInv'
  BY <1>1 DEF RegistryInv, Live
<1>4. Live' => Live
  BY DEF Live
<1> QED  BY <1>2, <1>3, <1>4 DEF BootInv

(* The lane hands the queue a task of its own. *)
LEMMA LaneAppends ==
  ASSUME BootTypes, NEW e \in BootTasks, e.kind \in LaneTasks, bQueue' = Append(bQueue, e)
  PROVE  /\ bQueue' \in Seq(BootTasks) /\ Len(bQueue) \in Nat
         /\ Len(bQueue') = Len(bQueue) + 1 /\ bQueue'[Len(bQueue) + 1] = e
         /\ \A i \in DOMAIN bQueue : i \in DOMAIN bQueue' /\ bQueue'[i] = bQueue[i]
         /\ \A i \in DOMAIN bQueue' : i \in DOMAIN bQueue \/ bQueue'[i] = e
         /\ \A i \in DOMAIN bQueue' : bQueue'[i].kind \in Aimed => bQueue'[i].target \in Targets
         /\ Aborting => Aborting'
         /\ UNCHANGED bDev /\ Confirmed(bQueue) => Confirmed(bQueue)'
<1>1. /\ bQueue \in Seq(BootTasks) /\ bQueue' \in Seq(BootTasks) /\ Len(bQueue) \in Nat
      /\ Len(bQueue') = Len(bQueue) + 1 /\ bQueue'[Len(bQueue) + 1] = e
      /\ \A i \in DOMAIN bQueue : i \in DOMAIN bQueue' /\ bQueue'[i] = bQueue[i]
      /\ \A i \in DOMAIN bQueue' : i \in DOMAIN bQueue \/ bQueue'[i] = e
  BY AppendFacts DEF BootTypes
<1>2. e.kind \notin Aimed /\ e.kind # "applied"
  BY DEF Aimed, LaneTasks
<1>3. \A i \in DOMAIN bQueue' : bQueue'[i].kind \in Aimed => bQueue'[i].target \in Targets
  BY <1>1, <1>2 DEF BootTypes
<1>4. Aborting => Aborting'
  BY <1>1 DEF Aborting
<1>5. UNCHANGED bDev /\ Confirmed(bQueue) => Confirmed(bQueue)'
  BY <1>1, <1>2 DEF Confirmed
<1> QED  BY <1>1, <1>3, <1>4, <1>5

(* Only where the lane stands, and perhaps a task. *)
LEMMA LaneStepKeeps ==
  ASSUME BootInv, NEW l \in Lanes, NEW q, lane' = l, bQueue' = q,
         UNCHANGED <<bVersion, b, granting, bReserved, audit, session, registry, bWire, bBack, bDev>>,
         l.pc \in LaneBusy => l.target \in Targets,
         q = bQueue \/ \E e \in BootTasks : e.kind \in LaneTasks /\ q = Append(bQueue, e),
         Granted => l.pc \in {"idle", "loop", "finish"},
         Live => /\ bQueue = <<>>
                 /\ b.phase = "bootstrapping"
                 /\ \/ q = bQueue /\ l.pc \in {"idle", "creating"} \cup LaneRuns
                    \/ l.pc \in LaneAwaits /\ q # bQueue
                       /\ q[1].kind \in (IF l.pc = "sent" THEN {"sent", "sendFailed"} ELSE {l.pc})
                 /\ l.pc \in Numbered => lane.pc \in Numbered /\ l.seq = lane.seq
                 /\ \A t \in Targets : StandsAt(b, l, t)
  PROVE  BootInv'
<1>1. /\ lane' = l /\ bQueue' = q
      /\ UNCHANGED <<bVersion, b, granting, bReserved, audit, session, registry, bWire, bBack, bDev>>
  OBVIOUS
<1>2. BootTypes
  BY DEF BootInv
<1>3. /\ bQueue' \in Seq(BootTasks)
      /\ \A i \in DOMAIN bQueue' : bQueue'[i].kind \in Aimed => bQueue'[i].target \in Targets
      /\ Aborting => Aborting'
      /\ Confirmed(bQueue) => Confirmed(bQueue)'
      /\ bQueue = <<>> /\ q # bQueue => Len(bQueue') = 1
  <2>1. CASE q = bQueue
    BY <1>1, <1>2, <2>1 DEF BootTypes, Aborting, Confirmed
  <2>2. CASE \E e \in BootTasks : e.kind \in LaneTasks /\ q = Append(bQueue, e)
    <3>1. PICK e \in BootTasks : e.kind \in LaneTasks /\ bQueue' = Append(bQueue, e)
      BY <1>1, <2>2
    <3>2. Len(bQueue') = Len(bQueue) + 1 /\ Len(bQueue) \in Nat
      BY <1>2, <3>1, LaneAppends
    <3>3. bQueue = <<>> => Len(bQueue') = 1
      BY <3>2
    <3> QED  BY <1>1, <1>2, <3>1, <3>3, LaneAppends
  <2> QED  BY <2>1, <2>2
<1>4. BootTypes'
  BY <1>1, <1>2, <1>3 DEF BootTypes
<1>5. ASSUME Live PROVE LaneShape' /\ WireOrder' /\ \A t \in Targets : StandsAt(b, lane, t)'
  <2>1. WireOrder
    BY <1>5, LiveFacts
  <2>2. WireOrder'
    BY <1>1, <1>3, <1>5, <2>1 DEF WireOrder, Confirmed
  <2>3. LaneShape'
    <3>1. b'.phase # "idle"
      BY <1>1, <1>5
    <3>2. CASE q = bQueue /\ l.pc \in {"idle", "creating"} \cup LaneRuns
      <4>1. bQueue' = <<>> /\ \A i \in DOMAIN bQueue' : FALSE
        BY <1>1, <1>5, <3>2
      <4> QED  BY <1>1, <3>1, <3>2, <4>1 DEF LaneShape, LaneRuns, LaneWaits, LaneAwaits
    <3>3. CASE l.pc \in LaneAwaits /\ q # bQueue
      <4>1. Len(bQueue') = 1 /\ bQueue'[1].kind \in (IF l.pc = "sent" THEN {"sent", "sendFailed"} ELSE {l.pc})
        BY <1>1, <1>3, <1>5, <3>3
      <4>2. Len(bQueue') > 0 /\ 1 .. Len(bQueue') - 1 = {}
        BY <4>1
      <4> QED  BY <1>1, <3>1, <3>3, <4>1, <4>2 DEF LaneShape, LaneRuns, LaneWaits, LaneAwaits
    <3> QED  BY <1>5, <3>2, <3>3
  <2>4. \A t \in Targets : StandsAt(b, lane, t)'
    BY <1>1, <1>5 DEF StandsAt, Awaited, Unspoiled, Latest, LaneOn
  <2> QED  BY <2>2, <2>3, <2>4
<1> QED  BY <1>1, <1>3, <1>4, <1>5, LaneKeeps

LEMMA LaneMovesKeeps ==
  ASSUME BootInv, NEW l \in Lanes, NEW q, Boot!LaneMoves(l, q),
         l.pc \in LaneBusy => l.target \in Targets,
         q = bQueue \/ \E e \in BootTasks : e.kind \in LaneTasks /\ q = Append(bQueue, e),
         Granted => l.pc \in {"idle", "loop", "finish"},
         Live => /\ bQueue = <<>>
                 /\ b.phase = "bootstrapping"
                 /\ \/ q = bQueue /\ l.pc \in {"idle", "creating"} \cup LaneRuns
                    \/ l.pc \in LaneAwaits /\ q # bQueue
                       /\ q[1].kind \in (IF l.pc = "sent" THEN {"sent", "sendFailed"} ELSE {l.pc})
                 /\ l.pc \in Numbered => lane.pc \in Numbered /\ l.seq = lane.seq
                 /\ \A t \in Targets : StandsAt(b, l, t)
  PROVE  BootInv'
<1>1. /\ lane' = l /\ bQueue' = q
      /\ UNCHANGED <<bVersion, b, granting, bReserved, audit, session, registry, bWire, bBack, bDev>>
  BY DEF Boot!LaneMoves
<1> QED  BY <1>1, LaneStepKeeps

LEMMA BootTaskType ==
  \A kind \in BootKinds, t \in Buses, k \in Int :
    Boot!Task(kind, t, k) \in BootTasks /\ Boot!Task(kind, t, k).kind = kind
  BY DEF Boot!Task, BootTasks

(* Where the lane is, the queue is empty. *)
LEMMA LaneRunFacts ==
  ASSUME BootInv
  PROVE  /\ BootTypes /\ b \in Bootstraps /\ lane \in Lanes
         /\ lane.pc \in LaneBusy => lane.target \in Targets
         /\ Granted => ~Live /\ lane.pc \in {"idle", "loop", "finish"}
         /\ Live => \A t \in Targets : StandsAt(b, lane, t)
         /\ Live /\ lane.pc \in LaneRuns => bQueue = <<>> /\ b.phase = "bootstrapping"
<1>1. BootTypes /\ b \in Bootstraps /\ lane \in Lanes /\ (lane.pc \in LaneBusy => lane.target \in Targets)
  BY DEF BootInv, BootTypes
<1>2. Granted => ~Live /\ lane.pc \in {"idle", "loop", "finish"}
  BY DEF BootInv, GrantInv
<1>3. ASSUME Live, lane.pc \in LaneRuns PROVE bQueue = <<>> /\ b.phase = "bootstrapping"
  <2>1. LaneShape
    BY <1>3, LiveFacts
  <2> QED  BY <1>3, <2>1 DEF LaneShape, LaneRuns, Live
<1> QED  BY <1>1, <1>2, <1>3, LiveFacts

LEMMA LoopsStep == BootInv /\ (Boot!LaneLoop \/ Boot!FinishPump) => BootInv'
<1> SUFFICES ASSUME BootInv, Boot!LaneLoop \/ Boot!FinishPump PROVE BootInv'
  OBVIOUS
<1>1. lane.pc \in {"loop", "finish"}
  BY DEF Boot!LaneLoop, Boot!FinishPump, Boot!At
<1>2. /\ BootTypes /\ b \in Bootstraps /\ lane \in Lanes
      /\ Granted => ~Live
      /\ Live => bQueue = <<>> /\ b.phase = "bootstrapping" /\ \A t \in Targets : StandsAt(b, lane, t)
  BY <1>1, LaneRunFacts DEF LaneRuns
<1>3. PICK l \in Lanes, q \in {bQueue, Append(bQueue, Boot!Pick)} :
        /\ Boot!LaneMoves(l, q)
        /\ \/ l.pc = "pick" /\ q = Append(bQueue, Boot!Pick) /\ b.phase = "bootstrapping"
           \/ l.pc \in {"finish", "idle"} /\ q = bQueue
  <2> DEFINE p == [lane EXCEPT !.pc = "pick"]
             f == [lane EXCEPT !.pc = "finish"]
             i == [lane EXCEPT !.pc = "idle"]
  <2>1. /\ p \in Lanes /\ p.pc = "pick" /\ f \in Lanes /\ f.pc = "finish" /\ i \in Lanes /\ i.pc = "idle"
    BY <1>2 DEF Lanes, LaneWaits, LaneRuns, LaneAwaits
  <2>2. \/ Boot!LaneMoves(p, Append(bQueue, Boot!Pick)) /\ b.phase = "bootstrapping"
        \/ Boot!LaneMoves(f, bQueue)
        \/ Boot!LaneMoves(i, bQueue)
    BY DEF Boot!LaneLoop, Boot!FinishPump, Boot!Bootstrapping
  <2> HIDE DEF p, f, i
  <2> QED  BY <2>1, <2>2
<1>4. l.pc \notin LaneBusy \cup Numbered
  BY <1>3 DEF LaneBusy, LaneMaking, LaneSending, Numbered
<1>5. Live => \A t \in Targets : StandsAt(b, l, t)
  BY <1>2, <1>3, <1>4, StandsOther DEF LaneOn
<1>6. CASE l.pc = "pick" /\ q = Append(bQueue, Boot!Pick) /\ b.phase = "bootstrapping"
  <2>1. Live
    BY <1>6 DEF Live
  <2>2. q = <<Boot!Pick>> /\ q # bQueue /\ q[1].kind = "pick"
    BY <1>2, <1>6, <2>1, BootPick
  <2>3. Boot!Pick \in BootTasks /\ Boot!Pick.kind \in LaneTasks
    BY BootPick DEF LaneTasks
  <2> QED  BY <1>2, <1>3, <1>4, <1>5, <1>6, <2>1, <2>2, <2>3, LaneMovesKeeps DEF LaneAwaits
<1>7. CASE l.pc \in {"finish", "idle"} /\ q = bQueue
  BY <1>2, <1>3, <1>4, <1>5, <1>7, LaneMovesKeeps DEF LaneRuns
<1> QED  BY <1>3, <1>6, <1>7

LEMMA EmitStartStep == BootInv /\ Boot!EmitStart => BootInv'
<1> SUFFICES ASSUME BootInv, Boot!EmitStart PROVE BootInv'
  OBVIOUS
<1>1. lane.pc = "emit"
  BY DEF Boot!EmitStart, Boot!At
<1>2. /\ BootTypes /\ b \in Bootstraps /\ lane \in Lanes /\ lane.target \in Targets /\ ~Granted
      /\ Live => bQueue = <<>> /\ b.phase = "bootstrapping" /\ \A t \in Targets : StandsAt(b, lane, t)
  BY <1>1, LaneRunFacts DEF LaneRuns, LaneBusy, LaneMaking
<1> DEFINE m == [lane EXCEPT !.pc = "loop"]
           l == [lane EXCEPT !.pc = "creating", !.epoch = b.epoch[lane.target],
                             !.version = bVersion[lane.target]]
<1>3. \/ Boot!LaneMoves(l, bQueue) /\ b.phase = "bootstrapping"
      \/ Boot!LaneMoves(m, bQueue) /\ b.phase # "bootstrapping"
  BY DEF Boot!EmitStart, Boot!Bootstrapping
<1>4. CASE Boot!LaneMoves(m, bQueue) /\ b.phase # "bootstrapping"
  <2>1. m \in Lanes /\ m.pc = "loop" /\ m.pc \notin LaneBusy
    BY <1>2 DEF Lanes, LaneRuns, LaneBusy, LaneMaking, LaneSending
  <2> HIDE DEF m
  <2> QED  BY <1>2, <1>4, <2>1, LaneMovesKeeps
<1>5. CASE Boot!LaneMoves(l, bQueue) /\ b.phase = "bootstrapping"
  <2>1. b.epoch[lane.target] \in Nat /\ bVersion[lane.target] \in Nat
    BY <1>2 DEF Bootstraps, BootTypes
  <2>2. /\ l \in Lanes /\ l.pc = "creating" /\ l.target = lane.target /\ l.epoch = b.epoch[lane.target]
        /\ l.pc \notin Numbered
    BY <1>2, <2>1 DEF Lanes, LaneWaits, Numbered
  <2> HIDE DEF l
  <2>3. Live
    BY <1>5 DEF Live
  <2>4. ASSUME NEW u \in Targets PROVE StandsAt(b, l, u)
    <3>1. StandsAt(b, lane, u)
      BY <1>2, <2>3
    <3>2. CASE u # lane.target
      <4>1. ~LaneOn(l, u, LaneBusy)
        BY <2>2, <3>2 DEF LaneOn
      <4> QED  BY <1>2, <2>2, <3>1, <4>1, StandsOther
    <3>3. CASE u = lane.target
      <4>1. b.current[u] = Boot!None /\ u \notin b.pending
        BY <1>1, <3>1, <3>3 DEF StandsAt, Awaited, Unspoiled, LaneOn, LaneMaking
      <4> QED  BY <2>1, <2>2, <3>3, <4>1 DEF StandsAt, Unspoiled, LaneOn
    <3> QED  BY <3>2, <3>3
  <2> QED  BY <1>2, <1>5, <2>2, <2>3, <2>4, LaneMovesKeeps
<1> QED  BY <1>3, <1>4, <1>5

LEMMA EmitCheckStep == BootInv /\ Boot!EmitCheck => BootInv'
<1> SUFFICES ASSUME BootInv, Boot!EmitCheck PROVE BootInv'
  OBVIOUS
<1>1. lane.pc = "created"
  BY DEF Boot!EmitCheck, Boot!At
<1>2. /\ BootTypes /\ b \in Bootstraps /\ lane \in Lanes /\ lane.target \in Targets /\ ~Granted
      /\ Live => bQueue = <<>> /\ b.phase = "bootstrapping" /\ \A t \in Targets : StandsAt(b, lane, t)
  BY <1>1, LaneRunFacts DEF LaneRuns, LaneBusy, LaneMaking
<1>3. PICK kind \in {"commit", "requeue"} :
        kind = IF lane.version = bVersion[lane.target] THEN "commit" ELSE "requeue"
  OBVIOUS
<1> DEFINE m == [lane EXCEPT !.pc = "loop"]
           l == [lane EXCEPT !.pc = kind]
           e == Boot!Task(kind, lane.target, lane.seq)
<1>4. \/ Boot!LaneMoves(m, bQueue) /\ b.phase # "bootstrapping"
      \/ Boot!LaneMoves(l, Append(bQueue, e)) /\ b.phase = "bootstrapping"
  BY <1>3 DEF Boot!EmitCheck, Boot!Bootstrapping
<1>5. CASE Boot!LaneMoves(m, bQueue) /\ b.phase # "bootstrapping"
  <2>1. m \in Lanes /\ m.pc = "loop" /\ m.pc \notin LaneBusy
    BY <1>2 DEF Lanes, LaneRuns, LaneBusy, LaneMaking, LaneSending
  <2> HIDE DEF m
  <2> QED  BY <1>2, <1>5, <2>1, LaneMovesKeeps
<1>6. CASE Boot!LaneMoves(l, Append(bQueue, e)) /\ b.phase = "bootstrapping"
  <2>1. Live
    BY <1>6 DEF Live
  <2>2. e \in BootTasks /\ e.kind = kind /\ kind \in LaneTasks
    BY <1>2, BootTaskType DEF Lanes, LaneTasks, BootKinds
  <2> HIDE DEF e
  <2>3. Append(bQueue, e) = <<e>> /\ Append(bQueue, e) # bQueue /\ Append(bQueue, e)[1].kind = kind
    BY <1>2, <2>1, <2>2
  <2>4. /\ l \in Lanes /\ l.pc = kind /\ l.target = lane.target /\ l.seq = lane.seq /\ l.epoch = lane.epoch
        /\ lane.pc \in Numbered /\ l.pc \in LaneAwaits /\ l.pc # "sent"
    BY <1>1, <1>2, <1>3 DEF Lanes, LaneAwaits, Numbered
  <2> HIDE DEF l
  <2>5. ASSUME NEW u \in Targets PROVE StandsAt(b, l, u)
    <3>1. StandsAt(b, lane, u)
      BY <1>2, <2>1
    <3>2. l.pc \in LaneMaking \ {"emit"} /\ lane.pc \in LaneMaking \ {"emit"} /\ l.pc \notin LaneSending
      BY <1>1, <1>3, <2>4 DEF LaneMaking, LaneSending
    <3> QED  BY <2>4, <3>1, <3>2 DEF StandsAt, Awaited, Unspoiled, LaneOn
  <2> QED  BY <1>2, <1>6, <2>1, <2>2, <2>3, <2>4, <2>5, LaneMovesKeeps
<1> QED  BY <1>4, <1>5, <1>6

------------------------------------------------------------------------------
(* Emission: made, looked at again, sent *)

(* What the environment finds: nothing is left to run. *)
LEMMA BootSettled ==
  ASSUME BootInv, Boot!Settled
  PROVE  /\ BootTypes /\ b \in Bootstraps /\ lane \in Lanes /\ lane.pc \in LaneWaits
         /\ (b.phase = "closed" => ~b.deadline)
         /\ lane.pc \in LaneBusy => lane.target \in Targets
         /\ Live => /\ bQueue = <<>> /\ b.phase = "bootstrapping" /\ ~session.disposed
                    /\ LaneShape /\ WireOrder /\ \A t \in Targets : StandsAt(b, lane, t)
         /\ Granted => /\ ~Live /\ lane.pc = "idle" /\ bWire = <<>>
<1>1. lane.pc \in LaneWaits /\ (bQueue = <<>> \/ granting)
  BY DEF Boot!Settled, Boot!Waiting, Boot!At, LaneWaits
<1>2. /\ BootTypes /\ b \in Bootstraps /\ lane \in Lanes /\ (b.phase = "closed" => ~b.deadline)
      /\ lane.pc \in LaneBusy => lane.target \in Targets
  BY DEF BootInv, BootTypes, GrantInv
<1>3. ASSUME Live
      PROVE  /\ bQueue = <<>> /\ b.phase = "bootstrapping" /\ ~session.disposed
             /\ LaneShape /\ WireOrder /\ \A t \in Targets : StandsAt(b, lane, t)
  <2>1. ~granting /\ LaneShape /\ WireOrder /\ \A t \in Targets : StandsAt(b, lane, t)
    BY <1>3, LiveFacts
  <2>2. bQueue = <<>>
    BY <1>1, <2>1
  <2>3. b.phase # "idle"
    BY <2>1, <2>2 DEF LaneShape
  <2> QED  BY <1>3, <2>1, <2>2, <2>3, NotDisposed DEF Live
<1>4. Granted => ~Live /\ lane.pc = "idle" /\ bWire = <<>>
  BY <1>1 DEF BootInv, GrantInv, LaneWaits
<1> QED  BY <1>1, <1>2, <1>3, <1>4

(* The snapshot under way stays the same. *)
LEMMA StandsSending ==
  ASSUME NEW c, NEW d, NEW l \in Lanes, NEW k \in Lanes, NEW t \in Targets, StandsAt(c, l, t),
         d.current = c.current, d.applied = c.applied, d.epoch = c.epoch, d.pending = c.pending,
         k.target = l.target, k.seq = l.seq, k.version = l.version,
         l.pc \in LaneSending, k.pc \in LaneSending
  PROVE  StandsAt(d, k, t)
<1>1. l.pc \notin LaneMaking /\ k.pc \notin LaneMaking
  BY DEF LaneSending, LaneMaking
<1> QED  BY <1>1 DEF StandsAt, Awaited, Unspoiled, LaneOn, LaneMaking

LEMMA EmitRecheckStep == BootInv /\ Boot!EmitRecheck => BootInv'
<1> SUFFICES ASSUME BootInv, Boot!EmitRecheck PROVE BootInv'
  OBVIOUS
<1>1. /\ lane.pc = "committed"
      /\ UNCHANGED <<bVersion, granting, bReserved, audit, session, registry, bWire, bBack, bDev>>
  BY DEF Boot!EmitRecheck, Boot!At
<1>2. /\ BootTypes /\ b \in Bootstraps /\ lane \in Lanes /\ lane.target \in Targets /\ ~Granted
      /\ Live => \A t \in Targets : StandsAt(b, lane, t)
  BY <1>1, LaneRunFacts DEF LaneBusy, LaneSending
<1>3. ASSUME Live
      PROVE  /\ WireOrder /\ b.phase # "idle" /\ \A i \in DOMAIN bQueue : bQueue[i].kind = "notify"
  BY <1>1, <1>3, LiveFacts DEF LaneShape
<1> DEFINE i == b.issued \cup {lane.seq}
           c == [b EXCEPT !.issued = i]
           l == [lane EXCEPT !.pc = "transmit"]
           k == [lane EXCEPT !.pc = "stale"]
           e == Boot!Task("stale", lane.target, lane.seq)
<1>4. \/ b' = c /\ lane' = l /\ bQueue' = bQueue
      \/ lane' = k /\ bQueue' = Append(bQueue, e) /\ b' = b
  BY DEF Boot!EmitRecheck
<1>5. CASE b' = c /\ lane' = l /\ bQueue' = bQueue
  <2>1. i \in SUBSET Nat
    BY <1>2 DEF Bootstraps, Lanes
  <2>2. /\ c \in Bootstraps /\ c.phase = b.phase /\ c.deadline = b.deadline /\ c.current = b.current
        /\ c.applied = b.applied /\ c.epoch = b.epoch /\ c.pending = b.pending
    <3> HIDE DEF i
    <3> QED  BY <1>2, <2>1 DEF Bootstraps
  <2>3. /\ l \in Lanes /\ l.pc = "transmit" /\ l.target = lane.target /\ l.seq = lane.seq
        /\ l.version = lane.version
    BY <1>2 DEF Lanes, LaneWaits
  <2> HIDE DEF c, l
  <2>4. BootTypes'
    BY <1>1, <1>2, <1>5, <2>2, <2>3 DEF BootTypes
  <2>5. ASSUME Live PROVE LaneShape' /\ WireOrder' /\ \A t \in Targets : StandsAt(b, lane, t)'
    <3>1. LaneShape'
      BY <1>3, <1>5, <2>2, <2>3, <2>5 DEF LaneShape, LaneRuns, LaneWaits, LaneAwaits
    <3>2. WireOrder'
      BY <1>1, <1>3, <1>5, <2>3, <2>5 DEF WireOrder, Numbered, Confirmed
    <3>3. \A t \in Targets : StandsAt(c, l, t)
      BY <1>1, <1>2, <2>2, <2>3, <2>5, StandsSending DEF LaneSending
    <3>4. \A t \in Targets : StandsAt(b, lane, t)'
      BY <1>1, <1>5, <3>3 DEF StandsAt, Awaited, Unspoiled, Latest, LaneOn
    <3> QED  BY <3>1, <3>2, <3>4
  <2>6. Aborting => Aborting'
    BY <1>5 DEF Aborting
  <2> QED  BY <1>1, <1>2, <1>5, <2>2, <2>4, <2>5, <2>6, LaneKeeps
<1>6. CASE lane' = k /\ bQueue' = Append(bQueue, e) /\ b' = b
  <2>1. e \in BootTasks /\ e.kind = "stale" /\ e.kind \in LaneTasks
    BY <1>2, BootTaskType DEF Lanes, LaneTasks, BootKinds
  <2>2. /\ k \in Lanes /\ k.pc = "stale" /\ k.target = lane.target /\ k.seq = lane.seq
        /\ k.version = lane.version
    BY <1>2 DEF Lanes, LaneAwaits
  <2> HIDE DEF e, k
  <2>3. /\ bQueue' \in Seq(BootTasks) /\ Len(bQueue) \in Nat
        /\ Len(bQueue') = Len(bQueue) + 1 /\ bQueue'[Len(bQueue) + 1] = e
        /\ \A j \in DOMAIN bQueue : j \in DOMAIN bQueue' /\ bQueue'[j] = bQueue[j]
        /\ \A j \in DOMAIN bQueue' : bQueue'[j].kind \in Aimed => bQueue'[j].target \in Targets
        /\ Aborting => Aborting'
        /\ UNCHANGED bDev /\ Confirmed(bQueue) => Confirmed(bQueue)'
    BY <1>2, <1>6, <2>1, LaneAppends
  <2>4. BootTypes'
    BY <1>1, <1>2, <1>6, <2>2, <2>3 DEF BootTypes
  <2>5. ASSUME Live PROVE LaneShape' /\ WireOrder' /\ \A t \in Targets : StandsAt(b, lane, t)'
    <3>1. \A j \in 1 .. Len(bQueue') - 1 : bQueue'[j].kind = "notify"
      <4>1. bQueue \in Seq(BootTasks)
        BY <1>2 DEF BootTypes
      <4>2. \A j \in 1 .. Len(bQueue') - 1 : j \in DOMAIN bQueue
        BY <2>3, <4>1
      <4> QED  BY <1>3, <2>3, <2>5, <4>2
    <3>2. Len(bQueue') > 0 /\ bQueue'[Len(bQueue')].kind = "stale"
      BY <2>1, <2>3
    <3>3. LaneShape'
      BY <1>3, <1>6, <2>2, <2>5, <3>1, <3>2 DEF LaneShape, LaneRuns, LaneWaits, LaneAwaits
    <3>4. WireOrder'
      BY <1>1, <1>3, <1>6, <2>2, <2>3, <2>5 DEF WireOrder, Numbered, Confirmed
    <3>5. \A t \in Targets : StandsAt(b, k, t)
      BY <1>1, <1>2, <2>2, <2>5, StandsSending DEF LaneSending
    <3>6. \A t \in Targets : StandsAt(b, lane, t)'
      BY <1>1, <1>6, <3>5 DEF StandsAt, Awaited, Unspoiled, Latest, LaneOn
    <3> QED  BY <3>3, <3>4, <3>6
  <2> QED  BY <1>1, <1>2, <1>6, <2>3, <2>4, <2>5, LaneKeeps
<1> QED  BY <1>4, <1>5, <1>6

LEMMA BootCreateDoneStep == BootInv /\ Boot!CreateDone => BootInv'
<1> SUFFICES ASSUME BootInv, Boot!CreateDone PROVE BootInv'
  OBVIOUS
<1> DEFINE n == bReserved + 1
           l == [lane EXCEPT !.pc = "created", !.seq = n]
<1>1. /\ lane.pc = "creating" /\ Boot!Settled /\ bReserved' = n /\ lane' = l
      /\ UNCHANGED <<bVersion, b, bQueue, granting, audit, session, registry, bWire, bBack, bDev>>
  BY DEF Boot!CreateDone, Boot!At
<1>2. /\ BootTypes /\ lane \in Lanes /\ lane.target \in Targets
      /\ Live => /\ bQueue = <<>> /\ b.phase = "bootstrapping" /\ WireOrder
                 /\ \A t \in Targets : StandsAt(b, lane, t)
      /\ ~Granted
  BY <1>1, BootSettled DEF LaneBusy, LaneMaking
<1>3. n \in Nat /\ n > 0 /\ bReserved \in Nat /\ bReserved < n
  BY <1>2 DEF BootTypes
<1>4. /\ l \in Lanes /\ l.pc = "created" /\ l.target = lane.target /\ l.seq = n /\ l.epoch = lane.epoch
  <2> HIDE DEF n
  <2> QED  BY <1>2, <1>3 DEF Lanes, LaneRuns
<1> HIDE DEF l, n
<1>5. BootTypes'
  BY <1>1, <1>2, <1>3, <1>4 DEF BootTypes
<1>6. ASSUME Live PROVE LaneShape' /\ WireOrder' /\ \A t \in Targets : StandsAt(b, lane, t)'
  <2>1. LaneShape'
    BY <1>1, <1>2, <1>4, <1>6 DEF LaneShape, LaneRuns, LaneWaits, LaneAwaits
  <2>2. WireOrder'
    <3>1. /\ \A t \in Targets : bDev[t].seq \in Nat /\ bDev[t].seq <= bReserved
          /\ \A i \in DOMAIN bWire : bWire[i].seq \in Nat /\ bWire[i].seq <= bReserved
      <4>1. \A t \in Targets : bDev[t].seq \in Nat
        BY <1>2 DEF BootTypes, Shown
      <4>2. bWire \in Seq(Issued)
        BY <1>2 DEF BootTypes
      <4>3. \A i \in DOMAIN bWire : bWire[i] \in Issued
        BY <4>2
      <4> QED  BY <1>2, <1>6, <4>1, <4>3 DEF Issued, WireOrder
    <3>2. /\ \A t \in Targets : bDev[t].seq < n
          /\ \A i \in DOMAIN bWire : bWire[i].seq < n
      BY <1>3, <3>1
    <3> QED  BY <1>1, <1>2, <1>3, <1>4, <1>6, <3>1, <3>2 DEF WireOrder, Confirmed
  <2>3. ASSUME NEW t \in Targets PROVE StandsAt(b, l, t)
    <3>1. StandsAt(b, lane, t)
      BY <1>2, <1>6
    <3>2. /\ l.pc \in LaneMaking \ {"emit"} /\ lane.pc \in LaneMaking \ {"emit"} /\ l.pc \notin LaneSending
      BY <1>1, <1>4 DEF LaneMaking, LaneSending
    <3> QED  BY <1>4, <3>1, <3>2 DEF StandsAt, Awaited, Unspoiled, LaneOn
  <2>4. \A t \in Targets : StandsAt(b, lane, t)'
    BY <1>1, <2>3 DEF StandsAt, Awaited, Unspoiled, Latest, LaneOn
  <2> QED  BY <2>1, <2>2, <2>4
<1>7. Aborting => Aborting'
  BY <1>1 DEF Aborting
<1> QED  BY <1>1, <1>2, <1>5, <1>6, <1>7, LaneKeeps

LEMMA BootTransmitStep == BootInv /\ Boot!Transmit => BootInv'
<1> SUFFICES ASSUME BootInv, Boot!Transmit PROVE BootInv'
  OBVIOUS
<1> DEFINE f == [target |-> lane.target, seq |-> lane.seq, version |-> lane.version]
           l == [lane EXCEPT !.pc = "sending"]
<1>1. /\ lane.pc = "transmit" /\ Boot!Settled /\ bWire' = Append(bWire, f) /\ lane' = l
      /\ UNCHANGED <<bVersion, b, bQueue, granting, bReserved, audit, session, registry, bBack, bDev>>
  BY DEF Boot!Transmit, Boot!At
<1>2. /\ BootTypes /\ lane \in Lanes /\ lane.target \in Targets
      /\ Live => /\ bQueue = <<>> /\ b.phase = "bootstrapping" /\ WireOrder
                 /\ \A t \in Targets : StandsAt(b, lane, t)
      /\ ~Granted
  BY <1>1, BootSettled DEF LaneBusy, LaneSending
<1>3. f \in Issued /\ f.target = lane.target /\ f.seq = lane.seq /\ f.version = lane.version
  BY <1>2 DEF Issued, Lanes
<1>4. /\ l \in Lanes /\ l.pc = "sending" /\ l.target = lane.target /\ l.seq = lane.seq
      /\ l.version = lane.version
  BY <1>2 DEF Lanes, LaneWaits
<1> HIDE DEF f, l
<1>5. /\ bWire \in Seq(Issued) /\ bWire' \in Seq(Issued) /\ Len(bWire) \in Nat
      /\ DOMAIN bWire = 1 .. Len(bWire)
      /\ bWire'[Len(bWire) + 1] = f
      /\ \A i \in DOMAIN bWire : bWire'[i] = bWire[i]
      /\ \A i \in DOMAIN bWire' : i \in DOMAIN bWire \/ (i = Len(bWire) + 1 /\ bWire'[i] = f)
  <2>1. bWire \in Seq(Issued)
    BY <1>2 DEF BootTypes
  <2> QED  BY <1>1, <1>3, <2>1, AppendFacts
<1>6. BootTypes'
  BY <1>1, <1>2, <1>4, <1>5 DEF BootTypes
<1>7. ASSUME Live PROVE LaneShape' /\ WireOrder' /\ \A t \in Targets : StandsAt(b, lane, t)'
  <2>1. LaneShape'
    BY <1>1, <1>2, <1>4, <1>7 DEF LaneShape, LaneRuns, LaneWaits, LaneAwaits
  <2>2. /\ f.seq = bReserved /\ \A t \in Targets : bDev[t].seq < f.seq
        /\ \A i \in DOMAIN bWire : bWire[i].seq < f.seq
    BY <1>1, <1>2, <1>3, <1>7 DEF WireOrder, Numbered
  <2>3. bReserved \in Nat
    BY <1>2 DEF BootTypes
  <2>4. WireOrder'
    <3>1. \A i \in DOMAIN bWire' : bWire'[i].seq <= bReserved /\ \A t \in Targets : bDev[t].seq < bWire'[i].seq
      BY <1>2, <1>5, <1>7, <2>2, <2>3 DEF WireOrder
    <3>2. ASSUME NEW i \in DOMAIN bWire', NEW j \in DOMAIN bWire', i < j
          PROVE  bWire'[i].seq < bWire'[j].seq
      <4>1. i \in DOMAIN bWire
        BY <1>5, <3>2
      <4>2. CASE j \in DOMAIN bWire
        BY <1>2, <1>5, <1>7, <3>2, <4>1, <4>2 DEF WireOrder
      <4>3. CASE bWire'[j] = f
        BY <1>5, <2>2, <4>1, <4>3
      <4> QED  BY <1>5, <4>2, <4>3
    <3>3. l.pc \notin Numbered
      BY <1>4 DEF Numbered
    <3> QED  BY <1>1, <1>2, <1>7, <3>1, <3>2, <3>3 DEF WireOrder, Confirmed
  <2>5. ASSUME NEW t \in Targets PROVE StandsAt(b, lane, t)'
    <3>1. StandsAt(b, lane, t) /\ StandsAt(b, l, t)
      BY <1>1, <1>2, <1>4, <1>7, StandsSending DEF LaneSending
    <3>2. ASSUME b.current[t] # Boot!None PROVE Latest(b.current[t], t)'
      <4>1. Latest(b.current[t], t)
        BY <3>1, <3>2 DEF StandsAt, Awaited
      <4>2. lane.target = t => lane.seq = b.current[t].seq /\ lane.version = b.current[t].version
        BY <1>1, <3>1, <3>2 DEF StandsAt, Awaited, LaneOn, LaneSending
      <4>3. f.target = t => f.seq <= b.current[t].seq /\ f.version = b.current[t].version
        <5>1. f.seq \in Nat
          BY <1>3 DEF Issued
        <5> QED  BY <1>3, <4>2, <5>1
      <4> QED  BY <1>1, <1>5, <4>1, <4>3 DEF Latest
    <3> QED  BY <1>1, <3>1, <3>2 DEF StandsAt, Awaited, Unspoiled, LaneOn
  <2> QED  BY <2>1, <2>4, <2>5
<1>8. Aborting => Aborting'
  BY <1>1 DEF Aborting
<1> QED  BY <1>1, <1>2, <1>6, <1>7, <1>8, LaneKeeps

LEMMA SendEndsStep == BootInv /\ (Boot!SendDone \/ Boot!SendFails) => BootInv'
<1> SUFFICES ASSUME BootInv, Boot!SendDone \/ Boot!SendFails PROVE BootInv'
  OBVIOUS
<1> DEFINE l == [lane EXCEPT !.pc = "sent"]
<1>1. PICK kind \in {"sent", "sendFailed"} :
        /\ lane' = l /\ bQueue' = Append(bQueue, Boot!Task(kind, lane.target, lane.seq))
        /\ lane.pc \in {"transmit", "sending"} /\ Boot!Settled
        /\ UNCHANGED <<bVersion, b, granting, bReserved, audit, session, registry, bWire, bBack, bDev>>
  <2>1. CASE Boot!SendDone
    BY <2>1 DEF Boot!SendDone, Boot!At, Boot!LaneMoves
  <2>2. CASE Boot!SendFails
    BY <2>2 DEF Boot!SendFails, Boot!At, Boot!EnvSends
  <2> QED  BY <2>1, <2>2
<1> DEFINE e == Boot!Task(kind, lane.target, lane.seq)
<1>2. /\ BootTypes /\ lane \in Lanes /\ lane.target \in Targets
      /\ Live => /\ bQueue = <<>> /\ b.phase = "bootstrapping" /\ \A t \in Targets : StandsAt(b, lane, t)
      /\ ~Granted
  BY <1>1, BootSettled DEF LaneBusy, LaneSending
<1>3. e \in BootTasks /\ e.kind = kind /\ kind \in LaneTasks
  BY <1>2, BootTaskType DEF Lanes, LaneTasks, BootKinds
<1>4. /\ l \in Lanes /\ l.pc = "sent" /\ l.target = lane.target /\ l.seq = lane.seq
      /\ l.version = lane.version
  BY <1>2 DEF Lanes, LaneAwaits
<1> HIDE DEF e, l
<1>5. ASSUME Live
      PROVE  /\ Append(bQueue, e) # bQueue /\ Append(bQueue, e)[1].kind = kind
             /\ \A t \in Targets : StandsAt(b, l, t)
  <2>1. Append(bQueue, e) # bQueue /\ Append(bQueue, e)[1].kind = kind
    BY <1>2, <1>3, <1>5
  <2>2. lane.pc \in LaneSending /\ l.pc \in LaneSending
    BY <1>1, <1>4 DEF LaneSending
  <2> QED  BY <1>2, <1>4, <1>5, <2>1, <2>2, StandsSending
<1>6. l.pc \in LaneAwaits /\ l.pc \notin Numbered
  BY <1>4 DEF LaneAwaits, Numbered
<1>7. /\ lane' = l /\ bQueue' = Append(bQueue, e)
      /\ UNCHANGED <<bVersion, b, granting, bReserved, audit, session, registry, bWire, bBack, bDev>>
  BY <1>1 DEF e
<1> QED  BY <1>2, <1>3, <1>4, <1>5, <1>6, <1>7, LaneStepKeeps

(* The connection is closed before anything was mounted. *)
LEMMA UnmountedClose ==
  ASSUME BootInv, ~session.post, b'.phase = "closed", ~b'.deadline, ~granting',
         UNCHANGED <<registry, session>>, BootTypes'
  PROVE  BootInv'
  BY DEF BootInv, GrantInv, RegistryInv, Live, Granted

LEMMA CreateFailsStep == BootInv /\ Boot!CreateFails => BootInv'
<1> SUFFICES ASSUME BootInv, Boot!CreateFails PROVE BootInv'
  OBVIOUS
<1>1. /\ lane.pc = "creating" /\ Boot!Settled /\ b' = Boot!CloseConnection(b, "internal_error")
      /\ lane' = [lane EXCEPT !.pc = "loop"]
      /\ UNCHANGED <<bVersion, bQueue, granting, bReserved, session, registry, bWire, bBack, bDev>>
  BY DEF Boot!CreateFails, Boot!At, Boot!EnvSends
<1>2. BootTypes /\ b \in Bootstraps /\ lane \in Lanes /\ (b.phase = "closed" => ~b.deadline) /\ ~Granted
  BY <1>1, BootSettled
<1>3. b' \in Bootstraps /\ b'.phase = "closed" /\ ~b'.deadline
  BY <1>1, <1>2, BootCloseFacts DEF BootReasons
<1>4. lane' \in Lanes /\ lane'.pc \notin LaneBusy
  <2>1. lane' \in Lanes /\ lane'.pc = "loop"
    BY <1>1, <1>2, LaneMoved
  <2> QED  BY <2>1 DEF LaneBusy, LaneMaking, LaneSending
<1>5. BootTypes'
  BY <1>1, <1>2, <1>3, <1>4 DEF BootTypes
<1> QED  BY <1>1, <1>2, <1>3, <1>5, UnmountedClose DEF Granted

------------------------------------------------------------------------------
(* The session around the coordinator *)

LEMMA MountStep == BootInv /\ Boot!MountPostReady => BootInv'
<1> SUFFICES ASSUME BootInv, Boot!MountPostReady PROVE BootInv'
  OBVIOUS
<1>1. /\ granting /\ session' = [session EXCEPT !.post = TRUE] /\ ~granting'
      /\ registry' = {t \in Targets : Boot!IsCurrent(t, b.current[t])}
      /\ UNCHANGED <<bVersion, b, bQueue, lane, bReserved, audit, bWire, bBack, bDev>>
  BY DEF Boot!MountPostReady
<1>2. /\ BootTypes /\ GrantInv /\ RegistryInv /\ ~Live
      /\ \A t \in Targets : bDev[t].version = b.current[t].version
  BY <1>1 DEF BootInv, GrantInv, Granted
<1>3. session' \in [post : BOOLEAN, disposed : BOOLEAN] /\ session'.disposed = session.disposed
  BY <1>1, <1>2 DEF BootTypes
<1>4. session'.post
  BY <1>1, <1>2 DEF BootTypes
<1>5. registry' \in SUBSET Targets /\ \A t \in registry' : bDev[t].version = bVersion[t]
  BY <1>1, <1>2 DEF Boot!IsCurrent
<1>6. BootTypes'
  <2>1. granting' = FALSE
    BY DEF Boot!MountPostReady
  <2>2. granting' \in BOOLEAN
    BY <2>1
  <2> QED  BY <1>1, <1>2, <1>3, <1>5, <2>2 DEF BootTypes
<1>7. GrantInv' /\ ~Live'
  BY <1>1, <1>2, <1>4 DEF GrantInv, Granted, Live
<1>8. session'.disposed => Aborting'
  BY <1>1, <1>2, <1>3 DEF RegistryInv, Aborting
<1>9. RegistryInv'
  BY <1>1, <1>4, <1>5, <1>7, <1>8 DEF RegistryInv
<1> QED  BY <1>6, <1>7, <1>9 DEF BootInv

LEMMA ReadyFailsStep == BootInv /\ Boot!ReadyMessageFails => BootInv'
<1> SUFFICES ASSUME BootInv, Boot!ReadyMessageFails PROVE BootInv'
  OBVIOUS
<1>1. /\ granting /\ ~granting' /\ b' = Boot!CloseConnection(b, "internal_error")
      /\ UNCHANGED <<bVersion, bQueue, lane, bReserved, session, registry, bWire, bBack, bDev>>
  BY DEF Boot!ReadyMessageFails
<1>2. /\ BootTypes /\ b \in Bootstraps /\ (b.phase = "closed" => ~b.deadline) /\ ~session.post
      /\ granting' \in BOOLEAN
  <2>1. granting' = FALSE
    BY DEF Boot!ReadyMessageFails
  <2> QED  BY <1>1, <2>1 DEF BootInv, BootTypes, GrantInv
<1>3. b' \in Bootstraps /\ b'.phase = "closed" /\ ~b'.deadline
  BY <1>1, <1>2, BootCloseFacts DEF BootReasons
<1>4. BootTypes'
  BY <1>1, <1>2, <1>3 DEF BootTypes
<1> QED  BY <1>1, <1>2, <1>3, <1>4, UnmountedClose

(* What comes from outside finds the queue empty while the session lives. *)
LEMMA IntakeArrives ==
  ASSUME BootTypes, NEW e \in BootTasks, e.kind \in Intake, e.kind \in Aimed => e.target \in Targets,
         bQueue' = Append(bQueue, e), UNCHANGED lane, lane.pc \in LaneWaits,
         e.kind = "applied" => e.n <= bDev[e.target].seq, UNCHANGED bDev
  PROVE  /\ bQueue' \in Seq(BootTasks)
         /\ \A i \in DOMAIN bQueue' : bQueue'[i].kind \in Aimed => bQueue'[i].target \in Targets
         /\ Aborting => Aborting'
         /\ (e.kind = "abort" /\ e.n = 1) => Aborting'
         /\ Confirmed(bQueue) => Confirmed(bQueue)'
         /\ bQueue = <<>> /\ b'.phase = "bootstrapping" =>
              LaneShape' /\ Len(bQueue') = 1 /\ bQueue'[1].kind = e.kind
<1>1. /\ bQueue \in Seq(BootTasks) /\ bQueue' \in Seq(BootTasks) /\ Len(bQueue) \in Nat
      /\ Len(bQueue') = Len(bQueue) + 1 /\ bQueue'[Len(bQueue) + 1] = e
      /\ \A i \in DOMAIN bQueue : i \in DOMAIN bQueue' /\ bQueue'[i] = bQueue[i]
      /\ \A i \in DOMAIN bQueue' : i \in DOMAIN bQueue \/ bQueue'[i] = e
  BY AppendFacts DEF BootTypes
<1>2. \A i \in DOMAIN bQueue' : bQueue'[i].kind \in Aimed => bQueue'[i].target \in Targets
  BY <1>1 DEF BootTypes
<1>3. Aborting => Aborting'
  BY <1>1 DEF Aborting
<1>4. (e.kind = "abort" /\ e.n = 1) => Aborting'
  <2>1. Len(bQueue) + 1 \in DOMAIN bQueue'
    BY <1>1
  <2> QED  BY <1>1, <2>1 DEF Aborting
<1>5. Confirmed(bQueue) => Confirmed(bQueue)'
  BY <1>1 DEF Confirmed
<1>6. ASSUME bQueue = <<>>, b'.phase = "bootstrapping"
      PROVE  LaneShape' /\ Len(bQueue') = 1 /\ bQueue'[1].kind = e.kind
  <2>1. Len(bQueue') = 1 /\ bQueue'[1].kind = e.kind
    BY <1>1, <1>6
  <2> QED  BY <1>6, <2>1 DEF LaneShape, LaneRuns, LaneWaits, LaneAwaits
<1> QED  BY <1>1, <1>2, <1>3, <1>4, <1>5, <1>6

LEMMA DisposeStep == BootInv /\ Boot!Dispose => BootInv'
<1> SUFFICES ASSUME BootInv, Boot!Dispose PROVE BootInv'
  OBVIOUS
<1> DEFINE e == Boot!Task("abort", "preview", 1)
<1>1. /\ Boot!Settled /\ ~session.disposed /\ session' = [session EXCEPT !.disposed = TRUE]
      /\ \/ session.post /\ registry' = {} /\ bQueue' = bQueue
         \/ ~session.post /\ registry' = registry /\ bQueue' = Append(bQueue, e)
      /\ UNCHANGED <<bVersion, b, granting, lane, bReserved, audit, bWire, bBack, bDev>>
  BY DEF Boot!Dispose
<1>2. /\ BootTypes /\ GrantInv /\ RegistryInv /\ lane.pc \in LaneWaits
      /\ Live => /\ bQueue = <<>> /\ b.phase = "bootstrapping" /\ WireOrder
                 /\ \A t \in Targets : StandsAt(b, lane, t)
  BY <1>1, BootSettled DEF BootInv
<1>3. session' \in [post : BOOLEAN, disposed : BOOLEAN] /\ session'.post = session.post
  BY <1>1, <1>2 DEF BootTypes
<1>4. session'.disposed
  BY <1>1, <1>2 DEF BootTypes
<1>5. GrantInv'
  BY <1>1, <1>2, <1>3 DEF GrantInv, Granted, Live
<1>6. CASE session.post /\ registry' = {} /\ bQueue' = bQueue
  <2>1. BootTypes'
    BY <1>1, <1>2, <1>3, <1>6 DEF BootTypes
  <2>2. ~Live' /\ ~granting'
    BY <1>1, <1>2, <1>6 DEF GrantInv, Granted, Live
  <2>3. RegistryInv'
    BY <1>6, <2>2 DEF RegistryInv
  <2> QED  BY <1>5, <2>1, <2>2, <2>3 DEF BootInv
<1>7. CASE ~session.post /\ registry' = registry /\ bQueue' = Append(bQueue, e)
  <2>1. e \in BootTasks /\ e.kind = "abort" /\ e.n = 1
    BY DEF Boot!Task, BootTasks, BootKinds, Intake, Buses
  <2> HIDE DEF e
  <2>2. e.kind \in Intake /\ e.kind \notin Aimed
    BY <2>1 DEF Intake, Aimed
  <2>3. /\ bQueue' \in Seq(BootTasks)
        /\ \A i \in DOMAIN bQueue' : bQueue'[i].kind \in Aimed => bQueue'[i].target \in Targets
        /\ Aborting'
        /\ Confirmed(bQueue) => Confirmed(bQueue)'
        /\ Live => LaneShape' /\ Len(bQueue') = 1 /\ bQueue'[1].kind = "abort"
    BY <1>1, <1>2, <1>7, <2>1, <2>2, IntakeArrives
  <2>4. BootTypes'
    BY <1>1, <1>2, <1>3, <1>7, <2>3 DEF BootTypes
  <2>5. RegistryInv'
    BY <1>1, <1>2, <1>3, <1>4, <1>7, <2>3 DEF RegistryInv, Live
  <2>6. ASSUME Live PROVE WireOrder' /\ \A t \in Targets : StandsAt(b, lane, t)'
    BY <1>1, <1>2, <2>3, <2>6 DEF WireOrder, Confirmed, StandsAt, Awaited, Unspoiled, Latest, LaneOn
  <2>7. Live' => Live
    BY <1>1 DEF Live
  <2> QED  BY <1>5, <2>3, <2>4, <2>5, <2>6, <2>7 DEF BootInv
<1> QED  BY <1>1, <1>6, <1>7

(* A change: the post-ready coordinator has the registry drop the target, or *)
(* the bootstrap coordinator is notified.                                    *)
LEMMA BootChangeStep == \A t \in Targets : BootInv /\ Boot!ProductionChanges(t) => BootInv'
<1> SUFFICES ASSUME NEW t \in Targets, BootInv, Boot!ProductionChanges(t) PROVE BootInv'
  OBVIOUS
<1> DEFINE e == Boot!Task("notify", t, 0)
<1>1. /\ Boot!Bursting /\ bVersion' = [bVersion EXCEPT ![t] = @ + 1]
      /\ \/ session.disposed /\ bQueue' = bQueue /\ registry' = registry
         \/ ~session.disposed /\ session.post /\ registry' = registry \ {t} /\ bQueue' = bQueue
         \/ ~session.disposed /\ ~session.post /\ bQueue' = Append(bQueue, e) /\ registry' = registry
      /\ UNCHANGED <<b, granting, lane, bReserved, audit, session, bWire, bBack, bDev>>
  BY DEF Boot!ProductionChanges
<1>2. BootTypes /\ GrantInv /\ RegistryInv
  BY DEF BootInv
<1>3. /\ bVersion' \in [Targets -> Nat] /\ \A u \in Targets : u # t => bVersion'[u] = bVersion[u]
  BY <1>1, <1>2 DEF BootTypes
<1>4. ASSUME Live
      PROVE  /\ ~session.disposed /\ ~session.post /\ b.phase = "bootstrapping"
             /\ \A i \in DOMAIN bQueue : bQueue[i].kind = "notify"
             /\ lane.pc \in LaneWaits \cup {"committed"} /\ WireOrder
             /\ \A u \in Targets : StandsAt(b, lane, u)
  <2>1. ~granting /\ ~session.post /\ LaneShape /\ WireOrder /\ \A u \in Targets : StandsAt(b, lane, u)
    BY <1>4, LiveFacts
  <2>2. /\ \A i \in DOMAIN bQueue : bQueue[i].kind = "notify"
        /\ lane.pc \in LaneWaits \cup {"committed"}
    BY <1>1, <2>1 DEF Boot!Bursting, Boot!Waiting, Boot!At, LaneWaits
  <2>3. bQueue \in Seq(BootTasks) /\ (Len(bQueue) = 1 => 1 \in DOMAIN bQueue)
    BY <1>2 DEF BootTypes
  <2>4. ~(Len(bQueue) = 1 /\ bQueue[1].kind \in {"start", "abort"})
    BY <2>2, <2>3
  <2>5. b.phase # "idle" /\ ~session.disposed
    BY <1>2, <1>4, <2>1, <2>4 DEF LaneShape, RegistryInv
  <2> QED  BY <1>4, <2>1, <2>2, <2>5 DEF Live
<1>5. GrantInv'
  BY <1>1, <1>2 DEF GrantInv, Granted, Live
<1>6. CASE bQueue' = bQueue
  <2>1. registry' \in SUBSET Targets /\ registry' \subseteq registry
    BY <1>1, <1>2 DEF BootTypes
  <2>2. BootTypes'
    BY <1>1, <1>2, <1>3, <1>6, <2>1 DEF BootTypes
  <2>3. Live' => Live
    BY <1>1 DEF Live
  <2>4. ASSUME ~session.disposed, NEW u \in registry' PROVE bDev'[u].version = bVersion'[u]
    <3>1. u \in registry /\ u \in Targets
      BY <1>2, <2>1, <2>4 DEF BootTypes
    <3>2. bDev[u].version = bVersion[u]
      BY <1>2, <2>4, <3>1 DEF RegistryInv
    <3>3. session.post
      BY <1>2, <3>1 DEF RegistryInv
    <3>4. u # t
      BY <1>1, <1>6, <2>4, <3>3
    <3> QED  BY <1>1, <1>3, <3>1, <3>2, <3>4
  <2>5. session.disposed => ~Live /\ (granting \/ registry # {} => Aborting)
    BY <1>2, <1>4 DEF RegistryInv
  <2>6. RegistryInv'
    BY <1>1, <1>2, <1>6, <2>1, <2>3, <2>4, <2>5 DEF RegistryInv, Aborting
  <2>7. ASSUME Live PROVE LaneShape' /\ WireOrder' /\ \A u \in Targets : StandsAt(b, lane, u)'
    <3>1. LaneShape /\ WireOrder /\ \A u \in Targets : StandsAt(b, lane, u)
      BY <2>7, LiveFacts
    <3>2. LaneShape' /\ WireOrder'
      BY <1>1, <1>6, <3>1 DEF LaneShape, WireOrder, Confirmed
    <3> QED  BY <1>1, <3>1, <3>2 DEF StandsAt, Awaited, Unspoiled, Latest, LaneOn
  <2> QED  BY <1>5, <2>2, <2>3, <2>6, <2>7 DEF BootInv
<1>7. CASE ~session.disposed /\ ~session.post /\ bQueue' = Append(bQueue, e) /\ registry' = registry
  <2>1. e \in BootTasks /\ e.kind = "notify" /\ e.target = t
    <3>1. t \in Buses
      BY DeviceSessionAssumption DEF Boot!BootstrapAssumption, Buses
    <3> QED  BY <3>1 DEF Boot!Task, BootTasks, BootKinds
  <2> HIDE DEF e
  <2>2. /\ bQueue \in Seq(BootTasks) /\ bQueue' \in Seq(BootTasks)
        /\ \A i \in DOMAIN bQueue : i \in DOMAIN bQueue' /\ bQueue'[i] = bQueue[i]
        /\ \A i \in DOMAIN bQueue' : i \in DOMAIN bQueue \/ bQueue'[i] = e
    BY <1>2, <1>7, <2>1, AppendFacts DEF BootTypes
  <2>3. \A i \in DOMAIN bQueue' : \/ i \in DOMAIN bQueue /\ bQueue'[i] = bQueue[i]
                                  \/ bQueue'[i].kind = "notify" /\ bQueue'[i].target = t
    BY <2>1, <2>2
  <2>4. \A i \in DOMAIN bQueue' : bQueue'[i].kind \in Aimed => bQueue'[i].target \in Targets
    BY <1>2, <2>3 DEF BootTypes
  <2>5. BootTypes'
    BY <1>1, <1>2, <1>3, <1>7, <2>2, <2>4 DEF BootTypes
  <2>6. RegistryInv'
    BY <1>1, <1>2, <1>7 DEF RegistryInv
  <2>7. Live' => Live
    BY <1>1 DEF Live
  <2>8. ASSUME Live PROVE LaneShape' /\ WireOrder' /\ \A u \in Targets : StandsAt(b, lane, u)'
    <3>1. \A i \in DOMAIN bQueue' : bQueue'[i].kind = "notify"
      BY <1>4, <2>3, <2>8
    <3>2. lane'.pc \notin LaneRuns \cup LaneAwaits /\ b'.phase # "idle"
      BY <1>1, <1>4, <2>8 DEF LaneRuns, LaneWaits, LaneAwaits
    <3>3. LaneShape'
      BY <3>1, <3>2 DEF LaneShape
    <3>4. WireOrder'
      BY <1>1, <1>4, <2>8, <3>1 DEF WireOrder, Confirmed
    <3> QED  BY <1>1, <1>4, <2>8, <3>3, <3>4 DEF StandsAt, Awaited, Unspoiled, Latest, LaneOn
  <2> QED  BY <1>5, <2>5, <2>6, <2>7, <2>8 DEF BootInv
<1> QED  BY <1>1, <1>6, <1>7

------------------------------------------------------------------------------
(* Timers, the device and its answers *)

LEMMA DeadlineStep == BootInv /\ Boot!DeadlineFires => BootInv'
<1> SUFFICES ASSUME BootInv, Boot!DeadlineFires PROVE BootInv'
  OBVIOUS
<1>1. /\ Boot!Settled /\ b.deadline /\ b' = Boot!CloseConnection(b, "deadline_exceeded")
      /\ UNCHANGED <<bVersion, bQueue, lane, granting, bReserved, session, registry, bWire, bBack, bDev>>
  BY DEF Boot!DeadlineFires, Boot!EnvSends
<1>2. BootTypes /\ b \in Bootstraps /\ (b.phase = "closed" => ~b.deadline)
  BY <1>1, BootSettled
<1>3. b' \in Bootstraps /\ b'.phase = "closed" /\ ~b'.deadline
  BY <1>1, <1>2, BootCloseFacts DEF BootReasons
<1>4. ~session.post /\ ~granting
  BY <1>1 DEF BootInv, GrantInv, Granted, Live
<1>5. BootTypes'
  BY <1>1, <1>2, <1>3 DEF BootTypes
<1> QED  BY <1>1, <1>3, <1>4, <1>5, UnmountedClose

(* Only what is remembered of the snapshot of t changes. *)
LEMMA SnapshotMarked ==
  ASSUME b \in Bootstraps, NEW t \in Targets, b.current[t] # Boot!None, NEW d \in Snapshots,
         d.seq = b.current[t].seq, d.version = b.current[t].version,
         d.confirmed = b.current[t].confirmed,
         NEW c, c = [b EXCEPT !.current = [b.current EXCEPT ![t] = d]], lane \in Lanes
  PROVE  /\ c \in Bootstraps /\ c.phase = b.phase /\ c.deadline = b.deadline
         /\ \A u \in Targets : b.current[u] # Boot!None =>
              c.current[u] # Boot!None /\ c.current[u].version = b.current[u].version
         /\ \A u \in Targets : StandsAt(b, lane, u) => StandsAt(c, lane, u)
<1> DEFINE cur == [b.current EXCEPT ![t] = d]
<1>1. /\ cur \in [Targets -> Snapshots \cup {Boot!None}] /\ cur[t] = d
      /\ \A u \in Targets : u # t => cur[u] = b.current[u]
  BY DEF Bootstraps
<1> HIDE DEF cur
<1>2. /\ c \in Bootstraps /\ c.phase = b.phase /\ c.deadline = b.deadline /\ c.epoch = b.epoch
      /\ c.pending = b.pending /\ c.current = cur /\ c.applied = b.applied
  BY <1>1 DEF Bootstraps, cur
<1>3. d # Boot!None
  BY SnapshotNotNone
<1>4. ASSUME NEW u \in Targets, StandsAt(b, lane, u) PROVE StandsAt(c, lane, u)
  <2>1. CASE u = t
    <3>1. /\ c.current[t].seq = b.current[t].seq /\ c.current[t].version = b.current[t].version
          /\ c.current[t].confirmed = b.current[t].confirmed
      BY <1>1, <1>2
    <3> QED  BY <1>2, <1>4, <2>1, <3>1, StandsRetouched
  <2>2. CASE u # t
    <3>1. /\ c.current[u] = b.current[u] /\ c.applied[u] = b.applied[u] /\ c.epoch[u] = b.epoch[u]
          /\ c.pending = b.pending
      BY <1>1, <1>2, <2>2
    <3> QED  BY <1>2, <1>4, <3>1, StandsOther
  <2> QED  BY <2>1, <2>2
<1> QED  BY <1>1, <1>2, <1>3, <1>4

LEMMA BootTimerStep == \A t \in Targets : BootInv /\ Boot!TimeoutFires(t) => BootInv'
<1> SUFFICES ASSUME NEW t \in Targets, BootInv, Boot!TimeoutFires(t) PROVE BootInv'
  OBVIOUS
<1> DEFINE d == [b.current[t] EXCEPT !.armed = FALSE]
           e == Boot!Task("timeout", t, b.current[t].seq)
<1>1. /\ Boot!Settled /\ b.current[t] # Boot!None
      /\ b' = [b EXCEPT !.current[t].armed = FALSE] /\ bQueue' = Append(bQueue, e)
      /\ UNCHANGED <<bVersion, lane, audit, granting, bReserved, session, registry, bWire, bBack, bDev>>
  BY DEF Boot!TimeoutFires, Boot!EnvSends
<1>2. /\ BootTypes /\ b \in Bootstraps /\ lane \in Lanes /\ lane.pc \in LaneWaits
      /\ Live => /\ bQueue = <<>> /\ b.phase = "bootstrapping" /\ WireOrder
                 /\ \A u \in Targets : StandsAt(b, lane, u)
      /\ Granted => lane.pc = "idle"
  BY <1>1, BootSettled
<1>3. b.current[t] \in Snapshots
  BY <1>1, <1>2 DEF Bootstraps
<1>4. /\ d \in Snapshots /\ d.seq = b.current[t].seq /\ d.version = b.current[t].version
      /\ d.confirmed = b.current[t].confirmed
  BY <1>3 DEF Snapshots
<1>5. b' = [b EXCEPT !.current = [b.current EXCEPT ![t] = d]]
  BY <1>1, <1>2 DEF Bootstraps
<1> HIDE DEF d
<1>6. /\ b' \in Bootstraps /\ b'.phase = b.phase /\ b'.deadline = b.deadline
      /\ \A u \in Targets : b.current[u] # Boot!None =>
           b'.current[u] # Boot!None /\ b'.current[u].version = b.current[u].version
      /\ \A u \in Targets : StandsAt(b, lane, u) => StandsAt(b', lane, u)
  BY <1>1, <1>2, <1>4, <1>5, SnapshotMarked
<1>7. /\ e \in BootTasks /\ e.kind = "timeout" /\ e.kind \in Intake /\ e.target \in Targets
  <2>1. t \in Buses /\ b.current[t].seq \in Int
    BY <1>3, DeviceSessionAssumption DEF Boot!BootstrapAssumption, Buses, Snapshots
  <2> QED  BY <2>1 DEF Boot!Task, BootTasks, BootKinds, Intake
<1> HIDE DEF e
<1>8. /\ bQueue' \in Seq(BootTasks)
      /\ \A i \in DOMAIN bQueue' : bQueue'[i].kind \in Aimed => bQueue'[i].target \in Targets
      /\ Aborting => Aborting'
      /\ Confirmed(bQueue) => Confirmed(bQueue)'
      /\ Live => LaneShape'
  BY <1>1, <1>2, <1>6, <1>7, IntakeArrives
<1>9. BootTypes'
  BY <1>1, <1>2, <1>6, <1>8 DEF BootTypes
<1>10. ASSUME Live PROVE WireOrder' /\ \A u \in Targets : StandsAt(b, lane, u)'
  <2>1. WireOrder'
    BY <1>1, <1>2, <1>8, <1>10 DEF WireOrder, Confirmed
  <2>2. \A u \in Targets : StandsAt(b', lane, u)
    BY <1>2, <1>6, <1>10
  <2> QED  BY <1>1, <2>1, <2>2 DEF StandsAt, Awaited, Unspoiled, Latest, LaneOn
<1> QED  BY <1>1, <1>2, <1>6, <1>8, <1>9, <1>10, LaneKeeps

LEMMA BootAgesStep == \A t \in Targets : BootInv /\ Boot!SnapshotAges(t) => BootInv'
<1> SUFFICES ASSUME NEW t \in Targets, BootInv, Boot!SnapshotAges(t) PROVE BootInv'
  OBVIOUS
<1> DEFINE d == [b.current[t] EXCEPT !.aged = TRUE]
<1>1. /\ Boot!Settled /\ b.current[t] # Boot!None /\ b' = [b EXCEPT !.current[t].aged = TRUE]
      /\ UNCHANGED <<bVersion, bQueue, lane, audit, granting, bReserved, session, registry,
                     bWire, bBack, bDev>>
  BY DEF Boot!SnapshotAges, Boot!EnvSends
<1>2. /\ BootTypes /\ b \in Bootstraps /\ lane \in Lanes
      /\ Live => /\ bQueue = <<>> /\ b.phase = "bootstrapping" /\ LaneShape /\ WireOrder
                 /\ \A u \in Targets : StandsAt(b, lane, u)
      /\ Granted => lane.pc = "idle"
  BY <1>1, BootSettled
<1>3. b.current[t] \in Snapshots
  BY <1>1, <1>2 DEF Bootstraps
<1>4. /\ d \in Snapshots /\ d.seq = b.current[t].seq /\ d.version = b.current[t].version
      /\ d.confirmed = b.current[t].confirmed
  BY <1>3 DEF Snapshots
<1>5. b' = [b EXCEPT !.current = [b.current EXCEPT ![t] = d]]
  BY <1>1, <1>2 DEF Bootstraps
<1> HIDE DEF d
<1>6. /\ b' \in Bootstraps /\ b'.phase = b.phase /\ b'.deadline = b.deadline
      /\ \A u \in Targets : b.current[u] # Boot!None =>
           b'.current[u] # Boot!None /\ b'.current[u].version = b.current[u].version
      /\ \A u \in Targets : StandsAt(b, lane, u) => StandsAt(b', lane, u)
  BY <1>1, <1>2, <1>4, <1>5, SnapshotMarked
<1>7. BootTypes'
  BY <1>1, <1>2, <1>6 DEF BootTypes
<1>8. ASSUME Live PROVE LaneShape' /\ WireOrder' /\ \A u \in Targets : StandsAt(b, lane, u)'
  <2>1. LaneShape' /\ WireOrder'
    BY <1>1, <1>2, <1>6, <1>8 DEF LaneShape, WireOrder, Confirmed
  <2>2. \A u \in Targets : StandsAt(b', lane, u)
    BY <1>2, <1>6, <1>8
  <2> QED  BY <1>1, <2>1, <2>2 DEF StandsAt, Awaited, Unspoiled, Latest, LaneOn
<1>9. Aborting => Aborting'
  BY <1>1 DEF Aborting
<1> QED  BY <1>1, <1>2, <1>6, <1>7, <1>8, <1>9, LaneKeeps

LEMMA BootStrayStep ==
  \A t \in Targets : \A n \in {0, Boot!NeverIssued, bDev[t].seq} :
    BootInv /\ Boot!StrayAnswer(t, n) => BootInv'
<1> SUFFICES ASSUME NEW t \in Targets, NEW n \in {0, Boot!NeverIssued, bDev[t].seq},
                    BootInv, Boot!StrayAnswer(t, n)
             PROVE  BootInv'
  OBVIOUS
<1>1. PICK kind \in {"malformed", "applied"} :
        /\ Boot!Settled /\ bBack' = Append(bBack, Boot!Task(kind, t, n))
        /\ kind = "applied" => n # 0
        /\ UNCHANGED <<bVersion, b, bQueue, granting, lane, bReserved, audit, session, registry,
                       bWire, bDev>>
  <2>1. CASE n = 0
    BY <2>1 DEF Boot!StrayAnswer
  <2>2. CASE n # 0
    BY <2>2 DEF Boot!StrayAnswer
  <2> QED  BY <2>1, <2>2
<1> DEFINE e == Boot!Task(kind, t, n)
<1>2. /\ BootTypes
      /\ Live => /\ bQueue = <<>> /\ LaneShape /\ WireOrder /\ \A u \in Targets : StandsAt(b, lane, u)
      /\ Granted => lane.pc = "idle"
  BY <1>1, BootSettled
<1>3. bDev[t].seq \in Nat
  BY <1>2 DEF BootTypes, Shown
<1>4. e \in BootAnswers /\ (e.kind = "applied" => e.target = t /\ e.n <= bDev[t].seq)
  BY <1>1, <1>3 DEF BootAnswers, Boot!Task, Boot!NeverIssued
<1> HIDE DEF e
<1>5. /\ bBack' \in Seq(BootAnswers)
      /\ \A i \in DOMAIN bBack' : (i \in DOMAIN bBack /\ bBack'[i] = bBack[i]) \/ bBack'[i] = e
  <2>1. bBack \in Seq(BootAnswers) /\ bBack' = Append(bBack, e)
    BY <1>1, <1>2 DEF BootTypes, e
  <2> QED  BY <1>4, <2>1, AppendFacts
<1>6. BootTypes'
  BY <1>1, <1>2, <1>5 DEF BootTypes
<1>7. ASSUME Live PROVE LaneShape' /\ WireOrder' /\ \A u \in Targets : StandsAt(b, lane, u)'
  <2>1. Confirmed(bBack)'
    BY <1>1, <1>2, <1>4, <1>5, <1>7 DEF WireOrder, Confirmed
  <2>2. LaneShape' /\ WireOrder'
    BY <1>1, <1>2, <1>7, <2>1 DEF LaneShape, WireOrder, Confirmed
  <2> QED  BY <1>1, <1>2, <1>7, <2>2 DEF StandsAt, Awaited, Unspoiled, Latest, LaneOn
<1>8. Aborting => Aborting'
  BY <1>1 DEF Aborting
<1> QED  BY <1>1, <1>2, <1>6, <1>7, <1>8, LaneKeeps

LEMMA BootReceiveStep == BootInv /\ Boot!Receive => BootInv'
<1> SUFFICES ASSUME BootInv, Boot!Receive PROVE BootInv'
  OBVIOUS
<1>1. /\ bBack # <<>> /\ Boot!Settled /\ bBack' = Tail(bBack) /\ bQueue' = Append(bQueue, Head(bBack))
      /\ UNCHANGED <<bVersion, b, granting, lane, bReserved, audit, session, registry, bWire, bDev>>
  BY DEF Boot!Receive
<1>2. /\ BootTypes /\ b \in Bootstraps /\ lane.pc \in LaneWaits
      /\ Live => /\ bQueue = <<>> /\ b.phase = "bootstrapping" /\ WireOrder
                 /\ \A u \in Targets : StandsAt(b, lane, u)
      /\ Granted => lane.pc = "idle"
  BY <1>1, BootSettled
<1>3. PICK e \in BootAnswers : e = Head(bBack) /\ e = bBack[1] /\ 1 \in DOMAIN bBack
  BY <1>1, <1>2, TailFacts DEF BootTypes
<1>4. /\ Tail(bBack) \in Seq(BootAnswers)
      /\ \A i \in DOMAIN Tail(bBack) : i + 1 \in DOMAIN bBack /\ Tail(bBack)[i] = bBack[i + 1]
  BY <1>1, <1>2, TailFacts DEF BootTypes
<1>5. e \in BootTasks /\ e.kind \in Intake /\ e.target \in Targets
  <2>1. Targets \subseteq Buses
    BY DeviceSessionAssumption DEF Boot!BootstrapAssumption, Buses
  <2> QED  BY <2>1 DEF BootAnswers, BootTasks, BootKinds, Intake
<1>6. /\ \A i \in DOMAIN bQueue' : bQueue'[i].kind \in Aimed => bQueue'[i].target \in Targets
      /\ bQueue' \in Seq(BootTasks)
      /\ Aborting => Aborting'
  <2>1. /\ bQueue \in Seq(BootTasks)
        /\ bQueue' \in Seq(BootTasks)
        /\ \A i \in DOMAIN bQueue : i \in DOMAIN bQueue' /\ bQueue'[i] = bQueue[i]
        /\ \A i \in DOMAIN bQueue' : i \in DOMAIN bQueue \/ bQueue'[i] = e
    BY <1>1, <1>2, <1>3, <1>5, AppendFacts DEF BootTypes
  <2> QED  BY <1>2, <1>5, <2>1 DEF BootTypes, Aborting
<1>7. BootTypes'
  BY <1>1, <1>2, <1>4, <1>6 DEF BootTypes
<1>8. ASSUME Live PROVE LaneShape' /\ WireOrder' /\ \A u \in Targets : StandsAt(b, lane, u)'
  <2>1. e.kind = "applied" => e.n <= bDev[e.target].seq
    BY <1>2, <1>3, <1>8 DEF WireOrder, Confirmed
  <2>2. LaneShape' /\ (Confirmed(bQueue) => Confirmed(bQueue)')
    BY <1>1, <1>2, <1>3, <1>5, <1>8, <2>1, IntakeArrives
  <2>3. Confirmed(bBack)'
    BY <1>1, <1>2, <1>4, <1>8 DEF WireOrder, Confirmed
  <2>4. WireOrder'
    BY <1>1, <1>2, <1>8, <2>2, <2>3 DEF WireOrder
  <2> QED  BY <1>1, <1>2, <1>8, <2>2, <2>4 DEF StandsAt, Awaited, Unspoiled, Latest, LaneOn
<1> QED  BY <1>1, <1>2, <1>6, <1>7, <1>8, LaneKeeps

(* The device shows the oldest snapshot under way. *)
LEMMA HandlesStep ==
  \A answer \in {"applied", "error", "silence"} : BootInv /\ Boot!DeviceHandles(answer) => BootInv'
<1> SUFFICES ASSUME NEW answer \in {"applied", "error", "silence"}, BootInv, Boot!DeviceHandles(answer)
             PROVE  BootInv'
  OBVIOUS
<1>1. /\ bWire # <<>> /\ Boot!Settled
      /\ UNCHANGED <<bVersion, b, bQueue, granting, lane, bReserved, audit, session, registry>>
  BY DEF Boot!DeviceHandles
<1>2. /\ BootTypes /\ ~Granted
      /\ Live => /\ bQueue = <<>> /\ LaneShape /\ WireOrder /\ \A u \in Targets : StandsAt(b, lane, u)
  BY <1>1, BootSettled
<1>3. PICK f \in Issued : f = Head(bWire) /\ f = bWire[1] /\ 1 \in DOMAIN bWire
  BY <1>1, <1>2, TailFacts DEF BootTypes
<1> DEFINE shown == [seq |-> f.seq, version |-> f.version]
           e == Boot!Task(answer, f.target, f.seq)
<1>4. /\ bWire' = Tail(bWire)
      /\ bDev' = IF answer = "error" THEN bDev ELSE [bDev EXCEPT ![f.target] = shown]
      /\ bBack' = IF answer = "silence" THEN bBack ELSE Append(bBack, e)
  BY <1>3 DEF Boot!DeviceHandles
<1>5. shown \in Shown /\ shown.seq = f.seq /\ shown.version = f.version
  BY <1>3 DEF Shown, Issued
<1>6. answer # "silence" => e \in BootAnswers /\ e.kind = answer /\ e.target = f.target /\ e.n = f.seq
  BY <1>3 DEF BootAnswers, Issued, Boot!Task
<1> HIDE DEF shown, e
<1>7. /\ bWire' \in Seq(Issued)
      /\ \A i \in DOMAIN bWire' : i + 1 \in DOMAIN bWire /\ bWire'[i] = bWire[i + 1] /\ i \in Nat /\ i > 0
  <2>1. bWire \in Seq(Issued)
    BY <1>2 DEF BootTypes
  <2> QED  BY <1>1, <1>4, <2>1, TailFacts
<1>8. bDev' \in [Targets -> Shown]
  BY <1>2, <1>3, <1>4, <1>5 DEF BootTypes, Issued
<1>9. /\ bBack' \in Seq(BootAnswers)
      /\ \A i \in DOMAIN bBack' : (i \in DOMAIN bBack /\ bBack'[i] = bBack[i])
                                  \/ (bBack'[i] = e /\ answer # "silence")
  <2>1. bBack \in Seq(BootAnswers)
    BY <1>2 DEF BootTypes
  <2>2. CASE answer = "silence"
    BY <1>4, <2>1, <2>2
  <2>3. CASE answer # "silence"
    BY <1>4, <1>6, <2>1, <2>3, AppendFacts
  <2> QED  BY <2>2, <2>3
<1>10. BootTypes'
  BY <1>1, <1>2, <1>7, <1>8, <1>9 DEF BootTypes
<1>11. ASSUME Live PROVE LaneShape' /\ WireOrder' /\ \A u \in Targets : StandsAt(b, lane, u)'
  <2>1. /\ LaneShape /\ WireOrder /\ \A u \in Targets : StandsAt(b, lane, u)
        /\ bQueue = <<>>
    BY <1>2, <1>11
  <2>2. /\ \A u \in Targets : bDev[u].seq \in Nat /\ bDev'[u].seq \in Nat
        /\ f.seq \in Nat /\ bReserved \in Nat
        /\ \A i \in DOMAIN bWire : bWire[i].seq \in Nat
        /\ \A i \in DOMAIN bBack : bBack[i] \in BootAnswers
    <3>1. bWire \in Seq(Issued) /\ bBack \in Seq(BootAnswers)
      BY <1>2 DEF BootTypes
    <3>2. (\A i \in DOMAIN bWire : bWire[i] \in Issued) /\ \A i \in DOMAIN bBack : bBack[i] \in BootAnswers
      BY <3>1
    <3> QED  BY <1>2, <1>3, <1>8, <3>2 DEF BootTypes, Shown, Issued
  <2>3. /\ f.seq <= bReserved /\ \A u \in Targets : bDev[u].seq < f.seq
        /\ \A i \in DOMAIN bWire : i # 1 => f.seq < bWire[i].seq
        /\ lane.pc \in Numbered => f.seq < bReserved
    <3>1. \A i \in DOMAIN bWire : i # 1 => 1 < i
      <4>1. bWire \in Seq(Issued)
        BY <1>2 DEF BootTypes
      <4> QED  BY <4>1
    <3> QED  BY <1>3, <2>1, <3>1 DEF WireOrder
  <2>4. \A u \in Targets : \/ bDev'[u] = bDev[u]
                           \/ u = f.target /\ bDev'[u] = shown /\ answer # "error"
    BY <1>2, <1>4 DEF BootTypes
  <2>5. \A u \in Targets : bDev'[u].seq <= f.seq /\ bDev[u].seq <= bDev'[u].seq
    BY <1>5, <2>2, <2>3, <2>4
  <2>6. \A i \in DOMAIN bWire' : i + 1 \in DOMAIN bWire /\ bWire'[i] = bWire[i + 1] /\ f.seq < bWire'[i].seq
    BY <1>7, <2>3
  <2>7. Confirmed(bBack)'
    <3>1. ASSUME NEW i \in DOMAIN bBack', bBack'[i].kind = "applied"
          PROVE  bBack'[i].n <= bDev'[bBack'[i].target].seq
      <4>1. CASE i \in DOMAIN bBack /\ bBack'[i] = bBack[i]
        <5>1. bBack[i].n <= bDev[bBack[i].target].seq /\ bBack[i].target \in Targets /\ bBack[i].n \in Int
          BY <2>1, <2>2, <3>1, <4>1 DEF WireOrder, Confirmed, BootAnswers
        <5> QED  BY <2>2, <2>5, <4>1, <5>1
      <4>2. CASE bBack'[i] = e /\ answer # "silence"
        <5>1. answer = "applied" /\ f.target \in Targets
          BY <1>3, <1>6, <3>1, <4>2 DEF Issued
        <5>2. bDev'[f.target] = shown
          BY <1>2, <1>4, <5>1 DEF BootTypes
        <5> QED  BY <1>5, <1>6, <2>2, <4>2, <5>2
      <4> QED  BY <1>9, <4>1, <4>2
    <3> QED  BY <3>1 DEF Confirmed
  <2>8. WireOrder'
    <3>1. \A u \in Targets : bDev'[u].seq <= bReserved
      BY <2>2, <2>3, <2>5
    <3>2. \A i \in DOMAIN bWire' : bWire'[i].seq <= bReserved /\ \A u \in Targets : bDev'[u].seq < bWire'[i].seq
      BY <2>1, <2>2, <2>5, <2>6 DEF WireOrder
    <3>3. \A i, j \in DOMAIN bWire' : i < j => bWire'[i].seq < bWire'[j].seq
      <4>1. \A i, j \in DOMAIN bWire' : i < j => i + 1 < j + 1
        BY <1>7
      <4> QED  BY <2>1, <2>6, <4>1 DEF WireOrder
    <3>4. lane.pc \in Numbered => /\ \A u \in Targets : bDev'[u].seq < bReserved
                                  /\ \A i \in DOMAIN bWire' : bWire'[i].seq < bReserved
                                  /\ lane.seq = bReserved /\ bReserved > 0
      BY <2>1, <2>2, <2>3, <2>5, <2>6 DEF WireOrder
    <3>5. Confirmed(bQueue)'
      BY <1>1, <2>1 DEF Confirmed
    <3> QED  BY <1>1, <2>7, <3>1, <3>2, <3>3, <3>4, <3>5 DEF WireOrder
  <2>9. LaneShape'
    BY <1>1, <2>1 DEF LaneShape
  <2>10. ASSUME NEW u \in Targets PROVE StandsAt(b, lane, u)'
    <3>1. StandsAt(b, lane, u)
      BY <2>1
    <3>2. ASSUME b.current[u] # Boot!None
          PROVE  Latest(b.current[u], u)' /\ (b.applied[u] = b.current[u].seq => bDev'[u].seq = b.current[u].seq)
      <4>1. Latest(b.current[u], u) /\ (b.applied[u] = b.current[u].seq => bDev[u].seq = b.current[u].seq)
        BY <3>1, <3>2 DEF StandsAt, Awaited
      <4>2. f.target = u => f.seq <= b.current[u].seq /\ (f.seq = b.current[u].seq => f.version = b.current[u].version)
        BY <1>3, <4>1 DEF Latest
      <4>3. b.current[u].seq \in Nat
        <5>1. b.current[u] \in Snapshots
          BY <1>2, <3>2 DEF BootTypes, Bootstraps
        <5> QED  BY <5>1 DEF Snapshots
      <4>4. \A i \in DOMAIN bWire' : bWire'[i].target = u =>
              bWire'[i].seq <= b.current[u].seq
              /\ (bWire'[i].seq = b.current[u].seq => bWire'[i].version = b.current[u].version)
        BY <2>6, <4>1 DEF Latest
      <4>5. CASE bDev'[u] = bDev[u]
        BY <1>1, <4>1, <4>4, <4>5 DEF Latest
      <4>6. CASE u = f.target /\ bDev'[u] = shown
        <5>1. b.applied[u] # b.current[u].seq
          BY <2>2, <2>3, <4>1, <4>2, <4>3, <4>6
        <5> QED  BY <1>1, <1>5, <4>2, <4>4, <4>6, <5>1 DEF Latest
      <4> QED  BY <2>4, <4>5, <4>6
    <3> QED  BY <1>1, <3>1, <3>2 DEF StandsAt, Awaited, Unspoiled, LaneOn
  <2> QED  BY <2>8, <2>9, <2>10
<1>12. GrantInv' /\ RegistryInv'
  BY <1>1, <1>2 DEF BootInv, GrantInv, RegistryInv, Granted, Live, Aborting
<1>13. Live' => Live
  BY <1>1 DEF Live
<1> QED  BY <1>10, <1>11, <1>12, <1>13 DEF BootInv

------------------------------------------------------------------------------
(* The specification *)

LEMMA BootInit == Boot!Init => BootInv
<1> SUFFICES ASSUME Boot!Init PROVE BootInv
  OBVIOUS
<1> DEFINE e == Boot!Task("start", "preview", 0)
<1>1. /\ bVersion = [t \in Targets |-> 1] /\ bQueue = <<e>> /\ granting = FALSE
      /\ lane = [pc |-> "idle", target |-> "preview", epoch |-> 0, seq |-> 0, version |-> 0]
      /\ bReserved = 0 /\ audit = "not_ready" /\ session = [post |-> FALSE, disposed |-> FALSE]
      /\ registry = {} /\ bWire = <<>> /\ bBack = <<>>
      /\ bDev = [t \in Targets |-> [seq |-> 0, version |-> 0]]
  BY DEF Boot!Init
<1>2. /\ b = [phase |-> "idle", reason |-> "none", epoch |-> [t \in Targets |-> 0],
              retries |-> [t \in Targets |-> 0], current |-> [t \in Targets |-> Boot!None],
              applied |-> [t \in Targets |-> 0], pending |-> {}, issued |-> {}, deadline |-> FALSE]
  BY DEF Boot!Init
<1>3. /\ b \in Bootstraps
  <2>1. /\ [t \in Targets |-> 0] \in [Targets -> Nat]
        /\ [t \in Targets |-> Boot!None] \in [Targets -> Snapshots \cup {Boot!None}]
    OBVIOUS
  <2> QED  BY <1>2, <2>1 DEF Bootstraps, BootReasons
<1>4. b.phase = "idle" /\ \A t \in Targets : b.current[t] = Boot!None
  BY <1>2
<1>5. b.deadline = FALSE
  BY <1>2
<1>6. e \in BootTasks /\ e.kind = "start"
  BY DEF Boot!Task, BootTasks, BootKinds, Intake, Buses
<1> HIDE DEF e
<1>7. bQueue \in Seq(BootTasks) /\ Len(bQueue) = 1 /\ bQueue[1] = e /\ DOMAIN bQueue = {1}
  BY <1>1, <1>6
<1>8. /\ lane \in Lanes /\ lane.pc = "idle" /\ lane.pc \in LaneWaits
      /\ lane.pc \notin LaneBusy \cup LaneRuns \cup LaneAwaits \cup Numbered
  BY <1>1 DEF Lanes, LaneBusy, LaneMaking, LaneSending, LaneRuns, LaneAwaits, LaneWaits, Numbered, Buses
<1>9. bDev \in [Targets -> Shown] /\ bVersion \in [Targets -> Nat] /\ \A t \in Targets : bDev[t].seq = 0
  BY <1>1 DEF Shown
<1>10. ~granting /\ session \in [post : BOOLEAN, disposed : BOOLEAN]
  BY <1>1
<1>11. ~session.post /\ ~session.disposed
  BY <1>1
<1>12. bWire \in Seq(Issued) /\ bBack \in Seq(BootAnswers) /\ DOMAIN bWire = {} /\ DOMAIN bBack = {}
  BY <1>1
<1>13. BootTypes
  BY <1>1, <1>3, <1>6, <1>7, <1>8, <1>9, <1>10, <1>12 DEF BootTypes, Aimed
<1>14. GrantInv /\ RegistryInv
  BY <1>1, <1>5, <1>10, <1>11 DEF GrantInv, RegistryInv, Granted
<1>15. LaneShape
  BY <1>4, <1>6, <1>7, <1>8 DEF LaneShape, Intake
<1>16. WireOrder
  BY <1>1, <1>6, <1>7, <1>8, <1>9, <1>12 DEF WireOrder, Confirmed
<1>17. \A t \in Targets : StandsAt(b, lane, t)
  BY <1>4, <1>8 DEF StandsAt, Unspoiled, LaneOn, LaneBusy
<1> QED  BY <1>13, <1>14, <1>15, <1>16, <1>17 DEF BootInv

LEMMA BootUnchanged == BootInv /\ UNCHANGED Boot!vars => BootInv'
<1> SUFFICES ASSUME BootInv, UNCHANGED Boot!vars PROVE BootInv'
  OBVIOUS
<1>1. UNCHANGED <<bVersion, b, bQueue, granting, lane, bReserved, audit, session, registry,
                  bWire, bBack, bDev>>
  BY DEF Boot!vars
<1>2. BootTypes' /\ GrantInv' /\ RegistryInv' /\ (Live' => Live)
  BY <1>1 DEF BootInv, BootTypes, GrantInv, RegistryInv, Granted, Live, Aborting
<1>3. ASSUME Live PROVE LaneShape' /\ WireOrder' /\ \A t \in Targets : StandsAt(b, lane, t)'
  <2>1. LaneShape /\ WireOrder /\ \A t \in Targets : StandsAt(b, lane, t)
    BY <1>3, LiveFacts
  <2>2. LaneShape' /\ WireOrder'
    BY <1>1, <2>1 DEF LaneShape, WireOrder, Confirmed
  <2> QED  BY <1>1, <2>1, <2>2 DEF StandsAt, Awaited, Unspoiled, Latest, LaneOn
<1> QED  BY <1>2, <1>3 DEF BootInv

LEMMA BootStep == BootInv /\ [Boot!Next]_(Boot!vars) => BootInv'
<1>1. BootInv /\ Boot!QueueStep => BootInv'
  BY BootStartStep, BootNotifyStep, BootAckStep, BootTimeoutStep, BootAbortStep, BootPickStep, BootRequeueStep,
     BootCommitStep, BootSentStep DEF Boot!QueueStep
<1>2. BootInv /\ Boot!LaneStep => BootInv'
  BY LoopsStep, EmitStartStep, BootCreateDoneStep, EmitCheckStep, EmitRecheckStep, BootTransmitStep
     DEF Boot!LaneStep
<1>3. BootInv /\ Boot!EnvStep => BootInv'
  BY BootChangeStep, BootTimerStep, BootAgesStep, DeadlineStep, CreateFailsStep, SendEndsStep, ReadyFailsStep,
     MountStep, DisposeStep, BootReceiveStep, HandlesStep, BootStrayStep DEF Boot!EnvStep
<1> QED  BY <1>1, <1>2, <1>3, BootUnchanged DEF Boot!Next

LEMMA RegistryCurrent == BootInv => RegistryIsCurrent
<1> SUFFICES ASSUME BootInv PROVE Boot!RegistryIsCurrent
  BY DEF RegistryIsCurrent
<1>1. GrantInv /\ RegistryInv
  BY DEF BootInv
<1>2. ASSUME NEW t \in registry
      PROVE  audit # "not_ready" /\ (~session.disposed => bDev[t].version = bVersion[t])
  <2>1. Granted
    BY <1>1, <1>2 DEF RegistryInv, Granted
  <2> QED  BY <1>1, <1>2, <2>1 DEF GrantInv, RegistryInv
<1>3. ASSUME session.disposed, bQueue = <<>>, registry # {} PROVE FALSE
  <2>1. Aborting /\ DOMAIN bQueue = {}
    BY <1>1, <1>3 DEF RegistryInv
  <2> QED  BY <2>1 DEF Aborting
<1> QED  BY <1>2, <1>3 DEF Boot!RegistryIsCurrent

(* The bootstrap of a connection keeps BootInv: its single thread (LaneShape), *)
(* the order of what is under way to the device and back (WireOrder), and for *)
(* every target either a snapshot awaited, that is the last one made for it,  *)
(* or none while one is due (StandsAt).                                       *)
THEOREM BootInvariant == Boot!Spec => []BootInv
<1> QED  BY BootInit, BootStep, PTL DEF Boot!Spec

(* The readiness registry calls a target ready only after the ledger holds the *)
(* ready record and only while the device shows production's state of it; a    *)
(* disposed session leaves no target ready behind.                             *)
THEOREM RegistryStaysCurrent == Boot!Spec => []RegistryIsCurrent
<1> QED  BY BootInvariant, RegistryCurrent, PTL

------------------------------------------------------------------------------
(* DeviceGateway: what was composed for a connection does not outlive it,    *)
(* whatever order its socket, its authority, its composition and the host    *)
(* end in.                                                                   *)

(* Cardinality only bounds the faults; the proofs need no more of it.      *)
Types ==
  /\ adm \in [Conns -> {"new", "authenticating", "preparing", "rejected", "accepted"}]
  /\ ws \in [Conns -> {"none", "open", "closing", "closed"}]
  /\ closed \in [Conns -> BOOLEAN]
  /\ monitor \in [Conns -> {"none", "current", "ended"}]
  /\ invalidated \in [Conns -> BOOLEAN]
  /\ coord \in [Conns -> {"none", "waiting", "granted", "assigned", "refused", "retired"}]
  /\ comp \in [Conns -> {"none", "create", "observe", "commands", "late", "start", "started",
                         "ended"}]
  /\ boot \in [Conns -> {"none", "live", "disposed"}]
  /\ cmd \in [Conns -> {"none", "live", "disposed"}]
  /\ trans \in [Conns -> {"none", "open", "closed"}]
  /\ disp \in [Conns -> {"none", "boot", "done"}]
  /\ marker \in Conns \cup {NoConn}
  /\ accepting \in BOOLEAN
  /\ stop \in {"no", "closing", "draining", "exited"}
  /\ faults \subseteq Faults

(* A connection that was not accepted has nothing. *)
Admission(k) ==
  adm[k] # "accepted" =>
    ws[k] = "none" /\ disp[k] = "none" /\ coord[k] = "none" /\ comp[k] = "none"

(* The monitor watches sockets that are there; the disposal begins with    *)
(* the close event.                                                        *)
Sockets(k) ==
  /\ monitor[k] = "current" => ws[k] \in {"open", "closing"}
  /\ ws[k] = "closed" <=> disp[k] # "none"

(* The composition fills in the parts in its order. *)
Order(k) ==
  /\ comp[k] \in {"none", "create", "observe"} => boot[k] = "none" /\ cmd[k] = "none"
  /\ comp[k] \in {"commands", "late", "start", "started"} => boot[k] # "none"

(* The generation marker is a bootstrap session's, or one's that is being  *)
(* composed, or was left behind by an observation that threw.              *)
Marker(k) ==
  /\ boot[k] = "live" \/ comp[k] = "observe" => marker = k
  /\ marker = k => boot[k] = "live" \/ comp[k] = "observe" \/ "observe" \in faults

(* What the disposal took down stays down; a bootstrap session that        *)
(* appears after the disposal is met by the composition's own check.       *)
Disposed(k) ==
  /\ disp[k] # "none" => cmd[k] # "live"
  /\ disp[k] = "done" =>
       /\ trans[k] # "open" /\ coord[k] # "assigned"
       /\ boot[k] = "live" => comp[k] \in {"commands", "late"} \/ "commands" \in faults

Conn(k) == Admission(k) /\ Sockets(k) /\ Order(k) /\ Marker(k) /\ Disposed(k)

GatewayInv == Types /\ \A k \in Conns : Conn(k)

USE DEF Conn, Admission, Sockets, Order, Marker, Disposed

------------------------------------------------------------------------------
LEMMA InitGateway == Init => GatewayInv
<1> SUFFICES ASSUME Init PROVE GatewayInv
  OBVIOUS
<1>1. Types
  BY DEF Init, Types
<1>2. \A k \in Conns : Conn(k)
  BY GatewayAssumption DEF Init
<1> QED  BY <1>1, <1>2 DEF GatewayInv

\* A step that throws, and the stop of the host that follows.
LEMMA FaultTypes ==
  ASSUME GatewayInv, NEW step, Fails(step), FailHost
  PROVE  /\ ws' \in [Conns -> {"none", "open", "closing", "closed"}] /\ accepting' \in BOOLEAN
         /\ stop' \in {"no", "closing", "draining", "exited"} /\ faults' \subseteq Faults
<1>1. ws' \in [Conns -> {"none", "open", "closing", "closed"}] /\ accepting' \in BOOLEAN
  <2>1. ws \in [Conns -> {"none", "open", "closing", "closed"}]
    BY DEF GatewayInv, Types
  <2>2. /\ ws' = [k \in Conns |-> IF ws[k] = "open" THEN "closing" ELSE ws[k]]
        /\ accepting' = FALSE
    BY DEF FailHost, CloseSocket
  <2> QED  BY <2>1, <2>2
<1>2. stop' \in {"no", "closing", "draining", "exited"}
  BY DEF FailHost, GatewayInv, Types
<1>3. faults' \subseteq Faults
  BY DEF Fails, GatewayInv, Types
<1> QED  BY <1>1, <1>2, <1>3

\* The upgrade and its awaits.
LEMMA AdmissionKeeps ==
  ASSUME GatewayInv, NEW k \in Conns, NEW ok \in BOOLEAN, NEW current \in BOOLEAN,
         HandleUpgrade(k) \/ Authenticated(k, ok) \/ Prepared(k, ok, current)
  PROVE  GatewayInv'
<1>1. CASE HandleUpgrade(k)
  <2>1. Types'
    BY <1>1 DEF HandleUpgrade, GatewayInv, Types
  <2>2. \A j \in Conns : Conn(j)'
    BY <1>1 DEF HandleUpgrade, GatewayInv, Types
  <2> QED  BY <2>1, <2>2 DEF GatewayInv
<1>2. CASE Authenticated(k, ok)
  <2>1. Types'
    BY <1>2 DEF Authenticated, GatewayInv, Types
  <2>2. \A j \in Conns : Conn(j)'
    BY <1>2 DEF Authenticated, GatewayInv, Types
  <2> QED  BY <2>1, <2>2 DEF GatewayInv
<1>3. CASE Prepared(k, ok, current)
  <2>1. Types'
    BY <1>3 DEF Prepared, Accept, GatewayInv, Types
  <2>2. \A j \in Conns : Conn(j)'
    BY <1>3 DEF Prepared, Accept, GatewayInv, Types
  <2> QED  BY <2>1, <2>2 DEF GatewayInv
<1> QED  BY <1>1, <1>2, <1>3

\* The coordinator and the monitor.
LEMMA LeaseKeeps ==
  ASSUME GatewayInv, NEW k \in Conns, NEW ok \in BOOLEAN,
         Replace(k) \/ Grant(k, ok) \/ Invalidate(k)
  PROVE  GatewayInv'
<1>1. CASE Replace(k)
  <2>1. Types'
    BY <1>1 DEF Replace, CloseSocket, GatewayInv, Types
  <2>2. \A j \in Conns : Conn(j)'
    BY <1>1 DEF Replace, CloseSocket, GatewayInv, Types
  <2> QED  BY <2>1, <2>2 DEF GatewayInv
<1>2. CASE Grant(k, ok)
  <2>1. Types'
    BY <1>2 DEF Grant, GatewayInv, Types
  <2>2. \A j \in Conns : Conn(j)'
    <3> TAKE j \in Conns
    <3>1. adm[j] # "accepted" => j # k /\ j \notin Holders(k)
      BY <1>2 DEF Grant, Holders, GatewayInv, Types
    <3>2. coord'[j] = "assigned" => coord[j] = "assigned"
      BY <1>2 DEF Grant, GatewayInv, Types
    <3>3. coord'[j] = "none" \/ adm[j] = "accepted"
      BY <1>2, <3>1 DEF Grant, GatewayInv, Types
    <3> QED  BY <1>2, <3>2, <3>3 DEF Grant, GatewayInv, Types
  <2> QED  BY <2>1, <2>2 DEF GatewayInv
<1>3. CASE Invalidate(k)
  <2>1. Types'
    BY <1>3 DEF Invalidate, CloseSocket, Retire, GatewayInv, Types
  <2>2. \A j \in Conns : Conn(j)'
    BY <1>3 DEF Invalidate, CloseSocket, Retire, GatewayInv, Types
  <2> QED  BY <2>1, <2>2 DEF GatewayInv
<1> QED  BY <1>1, <1>2, <1>3

------------------------------------------------------------------------------
\* The continuation of connect.
LEMMA ResolutionKeeps ==
  ASSUME GatewayInv, NEW k \in Conns,
         LeaseResolved(k) \/ LedgerRefuses(k) \/ LeaseRefused(k)
  PROVE  GatewayInv'
<1>1. CASE LeaseResolved(k)
  <2>1. Types'
    BY <1>1 DEF LeaseResolved, Retire, Step, CloseSocket, GatewayInv, Types
  <2>2. \A j \in Conns : Conn(j)'
    BY <1>1 DEF LeaseResolved, Retire, Step, CloseSocket, GatewayInv, Types
  <2> QED  BY <2>1, <2>2 DEF GatewayInv
<1>2. CASE LedgerRefuses(k)
  <2>1. Types'
    <3>1. Fails("ledger") /\ FailHost
      BY <1>2 DEF LedgerRefuses
    <3>2. /\ coord' = [coord EXCEPT ![k] = "assigned"] /\ trans' = [trans EXCEPT ![k] = "closed"]
          /\ comp' = [comp EXCEPT ![k] = "ended"]
          /\ UNCHANGED <<adm, closed, monitor, invalidated, boot, cmd, disp, marker, awaited>>
      BY <1>2 DEF LedgerRefuses, Step
    <3> QED  BY <3>1, <3>2, FaultTypes DEF GatewayInv, Types
  <2>2. \A j \in Conns : Conn(j)'
    BY <1>2 DEF LedgerRefuses, FailHost, Fails, Step, CloseSocket, GatewayInv, Types
  <2> QED  BY <2>1, <2>2 DEF GatewayInv
<1>3. CASE LeaseRefused(k)
  <2>1. Types'
    BY <1>3 DEF LeaseRefused, Step, CloseSocket, GatewayInv, Types
  <2>2. \A j \in Conns : Conn(j)'
    BY <1>3 DEF LeaseRefused, Step, CloseSocket, GatewayInv, Types
  <2> QED  BY <2>1, <2>2 DEF GatewayInv
<1> QED  BY <1>1, <1>2, <1>3

\* The two halves of create.
LEMMA CreationKeeps ==
  ASSUME GatewayInv, NEW k \in Conns,
         CreateIssuer(k) \/ IssuerFails(k) \/ CreateSession(k) \/ ObserveFails(k)
  PROVE  GatewayInv'
<1>1. CASE CreateIssuer(k)
  <2>1. Types'
    BY <1>1 DEF CreateIssuer, Catch, Step, CloseSocket, GatewayInv, Types
  <2>2. \A j \in Conns : Conn(j)'
    BY <1>1, GatewayAssumption DEF CreateIssuer, Catch, Step, CloseSocket, GatewayInv, Types
  <2> QED  BY <2>1, <2>2 DEF GatewayInv
<1>2. CASE IssuerFails(k)
  <2>1. Types'
    BY <1>2 DEF IssuerFails, Fails, Catch, Step, CloseSocket, GatewayInv, Types
  <2>2. \A j \in Conns : Conn(j)'
    BY <1>2 DEF IssuerFails, Fails, Catch, Step, CloseSocket, GatewayInv, Types
  <2> QED  BY <2>1, <2>2 DEF GatewayInv
<1>3. CASE CreateSession(k)
  <2>1. Types'
    BY <1>3 DEF CreateSession, Step, GatewayInv, Types
  <2>2. \A j \in Conns : Conn(j)'
    BY <1>3 DEF CreateSession, Step, GatewayInv, Types
  <2> QED  BY <2>1, <2>2 DEF GatewayInv
<1>4. CASE ObserveFails(k)
  <2>1. Types'
    BY <1>4 DEF ObserveFails, Fails, Catch, Step, CloseSocket, GatewayInv, Types
  <2>2. \A j \in Conns : Conn(j)'
    BY <1>4 DEF ObserveFails, Fails, Catch, Step, CloseSocket, GatewayInv, Types
  <2> QED  BY <2>1, <2>2 DEF GatewayInv
<1> QED  BY <1>1, <1>2, <1>3, <1>4

\* The command session, and the start.
LEMMA StartKeeps ==
  ASSUME GatewayInv, NEW k \in Conns,
         CreateCommands(k) \/ CommandsFail(k) \/ Started(k) \/ StartFails(k)
  PROVE  GatewayInv'
<1>1. CASE CreateCommands(k)
  <2>1. Types'
    BY <1>1 DEF CreateCommands, Step, GatewayInv, Types
  <2>2. \A j \in Conns : Conn(j)'
    BY <1>1 DEF CreateCommands, Step, GatewayInv, Types
  <2> QED  BY <2>1, <2>2 DEF GatewayInv
<1>2. CASE CommandsFail(k)
  <2>1. Types'
    BY <1>2 DEF CommandsFail, Fails, Catch, Step, CloseSocket, GatewayInv, Types
  <2>2. \A j \in Conns : Conn(j)'
    BY <1>2 DEF CommandsFail, Fails, Catch, Step, CloseSocket, GatewayInv, Types
  <2> QED  BY <2>1, <2>2 DEF GatewayInv
<1>3. CASE Started(k)
  <2>1. Types'
    BY <1>3 DEF Started, Step, GatewayInv, Types
  <2>2. \A j \in Conns : Conn(j)'
    BY <1>3 DEF Started, Step, GatewayInv, Types
  <2> QED  BY <2>1, <2>2 DEF GatewayInv
<1>4. CASE StartFails(k)
  <2>1. Types'
    BY <1>4 DEF StartFails, Fails, Catch, Step, CloseSocket, GatewayInv, Types
  <2>2. \A j \in Conns : Conn(j)'
    BY <1>4 DEF StartFails, Fails, Catch, Step, CloseSocket, GatewayInv, Types
  <2> QED  BY <2>1, <2>2 DEF GatewayInv
<1> QED  BY <1>1, <1>2, <1>3, <1>4

------------------------------------------------------------------------------
\* A composition that came too late, and the disposal of the close event.
LEMMA DisposalKeeps ==
  ASSUME GatewayInv, NEW k \in Conns, NEW ok \in BOOLEAN,
         LateDispose(k, ok) \/ Dispose(k, ok)
  PROVE  GatewayInv'
<1>1. CASE LateDispose(k, ok)
  <2>1. Types'
    <3>1. boot' \in [Conns -> {"none", "live", "disposed"}] /\ marker' \in Conns \cup {NoConn}
      BY <1>1 DEF LateDispose, DisposeBoot, GatewayInv, Types
    <3>2. /\ ws' \in [Conns -> {"none", "open", "closing", "closed"}] /\ accepting' \in BOOLEAN
          /\ stop' \in {"no", "closing", "draining", "exited"} /\ faults' \subseteq Faults
      <4>1. CASE CloseSocket({k}) /\ UNCHANGED <<accepting, stop, faults>>
        BY <4>1 DEF CloseSocket, GatewayInv, Types
      <4>2. CASE Fails("dispose") /\ FailHost
        BY <4>2, FaultTypes
      <4> QED  BY <1>1, <4>1, <4>2 DEF LateDispose
    <3>3. /\ coord' = [coord EXCEPT ![k] = "retired"] /\ comp' = [comp EXCEPT ![k] = "ended"]
          /\ UNCHANGED <<adm, closed, monitor, invalidated, cmd, trans, disp, awaited>>
      BY <1>1 DEF LateDispose, Retire, Step
    <3> QED  BY <3>1, <3>2, <3>3 DEF GatewayInv, Types
  <2>2. \A j \in Conns : Conn(j)'
    BY <1>1, GatewayAssumption DEF LateDispose, DisposeBoot, Retire, Step, Fails, FailHost,
                CloseSocket, GatewayInv, Types
  <2> QED  BY <2>1, <2>2 DEF GatewayInv
<1>2. CASE Dispose(k, ok)
  <2>1. Types'
    <3>1. boot' \in [Conns -> {"none", "live", "disposed"}] /\ marker' \in Conns \cup {NoConn}
      BY <1>2 DEF Dispose, DisposeBoot, GatewayInv, Types
    <3>2. /\ ws' \in [Conns -> {"none", "open", "closing", "closed"}] /\ accepting' \in BOOLEAN
          /\ stop' \in {"no", "closing", "draining", "exited"} /\ faults' \subseteq Faults
      <4>1. CASE UNCHANGED <<accepting, ws, stop, faults>>
        BY <4>1 DEF CloseSocket, GatewayInv, Types
      <4>2. CASE Fails("dispose") /\ FailHost
        BY <4>2, FaultTypes
      <4> QED  BY <1>2, <4>1, <4>2 DEF Dispose
    <3>3. /\ disp' = [disp EXCEPT ![k] = "done"] /\ trans' = [trans EXCEPT ![k] = "closed"]
          /\ coord' = IF coord[k] = "assigned" THEN [coord EXCEPT ![k] = "retired"] ELSE coord
          /\ UNCHANGED <<adm, closed, monitor, invalidated, cmd, comp, awaited>>
      BY <1>2 DEF Dispose, Retire
    <3> QED  BY <3>1, <3>2, <3>3 DEF GatewayInv, Types
  <2>2. \A j \in Conns : Conn(j)'
    BY <1>2, GatewayAssumption DEF Dispose, DisposeBoot, Retire, Fails, FailHost, CloseSocket,
                GatewayInv, Types
  <2> QED  BY <2>1, <2>2 DEF GatewayInv
<1> QED  BY <1>1, <1>2

\* The socket.
LEMMA SocketKeeps ==
  ASSUME GatewayInv, NEW k \in Conns,
         PeerCloses(k) \/ CloseTimesOut(k) \/ CloseEvent(k)
  PROVE  GatewayInv'
<1>1. CASE PeerCloses(k)
  <2>1. Types'
    BY <1>1 DEF PeerCloses, CloseSocket, GatewayInv, Types
  <2>2. \A j \in Conns : Conn(j)'
    BY <1>1 DEF PeerCloses, CloseSocket, GatewayInv, Types
  <2> QED  BY <2>1, <2>2 DEF GatewayInv
<1>2. CASE CloseTimesOut(k)
  <2>1. Types'
    BY <1>2 DEF CloseTimesOut, GatewayInv, Types
  <2>2. \A j \in Conns : Conn(j)'
    BY <1>2 DEF CloseTimesOut, GatewayInv, Types
  <2> QED  BY <2>1, <2>2 DEF GatewayInv
<1>3. CASE CloseEvent(k)
  <2>1. Types'
    BY <1>3 DEF CloseEvent, Retire, GatewayInv, Types
  <2>2. \A j \in Conns : Conn(j)'
    BY <1>3 DEF CloseEvent, Retire, GatewayInv, Types
  <2> QED  BY <2>1, <2>2 DEF GatewayInv
<1> QED  BY <1>1, <1>2, <1>3

\* The stop of the host.
LEMMA StopKeeps ==
  ASSUME GatewayInv, Stop \/ StopDrains \/ Exit
  PROVE  GatewayInv'
<1>1. CASE Stop
  <2>1. Types'
    BY <1>1 DEF Stop, FailHost, CloseSocket, GatewayInv, Types
  <2>2. \A j \in Conns : Conn(j)'
    BY <1>1 DEF Stop, FailHost, CloseSocket, GatewayInv, Types
  <2> QED  BY <2>1, <2>2 DEF GatewayInv
<1>2. CASE StopDrains
  BY <1>2 DEF StopDrains, conns, GatewayInv, Types
<1>3. CASE Exit
  BY <1>3 DEF Exit, conns, GatewayInv, Types
<1> QED  BY <1>1, <1>2, <1>3

------------------------------------------------------------------------------
LEMMA NextKeepsGateway == GatewayInv /\ [Next]_vars => GatewayInv'
<1> SUFFICES ASSUME GatewayInv, [Next]_vars PROVE GatewayInv'
  OBVIOUS
<1>1. CASE Next
  <2>1. CASE Stop \/ StopDrains \/ Exit
    BY <2>1, StopKeeps
  <2>2. ASSUME NEW k \in Conns,
               \/ HandleUpgrade(k) \/ LedgerRefuses(k)
               \/ \E ok, current \in BOOLEAN : Prepared(k, ok, current)
               \/ \E ok \in BOOLEAN : Authenticated(k, ok) \/ Grant(k, ok) \/ Dispose(k, ok)
                                      \/ LateDispose(k, ok)
               \/ Replace(k) \/ Invalidate(k) \/ Compose(k)
               \/ IssuerFails(k) \/ ObserveFails(k) \/ CommandsFail(k) \/ StartFails(k)
               \/ PeerCloses(k) \/ CloseTimesOut(k) \/ CloseEvent(k)
        PROVE  GatewayInv'
    BY <2>2, AdmissionKeeps, LeaseKeeps, ResolutionKeeps, CreationKeeps, StartKeeps,
       DisposalKeeps, SocketKeeps DEF Compose
  <2> QED  BY <1>1, <2>1, <2>2 DEF Next
<1>2. CASE UNCHANGED vars
  BY <1>2 DEF vars, conns, GatewayInv, Types
<1> QED  BY <1>1, <1>2

(* The inductive invariant of the gateway. *)
THEOREM GatewayInvariant == Spec => []GatewayInv
  BY InitGateway, NextKeepsGateway, PTL DEF Spec

LEMMA InvariantTakesDown == GatewayInv => NothingOutlivesTheTransport
  BY DEF GatewayInv, Types, NothingOutlivesTheTransport, Gone

(* NothingOutlivesTheTransport: whatever order socket, authority,          *)
(* composition and host end in, a connection that is gone leaves no        *)
(* command session, no open audit, no lease and no marker, apart from the  *)
(* two failures the property names.                                        *)
THEOREM EveryConnectionIsTakenDown == Spec => []NothingOutlivesTheTransport
  BY GatewayInvariant, InvariantTakesDown, PTL
==============================================================================
