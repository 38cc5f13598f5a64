-------------------------- MODULE AuthorityMonitor --------------------------
(***************************************************************************)
(* How a device connection learns that its credential changed:             *)
(* ObservableDeviceCredentialLifecycle (operations behind one exclusive    *)
(* queue, publication to listeners, the expiration timer) and one          *)
(* AuthorityMonitorSession of DeviceConnectionAuthorityMonitor (admission, *)
(* revalidation, staleness, invalidation).                                 *)
(*                                                                         *)
(* The observation source is an asynchronous port: an answer may be late   *)
(* or never come; the SQLite one, which answers in the same turn of the    *)
(* event loop, is one of its behaviours.  An authority is its generation,  *)
(* 0 when there is none.                                                   *)
(***************************************************************************)
EXTENDS Integers, Sequences, FiniteSets

CONSTANTS Interval,   \* DEVICE_AUTHORITY_REVALIDATION_INTERVAL_MS
          MaxStale,   \* DEVICE_AUTHORITY_MAX_STALENESS_MS
          MaxDelay,   \* MAX_TIMER_DELAY_MS
          Lifetime,   \* expiresAt of a credential, from its last rotation
          MaxTime,    \* bound: the clock
          Requests    \* bound: operations the owner calls

MonitorAssumption ==
  /\ Interval \in Nat \ {0} /\ MaxStale \in Nat /\ Interval < MaxStale
  /\ MaxDelay \in Nat \ {0} /\ Lifetime \in Nat \ {0} /\ MaxTime \in Nat
  /\ Requests \in Nat

VARIABLES
  now,        \* the clock
  cred,       \* the credential's row: generation, revocation, expiry, last write
  available,  \* the lifecycle has not been closed
  queue,      \* operations waiting behind exclusive()
  op,         \* the one that runs
  timer,      \* the expiration timer: when it is due, and for which expiry
  answered,   \* generations below this one were retired in an answer to the owner
  m,          \* the monitor session
  reads,      \* its revalidations in flight
  requests

vars == <<now, cred, available, queue, op, timer, answered, m, reads, requests>>

Never == -1
NoOp == [kind |-> "none", pc |-> "idle", to |-> 0, listening |-> FALSE]
NoTimer == [due |-> Never, expiresAt |-> Never]

LesserOf(a, b) == IF a < b THEN a ELSE b

Init ==
  /\ now = 0
  /\ cred = [gen |-> 1, revoked |-> FALSE, expiresAt |-> Lifetime, updatedAt |-> 0]
  /\ available = TRUE
  /\ queue = <<>> /\ op = NoOp
  /\ timer = [due |-> LesserOf(Lifetime, MaxDelay), expiresAt |-> Lifetime]
  /\ answered = 0
  /\ m = [phase |-> "new", gen |-> 0, expiresAt |-> 0, confirmedAt |-> Never,
          poll |-> Never, stale |-> Never, staleOf |-> Never,
          subscribed |-> FALSE, target |-> FALSE, told |-> 0]
  /\ reads = {}
  /\ requests = Requests

-----------------------------------------------------------------------------
(* effectiveDeviceCredentialAuthority *)
Effective == IF cred.revoked \/ cred.expiresAt <= now THEN 0 ELSE cred.gen

Terminal(s) == s.phase \in {"invalidated", "closed"}

Cleanup(s) == [s EXCEPT !.poll = Never, !.stale = Never, !.subscribed = FALSE]

Invalidate(s) ==
  IF Terminal(s) THEN s
  ELSE [Cleanup(s) EXCEPT !.phase = "invalidated",
                          !.told = IF s.target THEN @ + 1 ELSE @]

IsCurrent ==
  /\ m.phase \in {"prepared", "active"}
  /\ m.confirmedAt # Never
  /\ now < m.confirmedAt + MaxStale
  /\ now < m.expiresAt

ScheduleStale(s, at) == [s EXCEPT !.stale = at + MaxStale, !.staleOf = at]

(* Fault: a confirmation counts from the moment its answer arrives. *)
ConfirmOnArrival(s, at) ==
  IF Terminal(s) \/ now <= s.confirmedAt THEN s
  ELSE ScheduleStale([s EXCEPT !.confirmedAt = now, !.poll = now + Interval], now)

Confirm(s, at) ==
  IF Terminal(s) \/ at <= s.confirmedAt THEN s
  ELSE ScheduleStale([s EXCEPT !.confirmedAt = at, !.poll = at + Interval], at)

(* observationMatches: what was observed at a time is this session's authority *)
Matches(s, gen, at) == gen = s.gen /\ s.expiresAt > at

Observe(s, gen, at) ==
  IF Terminal(s) THEN s
  ELSE IF Matches(s, gen, at) THEN Confirm(s, at) ELSE Invalidate(s)

(* resolveCurrent: a read that has not answered; nothing when the session ended *)
Pending(at) == [at |-> at, read |-> FALSE, gen |-> 0]

(* SQLite answers synchronously, so an operation runs to its end before the
   clock, a timer or a signal is seen; the session's own reads do not *)
Settled == op = NoOp /\ queue = <<>>

-----------------------------------------------------------------------------
(* the monitor session *)

(* prepare() of an authority that was authenticated: subscribe, then check *)
Prepare ==
  /\ m.phase = "new" /\ available /\ Effective # 0
  /\ m' = ScheduleStale([m EXCEPT !.phase = "preparing", !.gen = Effective,
                                  !.expiresAt = cred.expiresAt, !.subscribed = TRUE], now)
  /\ reads' = {Pending(now)}
  /\ UNCHANGED <<now, cred, available, queue, op, timer, answered, requests>>

(* the rest of prepare() once the first check confirmed *)
Prepared(s) ==
  IF s.phase = "preparing" /\ s.confirmedAt # Never THEN [s EXCEPT !.phase = "prepared"] ELSE s

(* the source reads the row; resolve() renews the expiration timer *)
ResolveReads ==
  /\ available
  /\ \E r \in reads :
       /\ ~r.read
       /\ reads' = (reads \ {r}) \cup {[r EXCEPT !.read = TRUE, !.gen = Effective]}
  /\ timer' = IF Effective # 0 /\ timer.expiresAt # cred.expiresAt
              THEN [due |-> LesserOf(cred.expiresAt, now + MaxDelay), expiresAt |-> cred.expiresAt]
              ELSE timer
  /\ UNCHANGED <<now, cred, available, queue, op, answered, m, requests>>

ResolveAnswers ==
  /\ \E r \in reads :
       /\ r.read
       /\ reads' = reads \ {r}
       /\ m' = IF available THEN Prepared(Observe(m, r.gen, r.at)) ELSE Invalidate(m)
  /\ UNCHANGED <<now, cred, available, queue, op, timer, answered, requests>>

(* the source fails, or is found closed *)
ResolveFails ==
  /\ \E r \in reads : reads' = reads \ {r}
  /\ m' = Invalidate(m)
  /\ UNCHANGED <<now, cred, available, queue, op, timer, answered, requests>>

Activate ==
  /\ m.phase = "prepared"
  /\ m' = IF IsCurrent THEN [m EXCEPT !.phase = "active", !.target = TRUE] ELSE Invalidate(m)
  /\ UNCHANGED <<now, cred, available, queue, op, timer, answered, reads, requests>>

(* abort() before activation, close() of the lease after it *)
Close ==
  /\ ~Terminal(m) /\ m.phase # "new"
  /\ m' = [Cleanup(m) EXCEPT !.phase = "closed"]
  /\ UNCHANGED <<now, cred, available, queue, op, timer, answered, reads, requests>>

PollFires ==
  /\ Settled
  /\ m.poll # Never /\ m.poll <= now
  /\ m' = [m EXCEPT !.poll = Never]
  /\ reads' = reads \cup {Pending(now)}
  /\ UNCHANGED <<now, cred, available, queue, op, timer, answered, requests>>

StaleFires ==
  /\ Settled
  /\ m.stale # Never /\ m.stale <= now
  /\ LET s == [m EXCEPT !.stale = Never]
     IN  m' = IF m.confirmedAt > m.staleOf THEN s ELSE Invalidate(s)
  /\ UNCHANGED <<now, cred, available, queue, op, timer, answered, reads, requests>>

-----------------------------------------------------------------------------
(* the lifecycle *)

(* exclusive(): an owner's request is queued *)
Request ==
  /\ available
  /\ requests > 0 /\ requests' = requests - 1
  /\ \E kind \in {"rotate", "revoke"} : queue' = Append(queue, kind)
  /\ UNCHANGED <<now, cred, available, op, timer, answered, m, reads>>

Take ==
  /\ op = NoOp /\ queue # <<>>
  /\ op' = [NoOp EXCEPT !.kind = Head(queue), !.pc = "write"]
  /\ queue' = Tail(queue)
  /\ UNCHANGED <<now, cred, available, timer, answered, m, reads, requests>>

Schedule(e) == [due |-> LesserOf(e, now + MaxDelay), expiresAt |-> e]

(* the write, the event and the timer; a refused rotation just fails *)
Mutate ==
  /\ op.pc = "write"
  /\ \/ /\ op.kind = "rotate" /\ Effective # 0
        /\ \E e \in {cred.expiresAt, now + Lifetime} :
             /\ cred' = [cred EXCEPT !.gen = @ + 1, !.expiresAt = e, !.updatedAt = now]
             /\ timer' = IF timer.expiresAt = e THEN timer ELSE Schedule(e)
        /\ op' = [op EXCEPT !.pc = "publish", !.to = cred.gen + 1]
     \/ /\ op.kind = "rotate" /\ Effective = 0
        /\ op' = NoOp
        /\ UNCHANGED <<cred, timer>>
     \/ /\ op.kind = "revoke"
        /\ cred' = IF cred.revoked THEN cred
                   ELSE [cred EXCEPT !.revoked = TRUE, !.gen = @ + 1, !.updatedAt = now]
        /\ timer' = NoTimer
        /\ op' = [op EXCEPT !.pc = "publish", !.to = 0]
     \/ /\ op.kind = "expire"
        /\ timer' = IF Effective # 0 THEN Schedule(cred.expiresAt) ELSE timer
        /\ op' = IF Effective # 0 THEN NoOp ELSE [op EXCEPT !.pc = "publish", !.to = 0]
        /\ UNCHANGED cred
  /\ UNCHANGED <<now, available, queue, answered, m, reads, requests>>

(* the store rejects the write, or its COMMIT fails although it is durable:
   nothing is published *)
MutateFails ==
  /\ op.pc = "write" /\ op.kind # "expire"
  /\ op' = NoOp
  /\ \/ UNCHANGED cred
     \/ /\ op.kind = "rotate" /\ Effective # 0
        /\ cred' = [cred EXCEPT !.gen = @ + 1, !.updatedAt = now]
     \/ /\ op.kind = "revoke" /\ ~cred.revoked
        /\ cred' = [cred EXCEPT !.gen = @ + 1, !.updatedAt = now, !.revoked = TRUE]
  /\ UNCHANGED <<now, available, queue, timer, answered, m, reads, requests>>

(* publish() copies the listeners there are now *)
Publish ==
  /\ op.pc = "publish"
  /\ op' = [op EXCEPT !.pc = "deliver", !.listening = m.subscribed]
  /\ UNCHANGED <<now, cred, available, queue, timer, answered, m, reads, requests>>

(* observeNotification: an unexpected authority ends the session, an expected
   one is checked again *)
Notified(s, gen) ==
  IF Terminal(s) \/ Matches(s, gen, now) THEN s ELSE Invalidate(s)

Deliver ==
  /\ op.pc = "deliver"
  /\ LET hears == op.listening
     IN  /\ m' = IF hears THEN Notified(m, op.to) ELSE m
         /\ reads' = IF hears /\ ~Terminal(m) /\ Matches(m, op.to, now)
                     THEN reads \cup {Pending(now)} ELSE reads
  /\ op' = [op EXCEPT !.pc = "answer"]
  /\ UNCHANGED <<now, cred, available, queue, timer, answered, requests>>

(* every listener has run: the owner's call returns *)
Answer ==
  /\ op.pc = "answer"
  /\ answered' = IF op.kind = "rotate" THEN op.to
                 ELSE IF op.kind \in {"revoke", "close"} THEN Requests + 2 ELSE answered
  /\ op' = NoOp
  /\ UNCHANGED <<now, cred, available, queue, timer, m, reads, requests>>

ExpirationFires ==
  /\ Settled /\ available
  /\ timer.due # Never /\ timer.due <= now
  /\ timer' = NoTimer
  /\ queue' = Append(queue, "expire")
  /\ UNCHANGED <<now, cred, available, op, answered, m, reads, requests>>

(* close(): unavailable at once, then every listener hears null *)
CloseLifecycle ==
  /\ Settled /\ available
  /\ available' = FALSE
  /\ timer' = NoTimer
  /\ op' = [NoOp EXCEPT !.kind = "close", !.pc = "publish"]
  /\ UNCHANGED <<now, cred, queue, answered, m, reads, requests>>

Tick ==
  /\ Settled
  /\ now < MaxTime
  /\ now' = now + 1
  /\ UNCHANGED <<cred, available, queue, op, timer, answered, m, reads, requests>>

Lifecycle == Take \/ Mutate \/ Publish \/ Deliver \/ Answer

Next ==
  \/ Prepare \/ ResolveReads \/ ResolveAnswers \/ ResolveFails \/ Activate \/ Close
  \/ PollFires \/ StaleFires
  \/ Request \/ Lifecycle \/ MutateFails \/ ExpirationFires \/ CloseLifecycle
  \/ Tick

Spec == Init /\ [][Next]_vars

-----------------------------------------------------------------------------
(* AuthorityMonitorSession.isCurrent never trusts a confirmation longer than
   the staleness bound after the row stopped holding the session's authority,
   whichever answers of the source were late; and the owner's rotate, revoke
   and the lifecycle's close return only when no session of a retired
   generation is current any more, also one being admitted while they ran. *)
StalenessIsBounded ==
  IsCurrent => /\ cred.gen # m.gen => now < cred.updatedAt + MaxStale
               /\ answered <= m.gen
=============================================================================
