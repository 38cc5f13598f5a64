----------------------------- MODULE Authorities -----------------------------
(* What decides who may act, side by side: the audit of device connections,   *)
(* the credential file, the monitor of one connection's authority and the     *)
(* owner's own file.  The four share neither a variable nor a constant.       *)
EXTENDS DeviceTransitionLedger

CONSTANTS
  Ids, LegacyIds, StoreTime, StoreLifetime, Budget,           \* CredentialStore
  Interval, MaxStale, MaxDelay, Lifetime, MaxTime, Requests,  \* AuthorityMonitor
  Candidates, Nobody, Shows, Callers, Sockets, MaxTokens, MaxSessions, MaxCrashes,
  MaxFailures                                                 \* StudioAuth

VARIABLES
  db, legacy, touched, proc, wallClock, shown, budget,
  now, cred, available, queue, op, timer, answered, m, reads, requests,
  running, mem, busy, sessions, expired, minted, jobs, tmp, file, ino, archived, conns,
  setupAnswered, crashes, failures

Store == INSTANCE CredentialStore
           WITH MaxTime <- StoreTime, Lifetime <- StoreLifetime, now <- wallClock
Monitor == INSTANCE AuthorityMonitor
Studio == INSTANCE StudioAuth
            WITH Requests <- Callers, up <- running, job <- jobs, answered <- setupAnswered

ASSUME AuthoritiesAssumption ==
  Store!StoreAssumption /\ Monitor!MonitorAssumption /\ Studio!AuthAssumption

(* CredentialStore: the next start accepts the file, and its event log tells  *)
(* only what happened.                                                        *)
FileStaysUsable == Store!FileStaysUsable

(* CredentialStore: nothing takes a credential back to an earlier life.       *)
NoResurrection == Store!NoResurrection

(* AuthorityMonitor: no retired authority is trusted beyond the bound, or     *)
(* after the owner's operation returned.                                      *)
StalenessIsBounded == Monitor!StalenessIsBounded

(* StudioAuth: the first owner stays the owner, and alone.                    *)
OwnerIsFinal == Studio!OwnerIsFinal
=============================================================================
