-------------------------- MODULE Authorities_proofs --------------------------
(***************************************************************************)
(* Proofs about the audit of host epochs and device connections, wherever  *)
(* a process dies and whatever becomes of its last commit; about the       *)
(* monitor of a connection's authority, whichever answers are late; about  *)
(* the owner's own file, whatever saves overlap in it; and about the       *)
(* credential file, whatever start fails and whoever writes the old file.  *)
(***************************************************************************)
EXTENDS Authorities, Integers, FiniteSetTheorems, TLAPS

(***************************************************************************)
(* The audit of host epochs and device connections.                        *)
(***************************************************************************)
Phase(rs, c) == PhaseIn(rs, Len(rs), c)

\* Record i is the last one of connection c among the first n.
IsLast(rs, n, c, i) ==
  i \in 1..n /\ rs[i].conn = c /\ \A j \in 1..n : rs[j].conn = c => j <= i

LastKnown(rs) ==
  \A n \in 0..Len(rs), c \in Conns :
    (\E i \in 1..n : rs[i].conn = c) => \E i \in 1..n : IsLast(rs, n, c, i)

\* A host started after which none stopped, and it is the latest.
Unsealed(rs) ==
  \E i \in 1..Len(rs) :
    /\ rs[i].kind = "host.started"
    /\ \A j \in 1..Len(rs) : rs[j].kind = "host.started" => j <= i
    /\ \A j \in i..Len(rs) : rs[j].kind # "host.stopped"

StoppedIn(rs, e) == \E i \in 1..Len(rs) : rs[i].kind = "host.stopped" /\ rs[i].epoch = e

StopsClean(rs) ==
  \A i \in 1..Len(rs) : rs[i].kind = "host.stopped" =>
    /\ \A c \in Conns : PhaseIn(rs, i, c) \in {"absent", "closed"}
    /\ \A j \in i+1..Len(rs) : rs[j].epoch # rs[i].epoch

(***************************************************************************)
(* What the table is, whoever reads it: it verifies, its stops are clean,  *)
(* and a connection is open only under a host that was not sealed.         *)
(***************************************************************************)
FileInv(rs) ==
  /\ LastKnown(rs)
  /\ \A c \in Conns : Phase(rs, c) \in Phases
  /\ \A i \in 1..Len(rs) : rs[i].conn # None => Phase(rs, rs[i].conn) # "absent"
  /\ VerifyPersistedHistory(rs) /\ StopsClean(rs)
  /\ (\E c \in Conns : Phase(rs, c) \notin {"absent", "closed"}) => Unsealed(rs)

\* A host that may append knows its epoch, which it has not stopped.
Starting == job.call \in {"start", "detect", "seal"}
HostInv ==
  /\ \A i \in 1..Len(records) : records[i].epoch <= epoch
  /\ active => up
  /\ up => epoch >= 1
  /\ job.call # "none" => up
  /\ Starting => active /\ ~failed
  /\ (active /\ ~failed) => ~StoppedIn(records, epoch)
  /\ (active /\ ~failed /\ job.call # "start") => Unsealed(records)

\* What a session says of its connection, also between two of its records.
SessionInv(c) ==
  session[c] \notin {"new", "lost"} =>
    /\ up /\ ~Starting
    /\ \/ Phase(records, c) = session[c]
       \/ fatal /\ session[c] # "ready"
       \/ /\ job = [call |-> "close", conn |-> c] /\ session[c] = "closed"
          /\ Phase(records, c) = "quiescing"

EarlierInv ==
  (active /\ ~failed /\ ~Starting) =>
    \A i \in 1..Len(records) :
      (records[i].conn # None /\ records[i].epoch # epoch) =>
        Phase(records, records[i].conn) = "closed"

LedgerInv ==
  /\ TypeOK /\ FileInv(records) /\ HostInv /\ MemoryIsTheTable
  /\ \A c \in Conns : SessionInv(c)
  /\ job.call = "close" => job.conn \in Conns /\ session[job.conn] = "closed"
  /\ EarlierInv
-----------------------------------------------------------------------------
(***************************************************************************)
(* What one more record changes.                                           *)
(***************************************************************************)
LEMMA PhaseOfLast ==
  ASSUME NEW rs, NEW n \in Nat, NEW c, NEW i, IsLast(rs, n, c, i)
  PROVE  PhaseIn(rs, n, c) = PhaseAfter(rs[i].kind)
<1> DEFINE own == {j \in 1..n : rs[j].conn = c}
<1>1. i \in own /\ \A j \in own : j <= i
  BY DEF IsLast
<1>2. \A k \in own : (\A j \in own : j <= k) => k = i
  BY <1>1
<1>3. (CHOOSE k \in own : \A j \in own : j <= k) = i
  BY <1>1, <1>2
<1> QED  BY <1>1, <1>3 DEF PhaseIn

LEMMA AppendIsLonger ==
  ASSUME NEW rs \in Seq(Records), NEW r \in Records
  PROVE  /\ Append(rs, r) \in Seq(Records)
         /\ Len(Append(rs, r)) = Len(rs) + 1 /\ Len(rs) \in Nat
         /\ Append(rs, r)[Len(rs) + 1] = r
         /\ \A i \in 1..Len(rs) : Append(rs, r)[i] = rs[i]
OBVIOUS

\* The phases before the new record are the old ones, and its own connection
\* moves to the phase its kind says.
LEMMA AppendMovesOne ==
  ASSUME NEW rs \in Seq(Records), NEW r \in Records, LastKnown(rs)
  PROVE  /\ LastKnown(Append(rs, r))
         /\ \A n \in 0..Len(rs), c \in Conns :
              PhaseIn(Append(rs, r), n, c) = PhaseIn(rs, n, c)
         /\ \A c \in Conns : Phase(Append(rs, r), c) =
              IF r.conn = c THEN PhaseAfter(r.kind) ELSE Phase(rs, c)
<1>1. PICK rt \in Seq(Records) :
        /\ rt = Append(rs, r) /\ Len(rt) = Len(rs) + 1
        /\ rt[Len(rs) + 1] = r /\ \A i \in 1..Len(rs) : rt[i] = rs[i]
  BY AppendIsLonger
<1>2. Len(rs) \in Nat
  BY AppendIsLonger
<1>3. ASSUME NEW n \in 0..Len(rs), NEW c \in Conns, NEW i, IsLast(rs, n, c, i)
      PROVE  IsLast(rt, n, c, i) /\ PhaseIn(rt, n, c) = PhaseIn(rs, n, c)
  <2>1. IsLast(rt, n, c, i) /\ rt[i] = rs[i]
    BY <1>1, <1>2, <1>3 DEF IsLast
  <2> QED  BY <2>1, <1>2, <1>3, PhaseOfLast
<1>4. ASSUME NEW n \in 0..Len(rs), NEW c \in Conns
      PROVE  /\ PhaseIn(rt, n, c) = PhaseIn(rs, n, c)
             /\ (\E i \in 1..n : rt[i].conn = c) => \E i \in 1..n : IsLast(rt, n, c, i)
  <2>1. CASE \E i \in 1..n : rs[i].conn = c
    BY <2>1, <1>3 DEF LastKnown
  <2>2. CASE ~ \E i \in 1..n : rs[i].conn = c
    <3>1. ~ \E i \in 1..n : rt[i].conn = c
      BY <2>2, <1>1, <1>2
    <3> QED  BY <2>2, <3>1 DEF PhaseIn
  <2> QED  BY <2>1, <2>2
<1>5. ASSUME NEW c \in Conns
      PROVE  /\ (\E i \in 1..Len(rt) : rt[i].conn = c)
                  => \E i \in 1..Len(rt) : IsLast(rt, Len(rt), c, i)
             /\ Phase(rt, c) = IF r.conn = c THEN PhaseAfter(r.kind) ELSE Phase(rs, c)
  <2>1. CASE r.conn = c
    <3>1. IsLast(rt, Len(rt), c, Len(rs) + 1)
      BY <2>1, <1>1, <1>2 DEF IsLast
    <3>4. Len(rt) \in Nat
      BY <1>1, <1>2
    <3>2. PhaseIn(rt, Len(rt), c) = PhaseAfter(rt[Len(rs) + 1].kind)
      BY <3>1, <3>4, PhaseOfLast
    <3>3. Phase(rt, c) = PhaseAfter(r.kind)
      BY <3>2, <1>1 DEF Phase
    <3> QED  BY <3>1, <3>3, <2>1 DEF IsLast
  <2>2. CASE r.conn # c
    <3>1. \A i \in 1..Len(rt) : rt[i].conn = c => i \in 1..Len(rs)
      BY <2>2, <1>1, <1>2
    <3> DEFINE own(n) == {i \in 1..n : rt[i].conn = c}
               latest(s) == rt[CHOOSE i \in s : \A j \in s : j <= i].kind
    <3>2. own(Len(rt)) = own(Len(rs))
      BY <3>1, <1>1, <1>2
    <3>5. \A n : PhaseIn(rt, n, c) =
            IF own(n) = {} THEN "absent" ELSE PhaseAfter(latest(own(n)))
      BY DEF PhaseIn
    <3> HIDE DEF own, latest
    <3>3. PhaseIn(rt, Len(rt), c) = PhaseIn(rt, Len(rs), c)
      BY <3>2, <3>5
    <3> USE DEF own
    <3>4. ASSUME NEW i \in 1..Len(rs), IsLast(rt, Len(rs), c, i)
          PROVE  IsLast(rt, Len(rt), c, i)
      <4>1. \A j \in 1..Len(rt) : rt[j].conn = c => j \in 1..Len(rs) /\ rs[j].conn = c
        BY <3>1, <1>1
      <4>2. i \in 1..Len(rt) /\ rt[i].conn = c
        BY <3>4, <1>1, <1>2 DEF IsLast
      <4> QED  BY <4>1, <4>2, <3>4 DEF IsLast
    <3> QED  BY <3>1, <3>3, <3>4, <2>2, <1>1, <1>2, <1>4 DEF Phase
  <2> QED  BY <2>1, <2>2
<1>6. LastKnown(rt)
  <2> SUFFICES ASSUME NEW n \in 0..Len(rt), NEW c \in Conns,
                      \E i \in 1..n : rt[i].conn = c
               PROVE  \E i \in 1..n : IsLast(rt, n, c, i)
    BY DEF LastKnown
  <2>1. n = Len(rt) \/ n \in 0..Len(rs)
    BY <1>1, <1>2
  <2> QED  BY <2>1, <1>4, <1>5
<1> QED  BY <1>1, <1>4, <1>5, <1>6

LEMMA AppendChecks ==
  ASSUME NEW rs \in Seq(Records), NEW r \in Records,
         r.kind = "checkpoint" => r.conn \in Conns
  PROVE  /\ \A n \in 0..Len(rs) : CheckpointedIn(Append(rs, r), n) = CheckpointedIn(rs, n)
         /\ CheckpointedIn(Append(rs, r), Len(rs) + 1) =
              IF r.kind = "checkpoint" THEN CheckpointedIn(rs, Len(rs)) \cup {r.conn}
                                       ELSE CheckpointedIn(rs, Len(rs))
<1>1. PICK rt \in Seq(Records) :
        /\ rt = Append(rs, r) /\ Len(rt) = Len(rs) + 1
        /\ rt[Len(rs) + 1] = r /\ \A i \in 1..Len(rs) : rt[i] = rs[i]
  BY AppendIsLonger
<1>2. Len(rs) \in Nat
  BY AppendIsLonger
<1>3. \A n \in 0..Len(rs) : CheckpointedIn(rt, n) = CheckpointedIn(rs, n)
  BY <1>1, <1>2 DEF CheckpointedIn
<1>4. 1..Len(rs)+1 = (1..Len(rs)) \cup {Len(rs) + 1}
  BY <1>2
<1>5. CheckpointedIn(rt, Len(rs) + 1) =
        IF r.kind = "checkpoint" THEN CheckpointedIn(rs, Len(rs)) \cup {r.conn}
                                 ELSE CheckpointedIn(rs, Len(rs))
  BY <1>1, <1>4 DEF CheckpointedIn
<1> QED  BY <1>1, <1>3, <1>5

LEMMA AppendSeals ==
  ASSUME NEW rs \in Seq(Records), NEW r \in Records
  PROVE  /\ r.kind = "host.started" => Unsealed(Append(rs, r))
         /\ r.kind # "host.stopped" /\ Unsealed(rs) => Unsealed(Append(rs, r))
         /\ \A e : StoppedIn(Append(rs, r), e) <=>
              (StoppedIn(rs, e) \/ (r.kind = "host.stopped" /\ r.epoch = e))
<1>1. PICK rt \in Seq(Records) :
        /\ rt = Append(rs, r) /\ Len(rt) = Len(rs) + 1
        /\ rt[Len(rs) + 1] = r /\ \A i \in 1..Len(rs) : rt[i] = rs[i]
  BY AppendIsLonger
<1>2. Len(rs) \in Nat
  BY AppendIsLonger
<1>3. ASSUME r.kind = "host.started"
      PROVE  Unsealed(rt)
  <2>1. \A j \in (Len(rs) + 1)..Len(rt) : rt[j].kind # "host.stopped"
    BY <1>1, <1>2, <1>3
  <2> QED  BY <2>1, <1>1, <1>2, <1>3 DEF Unsealed
<1>4. ASSUME r.kind # "host.stopped", Unsealed(rs)
      PROVE  Unsealed(rt)
  <2>1. CASE r.kind = "host.started"
    BY <2>1, <1>3
  <2>2. CASE r.kind # "host.started"
    <3>1. PICK i \in 1..Len(rs) :
            /\ rs[i].kind = "host.started"
            /\ \A j \in 1..Len(rs) : rs[j].kind = "host.started" => j <= i
            /\ \A j \in i..Len(rs) : rs[j].kind # "host.stopped"
      BY <1>4 DEF Unsealed
    <3>2. \A j \in 1..Len(rt) : j \in 1..Len(rs) \/ rt[j] = r
      BY <1>1, <1>2
    <3>3. rt[i].kind = "host.started" /\ i \in 1..Len(rt)
      BY <3>1, <1>1, <1>2
    <3>4. \A j \in 1..Len(rt) : rt[j].kind = "host.started" => j <= i
      BY <3>1, <3>2, <2>2, <1>1, <1>2
    <3>5. \A j \in i..Len(rt) : rt[j].kind # "host.stopped"
      BY <3>1, <3>2, <1>1, <1>2, <1>4
    <3> QED  BY <3>3, <3>4, <3>5 DEF Unsealed
  <2> QED  BY <2>1, <2>2
<1>5. \A e : StoppedIn(rt, e) <=>
        (StoppedIn(rs, e) \/ (r.kind = "host.stopped" /\ r.epoch = e))
  <2>1. 1..Len(rt) = (1..Len(rs)) \cup {Len(rs) + 1}
    BY <1>1, <1>2
  <2> QED  BY <2>1, <1>1 DEF StoppedIn
<1> QED  BY <1>1, <1>3, <1>4, <1>5

\* A record that its writer may add.
MayFollow(rs, r) ==
  /\ ~StoppedIn(rs, r.epoch)
  /\ r.conn = None => r.kind \in HostKinds
  /\ r.conn # None =>
       /\ <<Phase(rs, r.conn), r.kind>> \in Allowed
       /\ r.kind = "checkpoint" => r.conn \notin CheckpointedIn(rs, Len(rs))
       /\ Unsealed(rs)
  /\ r.kind = "host.stopped" => \A c \in Conns : Phase(rs, c) \in {"absent", "closed"}

LEMMA AppendKeepsFile ==
  ASSUME NEW rs \in Seq(Records), NEW r \in Records, FileInv(rs), MayFollow(rs, r)
  PROVE  FileInv(Append(rs, r))
<1>1. PICK rt \in Seq(Records) :
        /\ rt = Append(rs, r) /\ Len(rt) = Len(rs) + 1
        /\ rt[Len(rs) + 1] = r /\ \A i \in 1..Len(rs) : rt[i] = rs[i]
  BY AppendIsLonger
<1>2. /\ Len(rs) \in Nat
      /\ r.kind \in HostKinds \cup ConnKinds /\ r.conn \in Conns \cup {None}
  BY AppendIsLonger DEF Records
<1>3. r.conn # None => r.conn \in Conns /\ r.kind \in ConnKinds
  BY <1>2 DEF MayFollow, Allowed, ConnKinds
<1>4. LastKnown(rs)
  BY DEF FileInv
<1>5. /\ LastKnown(rt)
      /\ \A n \in 0..Len(rs), c \in Conns : PhaseIn(rt, n, c) = PhaseIn(rs, n, c)
      /\ \A c \in Conns : Phase(rt, c) =
           IF r.conn = c THEN PhaseAfter(r.kind) ELSE Phase(rs, c)
  BY <1>1, <1>4, AppendMovesOne
<1>6. r.kind = "checkpoint" => r.conn \in Conns
  BY <1>2 DEF MayFollow, HostKinds
<1>7. \A n \in 0..Len(rs) : CheckpointedIn(rt, n) = CheckpointedIn(rs, n)
  BY <1>1, <1>6, AppendChecks
<1>8. /\ 1..Len(rt) = (1..Len(rs)) \cup {Len(rs) + 1}
      /\ (Len(rs) + 1) - 1 = Len(rs)
      /\ \A i \in 1..Len(rs) : i - 1 \in 0..Len(rs) /\ i \in 0..Len(rs)
      /\ Len(rs) \in 0..Len(rs)
  BY <1>1, <1>2
<1>9. \A i \in 1..Len(rs) : rs[i].conn # None => rs[i].conn \in Conns
  <2>1. \A i \in 1..Len(rs) : rs[i] \in Records
    OBVIOUS
  <2> QED  BY <2>1 DEF Records
<1>10. \A c \in Conns : Phase(rt, c) \in Phases
  <2>1. \A k \in ConnKinds : PhaseAfter(k) \in Phases
    BY DEF PhaseAfter, Phases, ConnKinds
  <2>2. \A c \in Conns : Phase(rs, c) \in Phases
    BY DEF FileInv
  <2> QED  BY <2>1, <2>2, <1>3, <1>5, NoneIsNoConn
<1>11. \A i \in 1..Len(rt) : rt[i].conn # None => Phase(rt, rt[i].conn) # "absent"
  <2>1. \A k \in ConnKinds : PhaseAfter(k) # "absent"
    BY DEF PhaseAfter, ConnKinds
  <2> QED  BY <2>1, <1>1, <1>3, <1>5, <1>8, <1>9 DEF FileInv
<1>12. VerifyPersistedHistory(rt)
  <2> SUFFICES ASSUME NEW i \in 1..Len(rt), rt[i].conn # None
               PROVE  /\ <<PhaseIn(rt, i - 1, rt[i].conn), rt[i].kind>> \in Allowed
                      /\ rt[i].kind = "checkpoint" =>
                           rt[i].conn \notin CheckpointedIn(rt, i - 1)
    BY DEF VerifyPersistedHistory
  <2>1. CASE i \in 1..Len(rs)
    BY <2>1, <1>1, <1>5, <1>7, <1>8, <1>9 DEF FileInv, VerifyPersistedHistory
  <2>2. CASE i = Len(rs) + 1
    <3>1. rt[i] = r /\ i - 1 = Len(rs)
      BY <2>2, <1>1, <1>8
    <3>2. r.conn \in Conns /\ PhaseIn(rt, i - 1, r.conn) = Phase(rs, r.conn)
      BY <3>1, <1>3, <1>5, <1>8 DEF Phase
    <3>3. CheckpointedIn(rt, i - 1) = CheckpointedIn(rs, Len(rs))
      BY <3>1, <1>7, <1>8
    <3> QED  BY <3>1, <3>2, <3>3 DEF MayFollow
  <2> QED  BY <2>1, <2>2, <1>8
<1>13. StopsClean(rt)
  <2> SUFFICES ASSUME NEW i \in 1..Len(rt), rt[i].kind = "host.stopped"
               PROVE  /\ \A c \in Conns : PhaseIn(rt, i, c) \in {"absent", "closed"}
                      /\ \A j \in i+1..Len(rt) : rt[j].epoch # rt[i].epoch
    BY DEF StopsClean
  <2>1. CASE i \in 1..Len(rs)
    <3>1. \A c \in Conns : PhaseIn(rt, i, c) \in {"absent", "closed"}
      BY <2>1, <1>1, <1>5, <1>8 DEF FileInv, StopsClean
    <3>2. \A j \in i+1..Len(rt) : j \in i+1..Len(rs) \/ rt[j] = r
      BY <2>1, <1>1, <1>2
    <3>3. \A j \in i+1..Len(rs) : rt[j] = rs[j] /\ rs[j].epoch # rs[i].epoch
      BY <2>1, <1>1, <1>2 DEF FileInv, StopsClean
    <3>4. rs[i].epoch # r.epoch
      BY <2>1, <1>1 DEF MayFollow, StoppedIn
    <3> QED  BY <3>1, <3>2, <3>3, <3>4, <2>1, <1>1
  <2>2. CASE i = Len(rs) + 1
    <3>1. rt[i] = r /\ i = Len(rt)
      BY <2>2, <1>1
    <3>2. \A c \in Conns : PhaseIn(rt, i, c) = Phase(rt, c) /\ r.conn # c
      BY <3>1, <1>3, NoneIsNoConn DEF Phase, ConnKinds
    <3>3. \A c \in Conns : PhaseIn(rt, i, c) \in {"absent", "closed"}
      BY <3>1, <3>2, <1>5 DEF MayFollow
    <3>4. i+1..Len(rt) = {}
      BY <3>1, <1>1, <1>2
    <3> QED  BY <3>3, <3>4
  <2> QED  BY <2>1, <2>2, <1>8
<1>14. ASSUME NEW c \in Conns, Phase(rt, c) \notin {"absent", "closed"}
       PROVE  Unsealed(rt)
  <2>1. Unsealed(rs) /\ r.kind # "host.stopped"
    <3>1. CASE r.conn = None
      BY <3>1, <1>5, <1>14, NoneIsNoConn DEF MayFollow, FileInv
    <3>2. CASE r.conn # None
      BY <3>2, <1>3 DEF MayFollow, ConnKinds
    <3> QED  BY <3>1, <3>2
  <2> QED  BY <2>1, <1>1, AppendSeals
<1>15. FileInv(rt)
  BY <1>5, <1>10, <1>11, <1>12, <1>13, <1>14 DEF FileInv
<1> QED  BY <1>1, <1>15

\* The start finds the host that was left open.
LEMMA UnsealedIsFound ==
  ASSUME NEW rs \in Seq(Records), Unsealed(rs)
  PROVE  LatestUnsealedHostEpoch(rs)
<1>1. PICK i \in 1..Len(rs) :
        /\ rs[i].kind = "host.started"
        /\ \A j \in 1..Len(rs) : rs[j].kind = "host.started" => j <= i
        /\ \A j \in i..Len(rs) : rs[j].kind # "host.stopped"
  BY DEF Unsealed
<1> DEFINE starts == {j \in 1..Len(rs) : rs[j].kind = "host.started"}
<1>2. i \in starts /\ \A j \in starts : j <= i
  BY <1>1
<1>3. \A k \in starts : (\A j \in starts : j <= k) => k = i
  BY <1>2
<1>4. (CHOOSE k \in starts : \A j \in starts : j <= k) = i
  BY <1>2, <1>3
<1> QED  BY <1>1, <1>2, <1>4 DEF LatestUnsealedHostEpoch
-----------------------------------------------------------------------------
(***************************************************************************)
(* The ends of a process.                                                  *)
(***************************************************************************)
LEMMA InitEstablishes ==
  ASSUME Init
  PROVE  LedgerInv
<1>1. /\ records = << >> /\ Len(records) = 0 /\ records \in Seq(Records)
      /\ 1..Len(records) = {} /\ 0..Len(records) = {0} /\ 1..0 = {}
  BY DEF Init
<1>2. \A c \in Conns : Phase(records, c) = "absent"
  BY <1>1 DEF Phase, PhaseIn
<1>3. FileInv(records)
  BY <1>1, <1>2 DEF FileInv, LastKnown, VerifyPersistedHistory, StopsClean, Phases
<1>4. NoJob \in Jobs /\ NoJob.call = "none"
  BY DEF NoJob, Jobs
<1>5. TypeOK
  <2>1. epoch \in 0..MaxEpochs /\ globalSequence \in Nat
    BY LedgerBounds DEF Init
  <2>2. connectionPhases \in [Conns -> Phases] /\ checkpointedConnections \subseteq Conns
    BY DEF Init, Phases
  <2>3. session \in [Conns -> {"new", "not_ready", "ready", "quiescing",
                               "closed", "lost"}]
    BY DEF Init
  <2> QED  BY <1>1, <1>4, <2>1, <2>2, <2>3 DEF Init, TypeOK
<1> QED
  BY <1>1, <1>3, <1>4, <1>5
  DEF LedgerInv, Init, HostInv, Starting, MemoryIsTheTable, SessionInv, EarlierInv

\* Whatever a process leaves in the table, its end leaves the rest as at the
\* start.
LEMMA ExitKeeps ==
  ASSUME LedgerInv, Exit, UNCHANGED epoch, records' \in Seq(Records),
         FileInv(records'), \A i \in 1..Len(records') : records'[i].epoch <= epoch
  PROVE  LedgerInv'
<1>1. NoJob \in Jobs /\ NoJob.call = "none"
  BY DEF NoJob, Jobs
<1>2. TypeOK'
  BY <1>1 DEF LedgerInv, TypeOK, Exit, Phases
<1>3. HostInv' /\ MemoryIsTheTable' /\ EarlierInv'
  BY <1>1 DEF Exit, HostInv, Starting, MemoryIsTheTable, EarlierInv
<1>4. \A c \in Conns : SessionInv(c)'
  BY DEF Exit, SessionInv
<1> QED  BY <1>1, <1>2, <1>3, <1>4 DEF LedgerInv, Exit

LEMMA MountKeeps ==
  ASSUME LedgerInv, Mount
  PROVE  LedgerInv'
<1> USE DEF Mount
<1>1. records \in Seq(Records) /\ Len(records) \in Nat /\ epoch \in Nat
  BY LedgerBounds DEF LedgerInv, TypeOK
<1>2. \A i \in 1..Len(records) : records[i].epoch \in Nat /\ records[i].epoch <= epoch
  <2>1. \A i \in 1..Len(records) : records[i] \in Records
    BY <1>1
  <2> QED  BY <2>1, LedgerBounds DEF LedgerInv, HostInv, Records
<1>3. FileInv(records)'
  BY DEF LedgerInv
<1>4. TypeOK'
  <2>1. connectionPhases' \in [Conns -> Phases]
    BY DEF LedgerInv, FileInv, Phase
  <2>2. job' \in Jobs
    BY DEF Jobs
  <2>3. checkpointedConnections' \subseteq Conns
    BY DEF CheckpointedIn
  <2>4. epoch' \in 0..MaxEpochs
    BY <1>1, LedgerBounds
  <2>5. globalSequence' \in Nat
    BY <1>1
  <2> QED  BY <2>1, <2>2, <2>3, <2>4, <2>5 DEF LedgerInv, TypeOK
<1>5. HostInv'
  <2>1. ~StoppedIn(records, epoch + 1)
    BY <1>1, <1>2 DEF StoppedIn
  <2>2. \A i \in 1..Len(records) : records[i].epoch <= epoch + 1
    BY <1>1, <1>2
  <2> QED  BY <2>1, <2>2, <1>1 DEF HostInv, Starting
<1>6. MemoryIsTheTable' /\ EarlierInv'
  BY DEF MemoryIsTheTable, EarlierInv, Starting
<1>7. \A c \in Conns : SessionInv(c)'
  BY DEF LedgerInv, SessionInv
<1> QED  BY <1>3, <1>4, <1>5, <1>6, <1>7 DEF LedgerInv
-----------------------------------------------------------------------------
(***************************************************************************)
(* One append by a host that may make it.                                  *)
(***************************************************************************)
Record(kind, c) == [kind |-> kind, conn |-> c, epoch |-> epoch]

LEMMA RecordFits ==
  ASSUME LedgerInv, NEW kind \in HostKinds \cup ConnKinds, NEW c \in Conns \cup {None},
         active
  PROVE  Record(kind, c) \in Records
BY DEF Record, Records, LedgerInv, TypeOK, HostInv

\* The table after it, whether or not the call returned.
LEMMA AppendInternalKeeps ==
  ASSUME LedgerInv, active, ~failed, UNCHANGED <<up, epoch>>,
         NEW kind \in HostKinds \cup ConnKinds, NEW c \in Conns \cup {None},
         NEW outcome \in Outcomes, MayFollow(records, Record(kind, c)),
         AppendInternal(kind, c, outcome)
  PROVE  /\ records' \in {records, Append(records, Record(kind, c))}
         /\ outcome = "committed" => records' = Append(records, Record(kind, c))
         /\ (outcome = "committed") <=> ~failed'
         /\ failed' \in BOOLEAN /\ globalSequence' \in Nat
         /\ connectionPhases' \in [Conns -> Phases]
         /\ checkpointedConnections' \subseteq Conns
         /\ records' \in Seq(Records) /\ FileInv(records')
         /\ \A i \in 1..Len(records') : records'[i].epoch <= epoch
         /\ MemoryIsTheTable'
<1> DEFINE r == Record(kind, c)
<1>1. /\ records \in Seq(Records) /\ Len(records) \in Nat /\ r \in Records
      /\ r.kind = kind /\ r.conn = c /\ r.epoch = epoch /\ up /\ epoch \in Nat
  BY RecordFits, LedgerBounds DEF LedgerInv, TypeOK, HostInv, Record
<1>2. records' \in {records, Append(records, r)}
  BY DEF AppendInternal, Record
<1>3. /\ outcome = "committed" => records' = Append(records, r)
      /\ (outcome = "committed") <=> ~failed'
  BY DEF AppendInternal, Record
<1>4. kind = "checkpoint" => c \in Conns
  BY <1>1 DEF MayFollow, HostKinds
<1>5. c # None => kind \in ConnKinds
  BY <1>1 DEF MayFollow, Allowed, ConnKinds
<1>6. /\ failed' \in BOOLEAN /\ globalSequence' \in Nat
      /\ connectionPhases' \in [Conns -> Phases]
      /\ checkpointedConnections' \subseteq Conns
  <2>1. \A k \in ConnKinds : PhaseAfter(k) \in Phases
    BY DEF PhaseAfter, Phases, ConnKinds
  <2>2. /\ failed \in BOOLEAN /\ globalSequence \in Nat
        /\ connectionPhases \in [Conns -> Phases]
        /\ checkpointedConnections \subseteq Conns
    BY DEF LedgerInv, TypeOK
  <2>3. connectionPhases' \in [Conns -> Phases]
    BY <2>1, <2>2, <1>5 DEF AppendInternal
  <2>4. globalSequence' \in Nat /\ checkpointedConnections' \subseteq Conns
    BY <2>2, <1>4 DEF AppendInternal
  <2> QED  BY <2>2, <2>3, <2>4 DEF AppendInternal
<1>7. records' \in Seq(Records) /\ FileInv(records')
  BY <1>1, <1>2, AppendKeepsFile, AppendIsLonger DEF LedgerInv
<1>8. \A i \in 1..Len(records') : records'[i].epoch <= epoch
  <2>1. \A i \in 1..Len(records) : records[i].epoch <= epoch
    BY DEF LedgerInv, HostInv
  <2>2. CASE records' = Append(records, r)
    <3>1. \A i \in 1..Len(records') : i \in 1..Len(records) \/ records'[i] = r
      BY <2>2, <1>1, AppendIsLonger
    <3>2. \A i \in 1..Len(records) : records'[i] = records[i]
      BY <2>2, <1>1, AppendIsLonger
    <3> QED  BY <3>1, <3>2, <2>1, <1>1
  <2> QED  BY <2>1, <2>2, <1>2
<1>9. MemoryIsTheTable'
  <2> SUFFICES ASSUME ~failed'
               PROVE  /\ globalSequence' = Len(records')
                      /\ connectionPhases' =
                           [d \in Conns |-> PhaseIn(records', Len(records'), d)]
                      /\ checkpointedConnections' =
                           CheckpointedIn(records', Len(records'))
    BY DEF MemoryIsTheTable
  <2>1. /\ outcome = "committed" /\ records' = Append(records, r)
        /\ Len(records') = Len(records) + 1
    BY <1>1, <1>3, AppendIsLonger
  <2>2. /\ globalSequence = Len(records)
        /\ connectionPhases = [d \in Conns |-> PhaseIn(records, Len(records), d)]
        /\ checkpointedConnections = CheckpointedIn(records, Len(records))
    BY <1>1 DEF LedgerInv, MemoryIsTheTable
  <2>3. /\ globalSequence' = globalSequence + 1
        /\ connectionPhases' = IF c = None THEN connectionPhases
             ELSE [connectionPhases EXCEPT ![c] = PhaseAfter(kind)]
        /\ checkpointedConnections' = IF kind = "checkpoint"
             THEN checkpointedConnections \cup {c} ELSE checkpointedConnections
    BY <2>1 DEF AppendInternal
  <2>4. \A d \in Conns : PhaseIn(records', Len(records'), d) =
          IF c = d THEN PhaseAfter(kind) ELSE PhaseIn(records, Len(records), d)
    BY <2>1, <1>1, AppendMovesOne DEF Phase, LedgerInv, FileInv
  <2>5. connectionPhases' = [d \in Conns |-> PhaseIn(records', Len(records'), d)]
    BY <2>2, <2>3, <2>4, NoneIsNoConn
  <2>6. CheckpointedIn(records', Len(records) + 1) =
          IF r.kind = "checkpoint"
          THEN CheckpointedIn(records, Len(records)) \cup {r.conn}
          ELSE CheckpointedIn(records, Len(records))
    BY <2>1, <1>1, <1>4, AppendChecks
  <2> QED  BY <2>1, <2>2, <2>3, <2>5, <2>6, <1>1
<1> QED  BY <1>2, <1>3, <1>6, <1>7, <1>8, <1>9

\* What the append does to the phases and the hosts of the table.
LEMMA AppendInternalMoves ==
  ASSUME LedgerInv, active, NEW kind \in HostKinds \cup ConnKinds,
         NEW c \in Conns \cup {None}, records' = Append(records, Record(kind, c))
  PROVE  /\ \A d \in Conns : Phase(records', d) =
              IF c = d THEN PhaseAfter(kind) ELSE Phase(records, d)
         /\ \A i \in 1..Len(records') :
              \/ i \in 1..Len(records) /\ records'[i] = records[i]
              \/ records'[i] = Record(kind, c)
         /\ kind = "host.started" => Unsealed(records')
         /\ kind # "host.stopped" /\ Unsealed(records) => Unsealed(records')
         /\ kind # "host.stopped" =>
              (StoppedIn(records', epoch) <=> StoppedIn(records, epoch))
<1> DEFINE r == Record(kind, c)
<1>1. /\ records \in Seq(Records) /\ Len(records) \in Nat /\ r \in Records
      /\ r.kind = kind /\ r.conn = c /\ r.epoch = epoch
  BY RecordFits DEF LedgerInv, TypeOK, Record
<1>2. \A d \in Conns : Phase(records', d) =
        IF c = d THEN PhaseAfter(kind) ELSE Phase(records, d)
  BY <1>1, AppendMovesOne DEF LedgerInv, FileInv
<1>3. \A i \in 1..Len(records') :
        \/ i \in 1..Len(records) /\ records'[i] = records[i]
        \/ records'[i] = r
  BY <1>1, AppendIsLonger
<1>4. /\ r.kind = "host.started" => Unsealed(records')
      /\ r.kind # "host.stopped" /\ Unsealed(records) => Unsealed(records')
      /\ \A e : StoppedIn(records', e) <=>
           (StoppedIn(records, e) \/ (r.kind = "host.stopped" /\ r.epoch = e))
  BY <1>1, AppendSeals
<1> QED  BY <1>1, <1>2, <1>3, <1>4
-----------------------------------------------------------------------------
(***************************************************************************)
(* The records of the host.                                                *)
(***************************************************************************)
LEMMA StartFailsKeeps ==
  ASSUME LedgerInv, active, NEW kind \in HostKinds \cup ConnKinds,
         NEW c \in Conns \cup {None}, NEW outcome,
         MayFollow(records, Record(kind, c)), StartFails(kind, c, outcome)
  PROVE  LedgerInv'
<1> DEFINE r == Record(kind, c)
<1>1. /\ records \in Seq(Records) /\ Len(records) \in Nat /\ r \in Records
      /\ r.epoch = epoch /\ epoch \in Nat
  BY RecordFits, LedgerBounds DEF LedgerInv, TypeOK, Record
<1>2. records' \in {records, Append(records, r)}
  BY DEF StartFails, Record
<1>3. records' \in Seq(Records) /\ FileInv(records')
  BY <1>1, <1>2, AppendKeepsFile, AppendIsLonger DEF LedgerInv
<1>4. \A i \in 1..Len(records) : records[i].epoch <= epoch
  BY DEF LedgerInv, HostInv
<1>5. \A i \in 1..Len(records') : records'[i].epoch <= epoch
  <2>1. CASE records' = Append(records, r)
    BY <2>1, <1>1, <1>4, AppendInternalMoves
  <2> QED  BY <2>1, <1>2, <1>4
<1> QED  BY <1>3, <1>5, ExitKeeps DEF StartFails

\* A committed record of a start moves no session, for there is none.
LEMMA StartAppendKeeps ==
  ASSUME LedgerInv, Starting, NEW kind \in (HostKinds \cup ConnKinds) \ {"host.stopped"},
         NEW c \in Conns \cup {None}, MayFollow(records, Record(kind, c)),
         NEW next \in Jobs, next.call \in {"detect", "seal", "none"},
         StartAppend(kind, c, "committed", next),
         kind = "host.started" \/ job.call # "start",
         next.call = "none" =>
           c = None /\ \A d \in Conns : Phase(records, d) \in {"absent", "closed"}
  PROVE  LedgerInv'
<1>1. active /\ ~failed /\ up /\ "committed" \in Outcomes
  BY DEF LedgerInv, HostInv, Outcomes
<1>2. AppendInternal(kind, c, "committed") /\ job' = next
      /\ UNCHANGED <<up, epoch, active, session, fatal>>
  BY DEF StartAppend
<1>3. /\ records' = Append(records, Record(kind, c)) /\ ~failed'
      /\ failed' \in BOOLEAN /\ globalSequence' \in Nat
      /\ connectionPhases' \in [Conns -> Phases]
      /\ checkpointedConnections' \subseteq Conns
      /\ records' \in Seq(Records) /\ FileInv(records')
      /\ \A i \in 1..Len(records') : records'[i].epoch <= epoch
      /\ MemoryIsTheTable'
  BY <1>1, <1>2, AppendInternalKeeps
<1>4. /\ \A d \in Conns : Phase(records', d) =
           IF c = d THEN PhaseAfter(kind) ELSE Phase(records, d)
      /\ \A i \in 1..Len(records') :
           \/ i \in 1..Len(records) /\ records'[i] = records[i]
           \/ records'[i] = Record(kind, c)
      /\ kind = "host.started" => Unsealed(records')
      /\ kind # "host.stopped" /\ Unsealed(records) => Unsealed(records')
      /\ kind # "host.stopped" =>
           (StoppedIn(records', epoch) <=> StoppedIn(records, epoch))
  BY <1>1, <1>3, AppendInternalMoves
<1>5. TypeOK'
  BY <1>2, <1>3 DEF LedgerInv, TypeOK
<1>6. HostInv'
  BY <1>1, <1>2, <1>3, <1>4 DEF LedgerInv, HostInv, Starting
<1>7. \A d \in Conns : session[d] \in {"new", "lost"}
  BY DEF LedgerInv, SessionInv
<1>8. \A d \in Conns : SessionInv(d)'
  BY <1>2, <1>7 DEF SessionInv
<1>9. EarlierInv'
  <2> SUFFICES ASSUME next.call = "none", NEW i \in 1..Len(records'),
                      records'[i].conn # None
               PROVE  Phase(records', records'[i].conn) = "closed"
    BY <1>2 DEF EarlierInv, Starting
  <2>1. i \in 1..Len(records) /\ records'[i] = records[i]
    BY <1>4 DEF Record
  <2>2. records[i].conn \in Conns /\ Phase(records, records[i].conn) # "absent"
    <3>1. records[i] \in Records
      BY <2>1 DEF LedgerInv, TypeOK
    <3> QED  BY <3>1, <2>1 DEF LedgerInv, FileInv, Records
  <2> QED  BY <2>1, <2>2, <1>4, NoneIsNoConn
<1> QED  BY <1>2, <1>3, <1>5, <1>6, <1>8, <1>9 DEF LedgerInv

\* A record of a start, whatever becomes of it.
LEMMA StartRecordKeeps ==
  ASSUME LedgerInv, Starting, NEW kind \in (HostKinds \cup ConnKinds) \ {"host.stopped"},
         NEW c \in Conns \cup {None}, NEW outcome \in Outcomes,
         MayFollow(records, Record(kind, c)),
         NEW next \in Jobs, next.call \in {"detect", "seal", "none"},
         StartRecord(kind, c, outcome, next),
         kind = "host.started" \/ job.call # "start",
         next.call = "none" =>
           c = None /\ \A d \in Conns : Phase(records, d) \in {"absent", "closed"}
  PROVE  LedgerInv'
<1>1. active
  BY DEF LedgerInv, HostInv
<1>2. CASE outcome = "committed"
  BY <1>2, StartAppendKeeps DEF StartRecord
<1>3. CASE outcome # "committed"
  BY <1>1, <1>3, StartFailsKeeps DEF StartRecord
<1> QED  BY <1>2, <1>3

\* Nothing but its own stop forbids a host record.
LEMMA HostMayFollow ==
  ASSUME LedgerInv, active, ~failed, NEW kind \in HostKinds,
         kind = "host.stopped" =>
           \A c \in Conns : Phase(records, c) \in {"absent", "closed"}
  PROVE  MayFollow(records, Record(kind, None))
BY DEF MayFollow, Record, LedgerInv, HostInv

LEMMA HostStartedKeeps ==
  ASSUME LedgerInv, NEW outcome \in Outcomes, HostStarted(outcome)
  PROVE  LedgerInv'
<1>1. Starting /\ job.call = "start" /\ active /\ ~failed
  BY DEF HostStarted, Starting, LedgerInv, HostInv
<1>2. MayFollow(records, Record("host.started", None))
  BY <1>1, HostMayFollow DEF HostKinds
<1>3. PICK next \in Jobs :
        /\ next = IF LatestUnsealedHostEpoch(records)
                  THEN [call |-> "detect", conn |-> None] ELSE NoJob
        /\ next.call = IF LatestUnsealedHostEpoch(records) THEN "detect" ELSE "none"
  <2>1. /\ [call |-> "detect", conn |-> None] \in Jobs
        /\ [call |-> "detect", conn |-> None].call = "detect"
        /\ NoJob \in Jobs /\ NoJob.call = "none"
    BY DEF Jobs, NoJob
  <2>2. CASE LatestUnsealedHostEpoch(records)
    BY <2>1, <2>2
  <2>3. CASE ~LatestUnsealedHostEpoch(records)
    BY <2>1, <2>3
  <2> QED  BY <2>2, <2>3
<1>4. StartRecord("host.started", None, outcome, next)
  BY <1>3 DEF HostStarted
<1>5. next.call = "none" => \A d \in Conns : Phase(records, d) \in {"absent", "closed"}
  <2>1. records \in Seq(Records)
    BY DEF LedgerInv, TypeOK
  <2> QED  BY <2>1, <1>3, UnsealedIsFound DEF LedgerInv, FileInv
<1>6. "host.started" \in (HostKinds \cup ConnKinds) \ {"host.stopped"}
  BY DEF HostKinds
<1>7. next.call \in {"detect", "seal", "none"}
  BY <1>3
<1> QED  BY <1>1, <1>2, <1>4, <1>5, <1>6, <1>7, StartRecordKeeps

LEMMA HostDiscontinuityKeeps ==
  ASSUME LedgerInv, NEW outcome \in Outcomes, HostDiscontinuity(outcome)
  PROVE  LedgerInv'
<1>1. Starting /\ job.call = "detect" /\ active /\ ~failed
  BY DEF HostDiscontinuity, Starting, LedgerInv, HostInv
<1>2. MayFollow(records, Record("host.discontinuity", None))
  BY <1>1, HostMayFollow DEF HostKinds
<1>3. PICK next \in Jobs : next = [call |-> "seal", conn |-> None] /\ next.call = "seal"
  <2>1. /\ [call |-> "seal", conn |-> None] \in Jobs
        /\ [call |-> "seal", conn |-> None].call = "seal"
    BY DEF Jobs
  <2> QED  BY <2>1
<1>4. StartRecord("host.discontinuity", None, outcome, next)
  BY <1>3 DEF HostDiscontinuity
<1>5. "host.discontinuity" \in (HostKinds \cup ConnKinds) \ {"host.stopped"}
  BY DEF HostKinds
<1> QED  BY <1>1, <1>2, <1>3, <1>4, <1>5, StartRecordKeeps

\* What the ledger knows is what the table says.
LEMMA MemoryPhases ==
  ASSUME LedgerInv, up, ~failed
  PROVE  /\ \A c \in Conns : connectionPhases[c] = Phase(records, c)
         /\ checkpointedConnections = CheckpointedIn(records, Len(records))
         /\ Open = {c \in Conns : Phase(records, c) \notin {"absent", "closed"}}
BY DEF LedgerInv, MemoryIsTheTable, Phase, Open

LEMMA SealKeeps ==
  ASSUME LedgerInv, NEW c \in Conns, NEW outcome \in Outcomes, Seal(c, outcome)
  PROVE  LedgerInv'
<1>1. Starting /\ job.call = "seal" /\ active /\ ~failed /\ up
  BY DEF Seal, Starting, LedgerInv, HostInv
<1>2. /\ Phase(records, c) \in Phases \ {"absent", "closed"}
      /\ connectionPhases[c] = Phase(records, c)
  BY <1>1, MemoryPhases DEF Seal, LedgerInv, FileInv
<1>3. PICK kind \in {"quiescing", "closed"}, next \in Jobs :
        /\ StartRecord(kind, c, outcome, next) /\ next.call = "seal"
        /\ kind = IF Phase(records, c) = "ready" THEN "quiescing" ELSE "closed"
  <2>1. \A d \in Conns \cup {None} :
          [job EXCEPT !.conn = d] \in Jobs /\ [job EXCEPT !.conn = d].call = "seal"
    BY <1>1 DEF LedgerInv, TypeOK, Jobs
  <2>2. CASE connectionPhases[c] = "ready"
    BY <2>1, <2>2, <1>2 DEF Seal
  <2>3. CASE connectionPhases[c] # "ready"
    BY <2>1, <2>3, <1>2 DEF Seal
  <2> QED  BY <2>2, <2>3
<1>4. kind \in (HostKinds \cup ConnKinds) \ {"host.stopped"}
  BY DEF ConnKinds
<1>5. Unsealed(records) /\ ~StoppedIn(records, epoch)
  BY <1>1 DEF LedgerInv, HostInv
<1>6. <<Phase(records, c), kind>> \in Allowed
  BY <1>2, <1>3 DEF Allowed, Phases
<1>7. MayFollow(records, Record(kind, c))
  BY <1>5, <1>6, NoneIsNoConn DEF MayFollow, Record
<1>8. job.call # "start" /\ c \in Conns \cup {None}
      /\ next.call \in {"detect", "seal", "none"} /\ next.call # "none"
  BY <1>1, <1>3
<1> QED  BY <1>1, <1>3, <1>4, <1>7, <1>8, StartRecordKeeps

\* A start that has nothing left to close lets the host serve.
LEMMA SealedKeeps ==
  ASSUME LedgerInv, Sealed
  PROVE  LedgerInv'
<1>1. /\ Starting /\ job.call = "seal" /\ active /\ ~failed /\ up
      /\ UNCHANGED <<records, up, epoch, active, failed, globalSequence,
                     connectionPhases, checkpointedConnections, session, fatal>>
  BY DEF Sealed, Starting, LedgerInv, HostInv, ledgerVars
<1>2. job' = NoJob /\ NoJob \in Jobs /\ NoJob.call = "none"
  BY DEF Sealed, NoJob, Jobs
<1>3. \A c \in Conns : Phase(records, c) \in {"absent", "closed"}
  BY <1>1, MemoryPhases DEF Sealed
<1>4. EarlierInv'
  <2>1. \A i \in 1..Len(records) : records[i].conn # None => records[i].conn \in Conns
    <3>1. \A i \in 1..Len(records) : records[i] \in Records
      BY DEF LedgerInv, TypeOK
    <3> QED  BY <3>1 DEF Records
  <2> QED  BY <2>1, <1>1, <1>3 DEF EarlierInv, LedgerInv, FileInv
<1>5. TypeOK' /\ FileInv(records)' /\ MemoryIsTheTable'
  BY <1>1, <1>2 DEF LedgerInv, TypeOK, MemoryIsTheTable
<1>6. HostInv'
  BY <1>1, <1>2 DEF LedgerInv, HostInv, Starting
<1>7. \A c \in Conns : SessionInv(c)'
  BY <1>1 DEF LedgerInv, SessionInv
<1> QED  BY <1>2, <1>4, <1>5, <1>6, <1>7 DEF LedgerInv

LEMMA StopKeeps ==
  ASSUME LedgerInv, NEW outcome \in Outcomes, StopHostEpoch(outcome)
  PROVE  LedgerInv'
<1>1. /\ up /\ job = NoJob /\ ~failed /\ active /\ Open = {}
      /\ AppendInternal("host.stopped", None, outcome)
      /\ active' = (outcome # "committed")
      /\ UNCHANGED <<up, epoch, job, session, fatal>>
  BY DEF StopHostEpoch
<1>2. \A c \in Conns : Phase(records, c) \in {"absent", "closed"}
  BY <1>1, MemoryPhases
<1>3. MayFollow(records, Record("host.stopped", None))
  BY <1>1, <1>2, HostMayFollow DEF HostKinds
<1>4. "host.stopped" \in HostKinds \cup ConnKinds
  BY DEF HostKinds
<1>5. /\ records' \in {records, Append(records, Record("host.stopped", None))}
      /\ (outcome = "committed") <=> ~failed'
      /\ failed' \in BOOLEAN /\ globalSequence' \in Nat
      /\ connectionPhases' \in [Conns -> Phases]
      /\ checkpointedConnections' \subseteq Conns
      /\ records' \in Seq(Records) /\ FileInv(records')
      /\ \A i \in 1..Len(records') : records'[i].epoch <= epoch
      /\ MemoryIsTheTable'
  BY <1>1, <1>3, <1>4, AppendInternalKeeps
<1>6. \A c \in Conns : Phase(records', c) = Phase(records, c)
  BY <1>1, <1>4, <1>5, NoneIsNoConn, AppendInternalMoves
<1>7. TypeOK'
  BY <1>1, <1>5 DEF LedgerInv, TypeOK
<1>8. NoJob.call = "none"
  BY DEF NoJob
<1>9. HostInv' /\ EarlierInv'
  BY <1>1, <1>5, <1>8 DEF LedgerInv, HostInv, EarlierInv, Starting
<1>10. \A c \in Conns : SessionInv(c)'
  BY <1>1, <1>6 DEF LedgerInv, SessionInv, Starting
<1> QED  BY <1>1, <1>5, <1>7, <1>8, <1>9, <1>10 DEF LedgerInv

-----------------------------------------------------------------------------
(***************************************************************************)
(* The records of a session.                                               *)
(***************************************************************************)
\* Everything but what the session keeps of it.
LEMMA TryAppendKeeps ==
  ASSUME LedgerInv, ~Starting, up, NEW c \in Conns, NEW kind \in ConnKinds,
         NEW ok \in BOOLEAN, TryAppend(kind, c, ok), UNCHANGED hostVars,
         fatal' \in BOOLEAN, job' \in Jobs, job'.call \in {"none", "close"},
         session' \in [Conns -> {"new", "not_ready", "ready", "quiescing",
                                 "closed", "lost"}]
  PROVE  /\ TypeOK' /\ FileInv(records') /\ HostInv' /\ MemoryIsTheTable'
         /\ EarlierInv'
         /\ ok => /\ <<Phase(records, c), kind>> \in Allowed
                  /\ Phase(records', c) = PhaseAfter(kind)
         /\ ~ok => Phase(records', c) \in {Phase(records, c), PhaseAfter(kind)}
         /\ Phase(records', c) # Phase(records, c) => <<Phase(records, c), kind>> \in Allowed
         /\ \A d \in Conns \ {c} : Phase(records', d) = Phase(records, d)
<1>1. /\ c # None /\ kind \in HostKinds \cup ConnKinds /\ c \in Conns \cup {None}
      /\ kind \notin {"host.started", "host.stopped"}
      /\ UNCHANGED <<up, epoch, active>>
  BY NoneIsNoConn DEF ConnKinds, hostVars
<1>2. CASE UNCHANGED <<records, failed, globalSequence, connectionPhases,
                       checkpointedConnections>> /\ ~ok
  <2>1. TypeOK' /\ FileInv(records') /\ MemoryIsTheTable'
    BY <1>1, <1>2 DEF LedgerInv, TypeOK, MemoryIsTheTable
  <2>2. HostInv' /\ EarlierInv'
    BY <1>1, <1>2 DEF LedgerInv, HostInv, EarlierInv, Starting
  <2> QED  BY <1>2, <2>1, <2>2
<1>3. ASSUME NEW outcome \in Outcomes, AppendInternal(kind, c, outcome), Admits(kind, c),
             ok <=> outcome = "committed"
      PROVE  /\ TypeOK' /\ FileInv(records') /\ HostInv' /\ MemoryIsTheTable'
             /\ EarlierInv'
             /\ <<Phase(records, c), kind>> \in Allowed
             /\ ok => Phase(records', c) = PhaseAfter(kind)
             /\ Phase(records', c) \in {Phase(records, c), PhaseAfter(kind)}
             /\ \A d \in Conns \ {c} : Phase(records', d) = Phase(records, d)
  <2>1. /\ ~failed /\ active /\ <<Phase(records, c), kind>> \in Allowed
        /\ kind = "checkpoint" => c \notin CheckpointedIn(records, Len(records))
    BY <1>3, MemoryPhases DEF Admits
  <2>2. /\ job.call # "start" /\ Unsealed(records) /\ ~StoppedIn(records, epoch)
    BY <2>1 DEF LedgerInv, HostInv, Starting
  <2>3. MayFollow(records, Record(kind, c))
    BY <1>1, <2>1, <2>2 DEF MayFollow, Record
  <2>4. /\ records' \in {records, Append(records, Record(kind, c))}
        /\ outcome = "committed" => records' = Append(records, Record(kind, c))
        /\ failed' \in BOOLEAN /\ globalSequence' \in Nat
        /\ connectionPhases' \in [Conns -> Phases]
        /\ checkpointedConnections' \subseteq Conns
        /\ records' \in Seq(Records) /\ FileInv(records')
        /\ \A i \in 1..Len(records') : records'[i].epoch <= epoch
        /\ MemoryIsTheTable'
    BY <1>1, <1>3, <2>1, <2>3, AppendInternalKeeps
  <2>5. records' = Append(records, Record(kind, c)) =>
        /\ \A d \in Conns : Phase(records', d) =
             IF c = d THEN PhaseAfter(kind) ELSE Phase(records, d)
        /\ \A i \in 1..Len(records') :
             \/ i \in 1..Len(records) /\ records'[i] = records[i]
             \/ records'[i] = Record(kind, c)
        /\ Unsealed(records')
        /\ StoppedIn(records', epoch) <=> StoppedIn(records, epoch)
    BY <1>1, <2>1, <2>2, AppendInternalMoves
  <2>6. TypeOK'
    BY <1>1, <2>4 DEF LedgerInv, TypeOK
  <2>7. HostInv'
    <3>1. Unsealed(records') /\ ~StoppedIn(records', epoch)
      BY <2>2, <2>4, <2>5
    <3> QED  BY <3>1, <1>1, <2>4 DEF LedgerInv, HostInv, Starting
  <2>8. EarlierInv'
    <3> SUFFICES ASSUME NEW i \in 1..Len(records'), records'[i].conn # None,
                        records'[i].epoch # epoch
                 PROVE  Phase(records', records'[i].conn) = "closed"
      BY <1>1 DEF EarlierInv
    <3>1. i \in 1..Len(records) /\ records'[i] = records[i]
      BY <2>4, <2>5 DEF Record
    <3>2. Phase(records, records[i].conn) = "closed"
      BY <3>1, <2>1 DEF LedgerInv, EarlierInv
    <3>3. records[i].conn # c
      BY <3>2, <2>1 DEF Allowed
    <3>4. records[i].conn \in Conns
      <4>1. records[i] \in Records
        BY <3>1 DEF LedgerInv, TypeOK
      <4> QED  BY <4>1, <3>1 DEF Records
    <3> QED  BY <3>1, <3>2, <3>3, <3>4, <2>4, <2>5
  <2> QED  BY <1>3, <2>1, <2>4, <2>5, <2>6, <2>7, <2>8
<1>4. CASE Admits(kind, c) /\ ok /\ AppendInternal(kind, c, "committed")
  BY <1>4, <1>3 DEF Outcomes
<1>5. CASE /\ Admits(kind, c) /\ ~ok
           /\ \E outcome \in Outcomes \ {"committed"} : AppendInternal(kind, c, outcome)
  BY <1>5, <1>3
<1> QED  BY <1>2, <1>4, <1>5 DEF TryAppend

\* The sessions of the other connections do not notice.
LEMMA OthersKeep ==
  ASSUME LedgerInv, NEW c \in Conns, NEW d \in Conns \ {c},
         Phase(records', d) = Phase(records, d), UNCHANGED up,
         session'[d] = session[d], fatal => fatal', job'.call \in {"none", "close"},
         job = NoJob \/ job.conn = c
  PROVE  SessionInv(d)'
<1>1. job # [call |-> "close", conn |-> d]
  BY DEF NoJob
<1> QED  BY <1>1 DEF LedgerInv, SessionInv, Starting

\* While the host serves, a session and its connection are in one phase.
LEMMA ServingSessions ==
  ASSUME LedgerInv, Serving
  PROVE  /\ up /\ ~Starting /\ job.call = "none" /\ job \in Jobs
         /\ \A c \in Conns : session[c] \notin {"new", "lost"} =>
              Phase(records, c) = session[c] \/ (fatal /\ session[c] # "ready")
BY DEF LedgerInv, TypeOK, SessionInv, Serving, Starting, NoJob

SessionPhases == {"new", "not_ready", "ready", "quiescing", "closed", "lost"}

\* What every action of a session on connection c leaves alone.
Appending(c, ok) ==
  /\ up /\ ~Starting /\ UNCHANGED hostVars
  /\ fatal' = (fatal \/ ~ok)
  /\ job' \in Jobs /\ job'.call \in {"none", "close"}
  /\ job = NoJob \/ job.conn = c

LEMMA SessionActionKeeps ==
  ASSUME LedgerInv, NEW c \in Conns, NEW kind \in ConnKinds, NEW ok \in BOOLEAN,
         TryAppend(kind, c, ok), NEW phase \in SessionPhases,
         session' = [session EXCEPT ![c] = phase], Appending(c, ok),
         job'.call = "close" => job'.conn = c /\ phase = "closed",
         SessionInv(c)'
  PROVE  LedgerInv'
<1>1. fatal' \in BOOLEAN
  BY DEF LedgerInv, TypeOK, Appending
<1>2. session' \in [Conns -> {"new", "not_ready", "ready", "quiescing",
                              "closed", "lost"}]
  BY DEF LedgerInv, TypeOK, SessionPhases
<1>3. /\ TypeOK' /\ FileInv(records') /\ HostInv' /\ MemoryIsTheTable'
      /\ EarlierInv'
      /\ \A d \in Conns \ {c} : Phase(records', d) = Phase(records, d)
  BY <1>1, <1>2, TryAppendKeeps DEF Appending
<1>4. session'[c] = phase /\ \A d \in Conns \ {c} : session'[d] = session[d]
  BY DEF LedgerInv, TypeOK
<1>5. \A d \in Conns \ {c} : SessionInv(d)'
  BY <1>3, <1>4, OthersKeep DEF hostVars, Appending
<1> QED  BY <1>3, <1>4, <1>5 DEF LedgerInv, Appending

\* The phase of the session's own connection after its append.
LEMMA OwnPhase ==
  ASSUME LedgerInv, NEW c \in Conns, NEW kind \in ConnKinds, NEW ok \in BOOLEAN,
         TryAppend(kind, c, ok), NEW phase \in SessionPhases,
         session' = [session EXCEPT ![c] = phase], Appending(c, ok)
  PROVE  /\ session'[c] = phase /\ up' /\ ~Starting'
         /\ ok => Phase(records', c) = PhaseAfter(kind)
         /\ ok => <<Phase(records, c), kind>> \in Allowed
         /\ ~ok => Phase(records', c) \in {Phase(records, c), PhaseAfter(kind)}
<1>1. fatal' \in BOOLEAN
  BY DEF LedgerInv, TypeOK, Appending
<1>2. session' \in [Conns -> {"new", "not_ready", "ready", "quiescing",
                              "closed", "lost"}]
  BY DEF LedgerInv, TypeOK, SessionPhases
<1>3. session'[c] = phase /\ up' /\ ~Starting'
  BY DEF LedgerInv, TypeOK, hostVars, Starting, Appending
<1> QED  BY <1>1, <1>2, <1>3, TryAppendKeeps DEF Appending

LEMMA SessionsKeep ==
  ASSUME LedgerInv, Sessions
  PROVE  LedgerInv'
<1>7. /\ \A k \in {"not_ready", "ready", "quiescing", "closed"} :
           k \in ConnKinds /\ PhaseAfter(k) = k
      /\ "checkpoint" \in ConnKinds /\ PhaseAfter("checkpoint") = "ready"
      /\ {"ready", "quiescing", "closed"} \subseteq SessionPhases
  BY DEF ConnKinds, PhaseAfter, SessionPhases
<1>0. PICK ok \in BOOLEAN :
      \/ CloseRest(ok)
      \/ \E c \in Conns :
           \/ StartNotReady(c, ok) \/ CommitReady(c, ok) \/ Checkpoint(c, ok)
           \/ Quiesce(c, ok) \/ Close(c, ok)
  BY DEF Sessions
<1>1. ASSUME NEW c \in Conns, StartNotReady(c, ok)
      PROVE  LedgerInv'
  <2>0. PICK phase : phase = IF ok THEN "not_ready" ELSE "new"
    OBVIOUS
  <2>1. /\ Appending(c, ok) /\ TryAppend("not_ready", c, ok) /\ job'.call # "close"
    BY <1>1, ServingSessions DEF StartNotReady, Serving, Appending
  <2>2. /\ session' = [session EXCEPT ![c] = phase]
        /\ phase \in SessionPhases
    BY <1>1, <2>0 DEF StartNotReady, LedgerInv, TypeOK, SessionPhases
  <2>3. SessionInv(c)'
    <3>1. "not_ready" \in ConnKinds /\ PhaseAfter("not_ready") = "not_ready"
      BY <1>7
    <3>2. /\ session'[c] = phase /\ up' /\ ~Starting'
          /\ ok => Phase(records', c) = PhaseAfter("not_ready")
      BY <2>1, <2>2, <3>1, OwnPhase
    <3> QED  BY <2>0, <2>1, <2>2, <3>1, <3>2 DEF SessionInv, Appending
  <2> QED  BY <2>1, <2>2, <2>3, <1>7, SessionActionKeeps
<1>2. ASSUME NEW c \in Conns, CommitReady(c, ok)
      PROVE  LedgerInv'
  <2>0. PICK phase : phase = IF ok THEN "ready" ELSE "closed"
    OBVIOUS
  <2>1. /\ Appending(c, ok) /\ TryAppend("ready", c, ok) /\ job'.call # "close"
    BY <1>2, ServingSessions DEF CommitReady, Serving, Appending
  <2>2. /\ session' = [session EXCEPT ![c] = phase]
        /\ phase \in SessionPhases
    BY <1>2, <2>0 DEF CommitReady, SessionPhases
  <2>3. SessionInv(c)'
    <3>1. "ready" \in ConnKinds /\ PhaseAfter("ready") = "ready"
      BY <1>7
    <3>2. /\ session'[c] = phase /\ up' /\ ~Starting'
          /\ ok => Phase(records', c) = PhaseAfter("ready")
      BY <2>1, <2>2, <3>1, OwnPhase
    <3>3. ok \/ (fatal' /\ phase = "closed")
      BY <2>0, <2>1 DEF Appending
    <3> QED  BY <2>0, <3>1, <3>2, <3>3 DEF SessionInv
  <2> QED  BY <2>1, <2>2, <2>3, <1>7, SessionActionKeeps
<1>3. ASSUME NEW c \in Conns, Checkpoint(c, ok)
      PROVE  LedgerInv'
  <2>1. /\ Appending(c, ok) /\ TryAppend("checkpoint", c, ok) /\ job'.call # "close"
    BY <1>3, ServingSessions DEF Checkpoint, Serving, Appending
  <2>2. /\ session' = [session EXCEPT ![c] = "ready"] /\ session[c] = "ready"
        /\ Phase(records, c) = "ready"
    BY <1>3, ServingSessions DEF Checkpoint, LedgerInv, TypeOK
  <2>3. SessionInv(c)'
    <3>1. /\ session'[c] = "ready" /\ up' /\ ~Starting'
          /\ ok => Phase(records', c) = PhaseAfter("checkpoint")
          /\ ~ok => Phase(records', c) \in {Phase(records, c), PhaseAfter("checkpoint")}
      BY <2>1, <2>2, <1>7, OwnPhase
    <3> QED  BY <2>1, <2>2, <3>1, <1>7 DEF SessionInv
  <2> QED  BY <2>1, <2>2, <2>3, <1>7, SessionActionKeeps
<1>4. ASSUME NEW c \in Conns, Quiesce(c, ok)
      PROVE  LedgerInv'
  <2>1. /\ Appending(c, ok) /\ TryAppend("quiescing", c, ok) /\ job'.call # "close"
    BY <1>4, ServingSessions DEF Quiesce, Serving, Appending
  <2>2. session' = [session EXCEPT ![c] = "quiescing"]
    BY <1>4 DEF Quiesce
  <2>3. SessionInv(c)'
    <3>1. "quiescing" \in ConnKinds /\ PhaseAfter("quiescing") = "quiescing"
      BY <1>7
    <3>2. /\ session'[c] = "quiescing" /\ up' /\ ~Starting'
          /\ ok => Phase(records', c) = PhaseAfter("quiescing")
      BY <1>7, <2>1, <2>2, <3>1, OwnPhase
    <3> QED  BY <2>1, <2>2, <3>1, <3>2 DEF SessionInv, Appending
  <2> QED  BY <2>1, <2>2, <2>3, <1>7, SessionActionKeeps
<1>5. ASSUME NEW c \in Conns, Close(c, ok)
      PROVE  LedgerInv'
  <2>0. PICK kind : kind = IF session[c] = "ready" THEN "quiescing" ELSE "closed"
    OBVIOUS
  <2>1. /\ up /\ ~Starting /\ job = NoJob /\ TryAppend(kind, c, ok)
        /\ UNCHANGED hostVars /\ fatal' = (fatal \/ ~ok)
        /\ job.call = "none" /\ job \in Jobs
    BY <1>5, <2>0, ServingSessions DEF Close, Serving
  <2>2. Appending(c, ok) /\ (job'.call = "close" => job'.conn = c)
    <3>1. /\ [call |-> "close", conn |-> c] \in Jobs
          /\ [call |-> "close", conn |-> c].conn = c
          /\ [call |-> "close", conn |-> c].call = "close"
      BY DEF Jobs
    <3> QED  BY <1>5, <2>1, <3>1 DEF Close, Appending
  <2>3. /\ session' = [session EXCEPT ![c] = "closed"]
        /\ kind \in ConnKinds /\ PhaseAfter(kind) = kind
    BY <1>5, <1>7, <2>0 DEF Close
  <2>4. SessionInv(c)'
    <3>1. /\ session'[c] = "closed" /\ up' /\ ~Starting'
          /\ ok => Phase(records', c) = PhaseAfter(kind)
      BY <1>7, <2>1, <2>2, <2>3, OwnPhase
    <3>2. ok /\ session[c] = "ready" => job' = [call |-> "close", conn |-> c]
      BY <1>5 DEF Close
    <3> QED  BY <2>0, <2>1, <2>3, <3>1, <3>2 DEF SessionInv
  <2> QED  BY <2>1, <2>2, <2>3, <2>4, <1>7, SessionActionKeeps
<1>6. ASSUME CloseRest(ok)
      PROVE  LedgerInv'
  <2> PICK c : c = job.conn
    OBVIOUS
  <2>1. c \in Conns /\ session[c] = "closed" /\ TryAppend("closed", c, ok)
    BY <1>6 DEF CloseRest, LedgerInv
  <2>2. Appending(c, ok) /\ job'.call = "none"
    BY <1>6 DEF CloseRest, LedgerInv, HostInv, Starting, Appending, NoJob, Jobs
  <2>3. session' = [session EXCEPT ![c] = "closed"]
    BY <1>6, <2>1 DEF CloseRest, LedgerInv, TypeOK
  <2>4. SessionInv(c)'
    <3>1. "closed" \in ConnKinds /\ PhaseAfter("closed") = "closed"
      BY <1>7
    <3>2. /\ session'[c] = "closed" /\ up' /\ ~Starting'
          /\ ok => Phase(records', c) = PhaseAfter("closed")
      BY <1>7, <2>1, <2>2, <2>3, <3>1, OwnPhase
    <3> QED  BY <2>2, <3>1, <3>2 DEF SessionInv, Appending
  <2> QED  BY <2>1, <2>2, <2>3, <2>4, <1>7, SessionActionKeeps
<1> QED  BY <1>0, <1>1, <1>2, <1>3, <1>4, <1>5, <1>6
-----------------------------------------------------------------------------
(***************************************************************************)
(* The theorems.                                                           *)
(***************************************************************************)
LEMMA StepsKeep ==
  ASSUME LedgerInv, [Next]_vars
  PROVE  LedgerInv'
<1>1. CASE Mount
  BY <1>1, MountKeeps
<1>2. CASE Crash
  BY <1>2, ExitKeeps DEF Crash, LedgerInv, TypeOK, HostInv
<1>3. CASE Sealed
  BY <1>3, SealedKeeps
<1>4. ASSUME NEW outcome \in Outcomes,
             \/ HostStarted(outcome) \/ HostDiscontinuity(outcome)
             \/ StopHostEpoch(outcome)
             \/ \E c \in Conns : Seal(c, outcome)
      PROVE  LedgerInv'
  BY <1>4, HostStartedKeeps, HostDiscontinuityKeeps, StopKeeps, SealKeeps
<1>5. CASE Sessions
  BY <1>5, SessionsKeep
<1>6. CASE UNCHANGED vars
  BY <1>6 DEF vars, ledgerVars, LedgerInv, TypeOK, HostInv, Starting,
              MemoryIsTheTable, SessionInv, EarlierInv
<1> QED  BY <1>1, <1>2, <1>3, <1>4, <1>5, <1>6 DEF Next, Host

\* The table, the ledger's maps and the sessions fit together, and the table
\* fits every start that may follow.
THEOREM LedgerInvariant == Spec => []LedgerInv
<1>1. Init => LedgerInv
  BY InitEstablishes
<1>2. LedgerInv /\ [Next]_vars => LedgerInv'
  BY StepsKeep
<1> QED  BY <1>1, <1>2, PTL DEF Spec

\* Wherever the process died, and whatever became of its last commit, the next
\* start accepts the table it left, and every stop in it was clean.
THEOREM EveryTableVerifies == Spec => []HistoryVerifies
<1>1. LedgerInv => HistoryVerifies
  BY DEF LedgerInv, FileInv, HistoryVerifies, StopsAreClean, StopsClean
<1> QED  BY <1>1, LedgerInvariant, PTL

\* The ledger's maps, the table and the live sessions agree between two calls.
THEOREM SessionsAreAudited == Spec => []AuditMatchesSessions
<1>1. LedgerInv => AuditMatchesSessions
  BY ServingSessions DEF LedgerInv, AuditMatchesSessions, Phase
<1> QED  BY <1>1, LedgerInvariant, PTL

\* Once a host serves, no connection of an earlier host is still open in the
\* audit, however many starts before it were cut short.
THEOREM EarlierHostsAreSealed == Spec => []EarlierConnectionsAreClosed
<1>1. LedgerInv => EarlierConnectionsAreClosed
  BY ServingSessions DEF LedgerInv, EarlierInv, EarlierConnectionsAreClosed, Phase
<1> QED  BY <1>1, LedgerInvariant, PTL

------------------------------------------------------------------------------
(* The monitor of a connection's authority.                                *)

MonitorStates ==
  [phase : {"new", "preparing", "prepared", "active", "invalidated", "closed"},
   gen : Nat, expiresAt : Nat, confirmedAt : Int, poll : Int, stale : Int, staleOf : Int,
   subscribed : BOOLEAN, target : BOOLEAN, told : Nat]

MonitorTypes ==
  /\ now \in Nat
  /\ cred \in [gen : Nat \ {0}, revoked : BOOLEAN, expiresAt : Nat, updatedAt : Nat]
  /\ available \in BOOLEAN
  /\ queue \in Seq({"rotate", "revoke", "expire"})
  /\ op \in [kind : {"none", "rotate", "revoke", "expire", "close"},
             pc : {"idle", "write", "publish", "deliver", "answer"},
             to : Nat, listening : BOOLEAN]
  /\ answered \in Nat
  /\ m \in MonitorStates
  /\ reads \subseteq [at : Nat, read : BOOLEAN, gen : Nat]

Live(s) == s.phase \in {"preparing", "prepared", "active"}

(* A live session is subscribed, holds a generation that was in force, and *)
(* was not confirmed after that generation was replaced; no retired        *)
(* generation it could hold was answered to the owner.                     *)
WatchInv(s) ==
  /\ s.phase = "new" => s.expiresAt = 0 /\ s.confirmedAt = -1
  /\ Live(s) =>
       /\ s.gen \in 1 .. cred.gen /\ s.subscribed
       /\ s.confirmedAt <= now
       /\ s.gen # cred.gen => s.confirmedAt <= cred.updatedAt
       /\ answered <= s.gen

(* A revalidation reads what is in the row: a generation that is no longer *)
(* there was read, and asked for, before it was replaced.                  *)
ReadInv(r) ==
  /\ r.at <= now
  /\ r.read => /\ r.gen <= cred.gen
               /\ r.gen # 0 /\ r.gen # cred.gen => r.at <= cred.updatedAt

(* The operation of the owner that runs: what it publishes is the row, and *)
(* once it published, a live session hears it or holds the new generation. *)
Retiring == op.kind \in {"rotate", "revoke", "close"}
OperationInv ==
  /\ op.pc \in {"publish", "deliver", "answer"} =>
       /\ op.kind = "rotate" => op.to = cred.gen
       /\ op.kind = "revoke" => op.to = 0 /\ cred.revoked
       /\ op.kind = "close" => op.to = 0 /\ ~available
  /\ op.pc = "deliver" /\ Retiring /\ Live(m) => op.listening \/ m.gen = op.to
  /\ op.pc = "answer" /\ Retiring /\ Live(m) => op.kind = "rotate" /\ m.gen = op.to
  /\ op.kind = "close" => op.pc \in {"publish", "deliver", "answer"}
  /\ available /\ ~cred.revoked => answered <= cred.gen

MonitorInv ==
  /\ MonitorTypes
  /\ cred.updatedAt <= now
  /\ WatchInv(m)
  /\ \A r \in reads : ReadInv(r)
  /\ OperationInv

USE DEF Live, Retiring

LEMMA MonitorStarts ==
  ASSUME Monitor!MonitorAssumption, Monitor!Init
  PROVE  MonitorInv
<1>1. MonitorTypes
  BY DEF Monitor!MonitorAssumption, Monitor!Init, Monitor!NoOp, Monitor!Never, MonitorTypes,
         MonitorStates
<1>2. WatchInv(m) /\ OperationInv /\ reads = {} /\ cred.updatedAt <= now
  BY DEF Monitor!Init, Monitor!NoOp, Monitor!Never, WatchInv, OperationInv
<1> QED  BY <1>1, <1>2 DEF MonitorInv

(* What the session's own operations keep, for the row and the clock as    *)
(* they are.                                                               *)
Session(s) ==
  /\ s \in MonitorStates
  /\ WatchInv(s)
  /\ op.pc = "deliver" /\ Retiring /\ Live(s) => op.listening \/ s.gen = op.to
  /\ op.pc = "answer" /\ Retiring /\ Live(s) => op.kind = "rotate" /\ s.gen = op.to

LEMMA InvalidateKeeps ==
  ASSUME NEW s, Session(s)
  PROVE  Session(Monitor!Invalidate(s)) /\ ~Live(Monitor!Invalidate(s))
<1>1. CASE Monitor!Terminal(s)
  BY <1>1 DEF Monitor!Invalidate, Monitor!Terminal
<1>2. CASE ~Monitor!Terminal(s)
  <2> DEFINE u == [[[s EXCEPT !.poll = -1] EXCEPT !.stale = -1] EXCEPT !.subscribed = FALSE]
             n == IF s.target THEN s.told + 1 ELSE s.told
  <2>1. u \in MonitorStates /\ u.told = s.told
    <3>1. [s EXCEPT !.poll = -1] \in MonitorStates
      BY DEF Session, MonitorStates
    <3>2. [[s EXCEPT !.poll = -1] EXCEPT !.stale = -1] \in MonitorStates
      BY <3>1 DEF MonitorStates
    <3>3. u \in MonitorStates
      BY <3>2 DEF MonitorStates
    <3> QED  BY <3>3 DEF Session, MonitorStates
  <2>2. Monitor!Invalidate(s) \in MonitorStates
    <3>1. n \in Nat
      BY DEF Session, MonitorStates
    <3>2. [[u EXCEPT !.phase = "invalidated"] EXCEPT !.told = n] \in MonitorStates
      <4>1. [u EXCEPT !.phase = "invalidated"] \in MonitorStates
        BY <2>1 DEF MonitorStates
      <4> QED  BY <3>1, <4>1 DEF MonitorStates
    <3>3. Monitor!Invalidate(s) = [[u EXCEPT !.phase = "invalidated"] EXCEPT !.told = n]
      BY <1>2, <2>1 DEF Monitor!Invalidate, Monitor!Cleanup, Monitor!Never, Session, MonitorStates
    <3> QED  BY <3>2, <3>3
  <2>3. Monitor!Invalidate(s).phase = "invalidated"
    BY <1>2, <2>1 DEF Monitor!Invalidate, Monitor!Cleanup, Monitor!Never, Session, MonitorStates
  <2> QED  BY <2>2, <2>3 DEF Session, WatchInv
<1> QED  BY <1>1, <1>2

LEMMA ConfirmKeeps ==
  ASSUME Monitor!MonitorAssumption, NEW s, Session(s), NEW t \in Nat, t <= now,
         s.gen # cred.gen => t <= cred.updatedAt, s.phase # "new"
  PROVE  Session(Monitor!Confirm(s, t))
<1>1. CASE Monitor!Terminal(s) \/ t <= s.confirmedAt
  BY <1>1 DEF Monitor!Confirm
<1>2. CASE ~(Monitor!Terminal(s) \/ t <= s.confirmedAt)
  <2>1. Monitor!Confirm(s, t) =
          [s EXCEPT !.confirmedAt = t, !.poll = t + Interval, !.stale = t + MaxStale,
                    !.staleOf = t]
    BY <1>2 DEF Monitor!Confirm, Monitor!ScheduleStale, Session
  <2>2. Monitor!Confirm(s, t) \in MonitorStates
    <3>1. [s EXCEPT !.confirmedAt = t] \in MonitorStates
      BY DEF Session, MonitorStates
    <3>2. t + Interval \in Int /\ t + MaxStale \in Int
      BY DEF Monitor!MonitorAssumption
    <3>3. [[s EXCEPT !.confirmedAt = t] EXCEPT !.poll = t + Interval] \in MonitorStates
      BY <3>1, <3>2 DEF MonitorStates
    <3>4. [[[s EXCEPT !.confirmedAt = t] EXCEPT !.poll = t + Interval]
             EXCEPT !.stale = t + MaxStale] \in MonitorStates
      BY <3>2, <3>3 DEF MonitorStates
    <3> QED  BY <2>1, <3>4 DEF MonitorStates
  <2>3. /\ Monitor!Confirm(s, t).phase = s.phase /\ Monitor!Confirm(s, t).gen = s.gen
        /\ Monitor!Confirm(s, t).subscribed = s.subscribed
        /\ Monitor!Confirm(s, t).confirmedAt = t
    BY <2>1 DEF Session, MonitorStates
  <2> QED  BY <2>2, <2>3 DEF Session, WatchInv
<1> QED  BY <1>1, <1>2

LEMMA ObserveKeeps ==
  ASSUME Monitor!MonitorAssumption, MonitorInv, NEW r \in reads, r.read
  PROVE  Session(Monitor!Prepared(Monitor!Observe(m, r.gen, r.at)))
<1>1. Session(m) /\ r \in [at : Nat, read : BOOLEAN, gen : Nat] /\ ReadInv(r)
  BY DEF MonitorInv, MonitorTypes, Session, OperationInv
<1>2. Session(Monitor!Observe(m, r.gen, r.at))
  <2>1. CASE Monitor!Terminal(m)
    BY <1>1, <2>1 DEF Monitor!Observe
  <2>2. CASE ~Monitor!Terminal(m) /\ ~Monitor!Matches(m, r.gen, r.at)
    BY <1>1, <2>2, InvalidateKeeps DEF Monitor!Observe
  <2>3. CASE ~Monitor!Terminal(m) /\ Monitor!Matches(m, r.gen, r.at)
    <3>1. m.phase # "new" /\ r.gen = m.gen /\ Live(m)
      <4>1. m.expiresAt > r.at /\ r.at \in Nat /\ r.gen = m.gen
        BY <1>1, <2>3 DEF Monitor!Matches
      <4>2. m.phase # "new"
        BY <1>1, <4>1 DEF Session, WatchInv
      <4>3. m.phase \in {"new", "preparing", "prepared", "active", "invalidated", "closed"}
        BY <1>1 DEF Session, MonitorStates
      <4> QED  BY <2>3, <4>1, <4>2, <4>3 DEF Monitor!Terminal
    <3>2. m.gen # cred.gen => r.at <= cred.updatedAt
      BY <1>1, <3>1 DEF ReadInv, Session, WatchInv
    <3> QED  BY <1>1, <2>3, <3>1, <3>2, ConfirmKeeps DEF Monitor!Observe, ReadInv
  <2> QED  BY <2>1, <2>2, <2>3
<1>3. ASSUME NEW s, Session(s), s.phase = "preparing"
      PROVE  Session([s EXCEPT !.phase = "prepared"])
  <2>1. [s EXCEPT !.phase = "prepared"] \in MonitorStates
    BY <1>3 DEF Session, MonitorStates
  <2>2. /\ [s EXCEPT !.phase = "prepared"].phase = "prepared"
        /\ [s EXCEPT !.phase = "prepared"].gen = s.gen
        /\ [s EXCEPT !.phase = "prepared"].subscribed = s.subscribed
        /\ [s EXCEPT !.phase = "prepared"].confirmedAt = s.confirmedAt
    BY <1>3 DEF Session, MonitorStates
  <2> QED  BY <1>3, <2>1, <2>2 DEF Session, WatchInv
<1> QED  BY <1>2, <1>3 DEF Monitor!Prepared

LEMMA SessionSuffices ==
  ASSUME MonitorInv, Session(m'),
         UNCHANGED <<now, cred, available, queue, op, answered>>,
         reads' \subseteq [at : Nat, read : BOOLEAN, gen : Nat],
         \A r \in reads' : ReadInv(r)
  PROVE  MonitorInv'
<1>1. MonitorTypes'
  BY DEF MonitorInv, MonitorTypes, Session
<1>2. WatchInv(m)' /\ OperationInv'
  BY DEF MonitorInv, OperationInv, Session, WatchInv
<1>3. (\A r \in reads : ReadInv(r))'
  BY DEF ReadInv
<1> QED  BY <1>1, <1>2, <1>3 DEF MonitorInv

\* Its revalidations: one that is asked for now says nothing yet.
LEMMA PendingKeeps ==
  ASSUME MonitorInv
  PROVE  /\ Monitor!Pending(now) \in [at : Nat, read : BOOLEAN, gen : Nat]
         /\ ReadInv(Monitor!Pending(now))
         /\ reads \subseteq [at : Nat, read : BOOLEAN, gen : Nat]
         /\ \A r \in reads : ReadInv(r)
         /\ Session(m)
  BY DEF MonitorInv, MonitorTypes, Monitor!Pending, ReadInv, OperationInv, Session

LEMMA PrepareKeeps ==
  ASSUME Monitor!MonitorAssumption, MonitorInv, Monitor!Prepare
  PROVE  MonitorInv'
<1>1. /\ cred.gen \in Nat \ {0} /\ cred.expiresAt \in Nat /\ ~cred.revoked /\ now \in Nat
      /\ Monitor!Effective = cred.gen /\ available /\ answered <= cred.gen
      /\ m.phase = "new" /\ m.confirmedAt = -1 /\ m \in MonitorStates
  BY DEF Monitor!Prepare, Monitor!Effective, MonitorInv, MonitorTypes, OperationInv, WatchInv
<1> DEFINE u == [[[[m EXCEPT !.phase = "preparing"] EXCEPT !.gen = cred.gen]
                    EXCEPT !.expiresAt = cred.expiresAt] EXCEPT !.subscribed = TRUE]
<1>2. u \in MonitorStates
  <2>1. [m EXCEPT !.phase = "preparing"] \in MonitorStates
    BY <1>1 DEF MonitorStates
  <2>2. [[m EXCEPT !.phase = "preparing"] EXCEPT !.gen = cred.gen] \in MonitorStates
    BY <1>1, <2>1 DEF MonitorStates
  <2>3. [[[m EXCEPT !.phase = "preparing"] EXCEPT !.gen = cred.gen]
           EXCEPT !.expiresAt = cred.expiresAt] \in MonitorStates
    BY <1>1, <2>2 DEF MonitorStates
  <2> QED  BY <2>3 DEF MonitorStates
<1>3. m' = [[u EXCEPT !.stale = now + MaxStale] EXCEPT !.staleOf = now]
  BY <1>1 DEF Monitor!Prepare, Monitor!ScheduleStale
<1>4. m' \in MonitorStates
  <2>1. now + MaxStale \in Int
    BY <1>1 DEF Monitor!MonitorAssumption
  <2> DEFINE w == [u EXCEPT !.stale = now + MaxStale]
  <2>2. w \in MonitorStates
    BY <1>2, <2>1 DEF MonitorStates
  <2>3. m' = [w EXCEPT !.staleOf = now] /\ now \in Int
    BY <1>1, <1>3
  <2> HIDE DEF w
  <2> QED  BY <2>2, <2>3 DEF MonitorStates
<1>5. m'.phase = "preparing" /\ m'.gen = cred.gen /\ m'.subscribed /\ m'.confirmedAt = -1
  BY <1>1, <1>3 DEF MonitorStates
<1>6. Session(m')
  <2>1. op.pc \in {"deliver", "answer"} /\ Retiring => op.kind = "rotate" /\ op.to = cred.gen
    BY <1>1 DEF MonitorInv, OperationInv
  <2> QED  BY <1>1, <1>4, <1>5, <2>1 DEF Session, WatchInv
<1>7. UNCHANGED <<now, cred, available, queue, op, answered>> /\ reads' = {Monitor!Pending(now)}
  BY DEF Monitor!Prepare
<1> QED  BY <1>6, <1>7, PendingKeeps, SessionSuffices

LEMMA ReadsKeep ==
  ASSUME Monitor!MonitorAssumption, MonitorInv,
         Monitor!ResolveReads \/ Monitor!ResolveAnswers \/ Monitor!ResolveFails
  PROVE  MonitorInv'
<1>1. UNCHANGED <<now, cred, available, queue, op, answered>>
  BY DEF Monitor!ResolveReads, Monitor!ResolveAnswers, Monitor!ResolveFails
<1>2. CASE Monitor!ResolveReads
  <2>1. PICK r \in reads :
          reads' = (reads \ {r}) \cup {[r EXCEPT !.read = TRUE, !.gen = Monitor!Effective]}
    BY <1>2 DEF Monitor!ResolveReads
  <2>2. r \in [at : Nat, read : BOOLEAN, gen : Nat] /\ ReadInv(r) /\ m' = m
    BY <1>2, PendingKeeps DEF Monitor!ResolveReads
  <2>3. Monitor!Effective \in Nat /\ Monitor!Effective \in {0, cred.gen} /\ cred.gen \in Nat
    BY DEF Monitor!Effective, MonitorInv, MonitorTypes
  <2>4. PICK x : x = [r EXCEPT !.read = TRUE, !.gen = Monitor!Effective]
    OBVIOUS
  <2>5. x = [at |-> r.at, read |-> TRUE, gen |-> Monitor!Effective]
    BY <2>2, <2>4
  <2>6. x \in [at : Nat, read : BOOLEAN, gen : Nat] /\ ReadInv(x)
    BY <2>2, <2>3, <2>5 DEF ReadInv
  <2> QED  BY <1>1, <2>1, <2>2, <2>4, <2>6, PendingKeeps, SessionSuffices
<1>3. CASE Monitor!ResolveAnswers
  <2>1. PICK r \in reads :
          /\ r.read /\ reads' = reads \ {r}
          /\ m' = IF available THEN Monitor!Prepared(Monitor!Observe(m, r.gen, r.at))
                               ELSE Monitor!Invalidate(m)
    BY <1>3 DEF Monitor!ResolveAnswers
  <2>2. Session(m')
    BY <2>1, ObserveKeeps, InvalidateKeeps, PendingKeeps
  <2> QED  BY <1>1, <2>1, <2>2, PendingKeeps, SessionSuffices
<1>4. CASE Monitor!ResolveFails
  <2>1. reads' \subseteq reads /\ Session(m')
    BY <1>4, InvalidateKeeps, PendingKeeps DEF Monitor!ResolveFails
  <2> QED  BY <1>1, <2>1, PendingKeeps, SessionSuffices
<1> QED  BY <1>2, <1>3, <1>4

\* Activation, the end of the lease, and the session's two timers.
LEMMA TimersKeep ==
  ASSUME MonitorInv,
         Monitor!Activate \/ Monitor!Close \/ Monitor!PollFires \/ Monitor!StaleFires
  PROVE  MonitorInv'
<1>1. UNCHANGED <<now, cred, available, queue, op, answered>>
  BY DEF Monitor!Activate, Monitor!Close, Monitor!PollFires, Monitor!StaleFires
<1>2. m \in MonitorStates /\ Session(m)
  BY PendingKeeps DEF Session
<1>3. CASE Monitor!Activate
  <2>1. CASE Monitor!IsCurrent
    <3>1. m' = [[m EXCEPT !.phase = "active"] EXCEPT !.target = TRUE] /\ m.phase = "prepared"
      BY <1>3, <2>1 DEF Monitor!Activate
    <3>2. [m EXCEPT !.phase = "active"] \in MonitorStates
      BY <1>2 DEF MonitorStates
    <3>3. m' \in MonitorStates
      BY <3>1, <3>2 DEF MonitorStates
    <3>4. /\ m'.phase = "active" /\ m'.gen = m.gen /\ m'.subscribed = m.subscribed
          /\ m'.confirmedAt = m.confirmedAt
      BY <1>2, <3>1 DEF MonitorStates
    <3>5. Session(m')
      BY <1>2, <3>1, <3>3, <3>4 DEF Session, WatchInv
    <3> QED  BY <1>1, <1>3, <3>5, PendingKeeps, SessionSuffices DEF Monitor!Activate
  <2>2. CASE ~Monitor!IsCurrent
    <3>1. Session(m') /\ reads' = reads
      BY <1>2, <1>3, <2>2, InvalidateKeeps DEF Monitor!Activate
    <3> QED  BY <1>1, <3>1, PendingKeeps, SessionSuffices
  <2> QED  BY <2>1, <2>2
<1>4. CASE Monitor!Close
  <2> DEFINE u == [[m EXCEPT !.poll = -1] EXCEPT !.stale = -1]
             w == [u EXCEPT !.subscribed = FALSE]
  <2>1. m' = [w EXCEPT !.phase = "closed"] /\ reads' = reads
    BY <1>4 DEF Monitor!Close, Monitor!Cleanup, Monitor!Never
  <2>2. w \in MonitorStates
    <3>1. [m EXCEPT !.poll = -1] \in MonitorStates
      BY <1>2 DEF MonitorStates
    <3>2. u \in MonitorStates
      BY <3>1 DEF MonitorStates
    <3> HIDE DEF u
    <3> QED  BY <3>2 DEF MonitorStates
  <2> HIDE DEF w
  <2>3. m' \in MonitorStates /\ m'.phase = "closed"
    BY <2>1, <2>2 DEF MonitorStates
  <2>4. Session(m')
    BY <2>3 DEF Session, WatchInv
  <2> QED  BY <1>1, <2>1, <2>4, PendingKeeps, SessionSuffices
<1>5. CASE Monitor!PollFires
  <2>1. m' = [m EXCEPT !.poll = -1] /\ reads' = reads \cup {Monitor!Pending(now)}
    BY <1>5 DEF Monitor!PollFires, Monitor!Never
  <2>2. m' \in MonitorStates
    BY <1>2, <2>1 DEF MonitorStates
  <2>3. /\ m'.phase = m.phase /\ m'.gen = m.gen /\ m'.subscribed = m.subscribed
        /\ m'.confirmedAt = m.confirmedAt /\ m'.expiresAt = m.expiresAt
    BY <1>2, <2>1 DEF MonitorStates
  <2>4. Session(m')
    BY <1>2, <2>2, <2>3 DEF Session, WatchInv
  <2> QED  BY <1>1, <2>1, <2>4, PendingKeeps, SessionSuffices
<1>6. CASE Monitor!StaleFires
  <2> DEFINE u == [m EXCEPT !.stale = -1]
  <2>1. m' \in {u, Monitor!Invalidate(u)} /\ reads' = reads
    BY <1>6 DEF Monitor!StaleFires, Monitor!Never
  <2>2. u \in MonitorStates
    BY <1>2 DEF MonitorStates
  <2>3. /\ u.phase = m.phase /\ u.gen = m.gen /\ u.subscribed = m.subscribed
        /\ u.confirmedAt = m.confirmedAt /\ u.expiresAt = m.expiresAt
    BY <1>2 DEF MonitorStates
  <2> HIDE DEF u
  <2>4. Session(u)
    BY <1>2, <2>2, <2>3 DEF Session, WatchInv
  <2> QED  BY <1>1, <2>1, <2>4, InvalidateKeeps, PendingKeeps, SessionSuffices
<1> QED  BY <1>3, <1>4, <1>5, <1>6

------------------------------------------------------------------------------
(* The lifecycle: its queue, its clock and its operations.                 *)

Operations == [kind : {"none", "rotate", "revoke", "expire", "close"},
               pc : {"idle", "write", "publish", "deliver", "answer"},
               to : Nat, listening : BOOLEAN]

LEMMA QueueKeeps ==
  ASSUME MonitorInv,
         Monitor!Request \/ Monitor!Take \/ Monitor!ExpirationFires \/ Monitor!CloseLifecycle
           \/ Monitor!Tick
  PROVE  MonitorInv'
<1>1. UNCHANGED <<cred, answered, m, reads>>
  BY DEF Monitor!Request, Monitor!Take, Monitor!ExpirationFires, Monitor!CloseLifecycle, Monitor!Tick
<1>2. MonitorTypes /\ cred.updatedAt <= now /\ WatchInv(m) /\ (\A r \in reads : ReadInv(r))
        /\ OperationInv
  BY DEF MonitorInv
<1>3. queue \in Seq({"rotate", "revoke", "expire"}) /\ op \in Operations /\ now \in Nat
  BY <1>2 DEF MonitorTypes, Operations
<1>4. CASE Monitor!Request \/ Monitor!ExpirationFires
  <2>1. PICK kind \in {"rotate", "revoke", "expire"} :
          queue' = Append(queue, kind) /\ UNCHANGED <<now, available, op>>
    BY <1>4 DEF Monitor!Request, Monitor!ExpirationFires
  <2>2. queue' \in Seq({"rotate", "revoke", "expire"})
    BY <1>3, <2>1
  <2> QED  BY <1>1, <1>2, <2>1, <2>2 DEF MonitorInv, MonitorTypes, WatchInv, ReadInv, OperationInv
<1>5. CASE Monitor!Take
  <2>1. Head(queue) \in {"rotate", "revoke", "expire"}
          /\ Tail(queue) \in Seq({"rotate", "revoke", "expire"})
    BY <1>3, <1>5 DEF Monitor!Take
  <2>2. op' = [kind |-> Head(queue), pc |-> "write", to |-> 0, listening |-> FALSE]
          /\ queue' = Tail(queue) /\ UNCHANGED <<now, available>>
    BY <1>5 DEF Monitor!Take, Monitor!NoOp
  <2>3. op' \in Operations /\ op'.pc = "write" /\ op'.kind \in {"rotate", "revoke", "expire"}
    BY <2>1, <2>2 DEF Operations
  <2>4. OperationInv'
    BY <1>1, <1>2, <2>2, <2>3 DEF OperationInv
  <2> QED  BY <1>1, <1>2, <2>1, <2>2, <2>3, <2>4
           DEF MonitorInv, MonitorTypes, WatchInv, ReadInv, Operations
<1>6. CASE Monitor!CloseLifecycle
  <2>1. op' = [kind |-> "close", pc |-> "publish", to |-> 0, listening |-> FALSE]
          /\ available' = FALSE /\ UNCHANGED <<now, queue>>
    BY <1>6 DEF Monitor!CloseLifecycle, Monitor!NoOp
  <2>2. op' \in Operations /\ op'.pc = "publish" /\ op'.kind = "close" /\ op'.to = 0
    BY <2>1 DEF Operations
  <2>3. OperationInv'
    BY <1>1, <1>2, <2>1, <2>2 DEF OperationInv
  <2> QED  BY <1>1, <1>2, <2>1, <2>2, <2>3
           DEF MonitorInv, MonitorTypes, WatchInv, ReadInv, Operations
<1>7. CASE Monitor!Tick
  <2>1. now' = now + 1 /\ UNCHANGED <<available, queue, op>>
    BY <1>7 DEF Monitor!Tick
  <2>2. MonitorTypes' /\ (cred.updatedAt <= now)'
    BY <1>1, <1>2, <2>1 DEF MonitorTypes
  <2>3. WatchInv(m)'
    BY <1>1, <1>2, <2>1 DEF WatchInv, MonitorTypes, MonitorStates
  <2>4. (\A r \in reads : ReadInv(r))'
    BY <1>1, <1>2, <2>1 DEF ReadInv, MonitorTypes
  <2> QED  BY <1>1, <1>2, <2>1, <2>2, <2>3, <2>4 DEF MonitorInv, OperationInv
<1> QED  BY <1>4, <1>5, <1>6, <1>7

\* A write takes the row to a later generation, now, or leaves it alone.
LEMMA WriteKeeps ==
  ASSUME MonitorInv, op.pc = "write",
         \/ cred' = cred
         \/ /\ cred' \in [gen : Nat \ {0}, revoked : BOOLEAN, expiresAt : Nat, updatedAt : Nat]
            /\ cred'.gen = cred.gen + 1 /\ cred'.updatedAt = now
            /\ cred.revoked => cred'.revoked,
         op' \in Operations,
         op'.pc \in {"idle", "publish"},
         op'.pc = "idle" => op'.kind # "close",
         op'.pc = "publish" => /\ op'.kind \in {"rotate", "revoke", "expire"}
                               /\ op'.kind = "rotate" => op'.to = cred'.gen
                               /\ op'.kind = "revoke" => op'.to = 0 /\ cred'.revoked,
         UNCHANGED <<now, available, queue, answered, m, reads>>
  PROVE  MonitorInv'
<1>1. MonitorTypes /\ cred.updatedAt <= now /\ WatchInv(m) /\ (\A r \in reads : ReadInv(r))
        /\ OperationInv
  BY DEF MonitorInv
<1>2. cred.gen \in Nat \ {0} /\ cred.updatedAt \in Nat /\ now \in Nat /\ answered \in Nat
        /\ m \in MonitorStates /\ reads \subseteq [at : Nat, read : BOOLEAN, gen : Nat]
  BY <1>1 DEF MonitorTypes
<1>3. /\ cred' \in [gen : Nat \ {0}, revoked : BOOLEAN, expiresAt : Nat, updatedAt : Nat]
      /\ cred'.gen \in Nat /\ cred'.gen >= cred.gen /\ cred'.updatedAt <= now
      /\ cred.revoked => cred'.revoked
      /\ cred'.gen # cred.gen => cred'.updatedAt = now
      /\ cred'.gen = cred.gen => cred'.updatedAt = cred.updatedAt
  <2>1. CASE cred' = cred
    BY <1>1, <1>2, <2>1 DEF MonitorTypes
  <2>2. CASE cred' # cred
    BY <1>2, <2>2
  <2> QED  BY <2>1, <2>2
<1>4. MonitorTypes'
  BY <1>1, <1>3 DEF MonitorTypes, Operations
<1>5. WatchInv(m)'
  BY <1>1, <1>2, <1>3 DEF WatchInv, MonitorStates
<1>6. (\A r \in reads : ReadInv(r))'
  <2> SUFFICES ASSUME NEW r \in reads PROVE ReadInv(r)'
    OBVIOUS
  <2>1. ReadInv(r) /\ r.at \in Nat /\ r.gen \in Nat
    BY <1>1, <1>2
  <2> QED  BY <1>2, <1>3, <2>1 DEF ReadInv
<1>7. OperationInv'
  BY <1>1, <1>2, <1>3 DEF OperationInv, Operations
<1> QED  BY <1>3, <1>4, <1>5, <1>6, <1>7 DEF MonitorInv

LEMMA MutationsKeep ==
  ASSUME Monitor!MonitorAssumption, MonitorInv, Monitor!Mutate \/ Monitor!MutateFails
  PROVE  MonitorInv'
<1>1. op.pc = "write" /\ UNCHANGED <<now, available, queue, answered, m, reads>>
  BY DEF Monitor!Mutate, Monitor!MutateFails
<1>2. /\ op \in Operations /\ now \in Nat /\ Lifetime \in Nat
      /\ cred \in [gen : Nat \ {0}, revoked : BOOLEAN, expiresAt : Nat, updatedAt : Nat]
  BY DEF MonitorInv, MonitorTypes, Operations, Monitor!MonitorAssumption
<1>3. ASSUME NEW e \in Nat, cred' = [cred EXCEPT !.gen = @ + 1, !.expiresAt = e, !.updatedAt = now]
      PROVE  /\ cred' \in [gen : Nat \ {0}, revoked : BOOLEAN, expiresAt : Nat, updatedAt : Nat]
             /\ cred'.gen = cred.gen + 1 /\ cred'.updatedAt = now /\ cred'.revoked = cred.revoked
  <2>1. cred' = [gen |-> cred.gen + 1, revoked |-> cred.revoked, expiresAt |-> e, updatedAt |-> now]
    BY <1>2, <1>3
  <2> QED  BY <1>2, <2>1
<1>4. ASSUME NEW x \in BOOLEAN, cred.revoked => x,
             cred' = [cred EXCEPT !.revoked = x, !.gen = @ + 1, !.updatedAt = now]
      PROVE  /\ cred' \in [gen : Nat \ {0}, revoked : BOOLEAN, expiresAt : Nat, updatedAt : Nat]
             /\ cred'.gen = cred.gen + 1 /\ cred'.updatedAt = now /\ cred'.revoked = x
  <2>1. cred' = [gen |-> cred.gen + 1, revoked |-> x, expiresAt |-> cred.expiresAt, updatedAt |-> now]
    BY <1>2, <1>4
  <2> QED  BY <1>2, <1>4, <2>1
<1>5. op.kind # "close"
  BY <1>1 DEF MonitorInv, OperationInv
<1>6. ASSUME op' = Monitor!NoOp
      PROVE  op' \in Operations /\ op'.pc = "idle" /\ op'.kind = "none"
  BY <1>6 DEF Monitor!NoOp, Operations
<1>7. ASSUME NEW t \in Nat, op' = [op EXCEPT !.pc = "publish", !.to = t]
      PROVE  op' \in Operations /\ op'.pc = "publish" /\ op'.kind = op.kind /\ op'.to = t
  <2>1. op' = [kind |-> op.kind, pc |-> "publish", to |-> t, listening |-> op.listening]
    BY <1>2, <1>7 DEF Operations
  <2> QED  BY <1>2, <2>1 DEF Operations
<1>8. CASE Monitor!Mutate
  <2>1. CASE op.kind = "rotate" /\ Monitor!Effective # 0
    <3>1. PICK e \in {cred.expiresAt, now + Lifetime} :
            cred' = [cred EXCEPT !.gen = @ + 1, !.expiresAt = e, !.updatedAt = now]
      BY <1>8, <2>1 DEF Monitor!Mutate
    <3>2. e \in Nat /\ cred.gen + 1 \in Nat
      BY <1>2
    <3>3. op' = [op EXCEPT !.pc = "publish", !.to = cred.gen + 1]
      BY <1>8, <2>1 DEF Monitor!Mutate
    <3>4. op' \in Operations /\ op'.pc = "publish" /\ op'.kind = "rotate" /\ op'.to = cred.gen + 1
      BY <1>7, <2>1, <3>2, <3>3
    <3> QED  BY <1>1, <1>3, <3>1, <3>2, <3>4, WriteKeeps
  <2>2. CASE op.kind = "rotate" /\ Monitor!Effective = 0
    <3>1. op' = Monitor!NoOp /\ cred' = cred
      BY <1>8, <2>2 DEF Monitor!Mutate
    <3> QED  BY <1>1, <1>6, <3>1, WriteKeeps
  <2>3. CASE op.kind = "revoke"
    <3>1. op' = [op EXCEPT !.pc = "publish", !.to = 0]
      BY <1>8, <2>3 DEF Monitor!Mutate
    <3>2. op' \in Operations /\ op'.pc = "publish" /\ op'.kind = "revoke" /\ op'.to = 0
      BY <1>7, <2>3, <3>1
    <3>3. CASE cred.revoked
      BY <1>1, <1>8, <2>3, <3>2, <3>3, WriteKeeps DEF Monitor!Mutate
    <3>4. CASE ~cred.revoked
      <4>1. cred' = [cred EXCEPT !.revoked = TRUE, !.gen = @ + 1, !.updatedAt = now]
        BY <1>8, <2>3, <3>4 DEF Monitor!Mutate
      <4> QED  BY <1>1, <1>4, <3>2, <4>1, WriteKeeps
    <3> QED  BY <3>3, <3>4
  <2>4. CASE op.kind = "expire"
    <3>1. cred' = cred /\ op' \in {Monitor!NoOp, [op EXCEPT !.pc = "publish", !.to = 0]}
      BY <1>8, <2>4 DEF Monitor!Mutate
    <3>2. CASE op' = Monitor!NoOp
      BY <1>1, <1>6, <3>1, <3>2, WriteKeeps
    <3>3. CASE op' = [op EXCEPT !.pc = "publish", !.to = 0]
      BY <1>1, <1>7, <2>4, <3>1, <3>3, WriteKeeps
    <3> QED  BY <3>1, <3>2, <3>3
  <2> QED  BY <1>8, <2>1, <2>2, <2>3, <2>4 DEF Monitor!Mutate
<1>9. CASE Monitor!MutateFails
  <2>1. op' = Monitor!NoOp
    BY <1>9 DEF Monitor!MutateFails
  <2>2. CASE cred' = cred
    BY <1>1, <1>6, <2>1, <2>2, WriteKeeps
  <2>3. CASE cred' = [cred EXCEPT !.gen = @ + 1, !.updatedAt = now]
    <3>1. cred' = [cred EXCEPT !.revoked = cred.revoked, !.gen = @ + 1, !.updatedAt = now]
      BY <1>2, <2>3
    <3>2. cred.revoked \in BOOLEAN
      BY <1>2
    <3> QED  BY <1>1, <1>4, <1>6, <2>1, <3>1, <3>2, WriteKeeps
  <2>4. CASE ~cred.revoked /\ cred' = [cred EXCEPT !.gen = @ + 1, !.updatedAt = now, !.revoked = TRUE]
    <3>1. cred' = [cred EXCEPT !.revoked = TRUE, !.gen = @ + 1, !.updatedAt = now]
      BY <1>2, <2>4
    <3> QED  BY <1>1, <1>4, <1>6, <2>1, <2>4, <3>1, WriteKeeps
  <2> QED  BY <1>9, <2>2, <2>3, <2>4 DEF Monitor!MutateFails
<1> QED  BY <1>8, <1>9

\* The listeners there are hear what was written; then the owner's call
\* returns.
LEMMA NotifiedKeeps ==
  ASSUME MonitorInv, op.pc = "deliver", op.listening
  PROVE  /\ Monitor!Notified(m, op.to) \in MonitorStates
         /\ WatchInv(Monitor!Notified(m, op.to))
         /\ Live(Monitor!Notified(m, op.to)) => Monitor!Notified(m, op.to).gen = op.to
<1>1. Session(m)
  BY PendingKeeps
<1>2. CASE Monitor!Terminal(m)
  BY <1>1, <1>2 DEF Monitor!Notified, Monitor!Terminal, Session
<1>3. CASE Monitor!Matches(m, op.to, now)
  BY <1>1, <1>3 DEF Monitor!Notified, Monitor!Matches, Session
<1>4. CASE ~Monitor!Terminal(m) /\ ~Monitor!Matches(m, op.to, now)
  <2>1. Monitor!Notified(m, op.to) = Monitor!Invalidate(m)
    BY <1>4 DEF Monitor!Notified
  <2> QED  BY <1>1, <2>1, InvalidateKeeps DEF Session
<1> QED  BY <1>2, <1>3, <1>4

LEMMA PublicationKeeps ==
  ASSUME Monitor!MonitorAssumption, MonitorInv,
         Monitor!Publish \/ Monitor!Deliver \/ Monitor!Answer
  PROVE  MonitorInv'
<1>1. UNCHANGED <<now, cred, available, queue>>
  BY DEF Monitor!Publish, Monitor!Deliver, Monitor!Answer
<1>2. MonitorTypes /\ cred.updatedAt <= now /\ WatchInv(m) /\ (\A r \in reads : ReadInv(r))
        /\ OperationInv
  BY DEF MonitorInv
<1>3. op \in Operations /\ m \in MonitorStates /\ m.subscribed \in BOOLEAN /\ now \in Nat
        /\ reads \subseteq [at : Nat, read : BOOLEAN, gen : Nat] /\ cred.gen \in Nat \ {0}
        /\ m.gen \in Nat /\ op.to \in Nat
  BY <1>2 DEF MonitorTypes, Operations, MonitorStates
<1>4. CASE Monitor!Publish
  <2>1. op' = [kind |-> op.kind, pc |-> "deliver", to |-> op.to, listening |-> m.subscribed]
    BY <1>3, <1>4 DEF Monitor!Publish, Operations
  <2>2. op.pc = "publish" /\ UNCHANGED <<answered, m, reads>>
    BY <1>4 DEF Monitor!Publish
  <2>3. op' \in Operations /\ op'.kind = op.kind /\ op'.pc = "deliver" /\ op'.to = op.to
          /\ op'.listening = m.subscribed
    BY <1>3, <2>1 DEF Operations
  <2>4. OperationInv'
    BY <1>1, <1>2, <2>2, <2>3 DEF OperationInv, WatchInv
  <2> QED  BY <1>1, <1>2, <2>2, <2>3, <2>4
           DEF MonitorInv, MonitorTypes, WatchInv, ReadInv, Operations
<1>5. CASE Monitor!Deliver
  <2>1. op' = [kind |-> op.kind, pc |-> "answer", to |-> op.to, listening |-> op.listening]
    BY <1>3, <1>5 DEF Monitor!Deliver, Operations
  <2>2. op.pc = "deliver" /\ UNCHANGED answered
    BY <1>5 DEF Monitor!Deliver
  <2>3. op' \in Operations /\ op'.kind = op.kind /\ op'.pc = "answer" /\ op'.to = op.to
    BY <1>3, <2>1 DEF Operations
  <2>4. m' \in MonitorStates /\ WatchInv(m') /\ (Retiring /\ Live(m') => m'.gen = op.to)
    <3>1. CASE op.listening
      <4>1. m' = Monitor!Notified(m, op.to)
        BY <1>5, <3>1 DEF Monitor!Deliver
      <4> QED  BY <2>2, <3>1, <4>1, NotifiedKeeps
    <3>2. CASE ~op.listening
      <4>1. m' = m
        BY <1>5, <3>2 DEF Monitor!Deliver
      <4> QED  BY <1>2, <1>3, <2>2, <3>2, <4>1 DEF OperationInv
    <3> QED  BY <3>1, <3>2
  <2>5. WatchInv(m)'
    BY <1>1, <2>2, <2>4 DEF WatchInv
  <2>6. OperationInv'
    <3>1. Retiring /\ Live(m') => m'.gen \in 1 .. cred.gen
      BY <2>4 DEF WatchInv
    <3> QED  BY <1>1, <1>2, <1>3, <2>2, <2>3, <2>4, <3>1 DEF OperationInv
  <2>7. reads' \in {reads, reads \cup {Monitor!Pending(now)}}
    BY <1>5 DEF Monitor!Deliver
  <2>8. /\ reads' \subseteq [at : Nat, read : BOOLEAN, gen : Nat]
        /\ \A r \in reads' : ReadInv(r)
    BY <2>7, PendingKeeps
  <2>9. (\A r \in reads : ReadInv(r))'
    BY <1>1, <2>8 DEF ReadInv
  <2> QED  BY <1>1, <1>2, <2>2, <2>3, <2>4, <2>5, <2>6, <2>8, <2>9
           DEF MonitorInv, MonitorTypes, Operations
<1>6. CASE Monitor!Answer
  <2>1. op' = [kind |-> "none", pc |-> "idle", to |-> 0, listening |-> FALSE]
          /\ UNCHANGED <<m, reads>> /\ op.pc = "answer"
    BY <1>6 DEF Monitor!Answer, Monitor!NoOp
  <2>2. op' \in Operations /\ op'.kind = "none" /\ op'.pc = "idle"
    BY <2>1 DEF Operations
  <2>3. \/ op.kind = "rotate" /\ answered' = op.to
        \/ op.kind \in {"revoke", "close"} /\ answered' = Requests + 2
        \/ ~Retiring /\ answered' = answered
    BY <1>6 DEF Monitor!Answer
  <2>4. answered' \in Nat /\ Requests \in Nat
    BY <1>2, <1>3, <2>3 DEF MonitorTypes, Monitor!MonitorAssumption
  <2>5. WatchInv(m)'
    <3>1. Live(m) => answered' <= m.gen
      BY <1>2, <1>3, <2>1, <2>3 DEF OperationInv, WatchInv
    <3> QED  BY <1>1, <1>2, <2>1, <3>1 DEF WatchInv
  <2>6. available /\ ~cred.revoked => answered' <= cred.gen
    BY <1>2, <1>3, <2>1, <2>3 DEF OperationInv
  <2>7. OperationInv'
    BY <1>1, <2>2, <2>6 DEF OperationInv
  <2> QED  BY <1>1, <1>2, <2>1, <2>2, <2>4, <2>5, <2>7
           DEF MonitorInv, MonitorTypes, ReadInv, Operations
<1> QED  BY <1>4, <1>5, <1>6

LEMMA MonitorSteps ==
  ASSUME Monitor!MonitorAssumption, MonitorInv, [Monitor!Next]_(Monitor!vars)
  PROVE  MonitorInv'
<1>1. CASE UNCHANGED Monitor!vars
  BY <1>1 DEF Monitor!vars, MonitorInv, MonitorTypes, WatchInv, ReadInv, OperationInv
<1>2. CASE Monitor!Next
  BY <1>2, PrepareKeeps, ReadsKeep, TimersKeep, QueueKeeps, MutationsKeep, PublicationKeeps
     DEF Monitor!Next, Monitor!Lifecycle
<1> QED  BY <1>1, <1>2

LEMMA MonitorBounds ==
  ASSUME Monitor!MonitorAssumption, MonitorInv
  PROVE  Monitor!StalenessIsBounded
<1> SUFFICES ASSUME Monitor!IsCurrent
             PROVE  /\ cred.gen # m.gen => now < cred.updatedAt + MaxStale
                    /\ answered <= m.gen
  BY DEF Monitor!StalenessIsBounded
<1>1. Live(m) /\ now < m.confirmedAt + MaxStale
  BY DEF Monitor!IsCurrent
<1>2. now \in Nat /\ MaxStale \in Nat /\ m.confirmedAt \in Int /\ cred.updatedAt \in Nat
  BY DEF MonitorInv, MonitorTypes, MonitorStates, Monitor!MonitorAssumption
<1> QED  BY <1>1, <1>2 DEF MonitorInv, WatchInv

(* StalenessIsBounded: with the constants the code has, or any others that *)
(* meet MonitorAssumption, no session trusts an authority beyond the       *)
(* staleness bound after the row lost it, and the owner's rotate, revoke   *)
(* and close return only when no session of a retired generation is        *)
(* current, whichever answers of the source are late or never come.        *)
THEOREM StaleAuthorityEnds == Monitor!Spec => []StalenessIsBounded
<1>1. Monitor!Init => MonitorInv
  BY AuthoritiesAssumption, MonitorStarts
<1>2. MonitorInv /\ [Monitor!Next]_(Monitor!vars) => MonitorInv'
  BY AuthoritiesAssumption, MonitorSteps
<1>3. MonitorInv => StalenessIsBounded
  BY AuthoritiesAssumption, MonitorBounds DEF StalenessIsBounded
<1> QED  BY <1>1, <1>2, <1>3, PTL DEF Monitor!Spec

(***************************************************************************)
(* The owner's own file.                                                   *)
(***************************************************************************)
StudioStates ==
  [owner : Candidates \cup {Nobody}, output : [token : Nat, show : Shows \cup {"none"}]]
SaveJobs ==
  [op : {"none", "setup", "rotate"},
   at : {"idle", "derive", "show", "open", "write", "chmod", "rename", "mode"},
   who : Candidates \cup {Nobody}, state : StudioStates, ino : {0} \cup Studio!Inodes]

StudioTypes ==
  /\ running \in BOOLEAN /\ busy \in BOOLEAN /\ mem \in StudioStates
  /\ jobs \in [Callers -> SaveJobs]
  /\ tmp \in {0} \cup Studio!Inodes /\ file \in {0} \cup Studio!Inodes
  /\ ino = [i \in Studio!Inodes |-> ino[i]]
  /\ setupAnswered \in Candidates \cup {Nobody}
  /\ \A s \in sessions : s.user \in Candidates
  /\ conns = [c \in Sockets |-> conns[c]]
  /\ minted \in [token : Nat, session : Nat]

(* A file that can be loaded makes this owner. *)
Makes(c, o) == Studio!Loads(c) => Studio!Loaded(c).owner = o

Saving(j) == j.at \in {"open", "write", "chmod", "rename", "mode"}
Opened(j) == j.at \in {"write", "chmod", "rename", "mode"}

(* A request saves for the owner in memory, and the setup that runs made    *)
(* that owner or finds none.                                               *)
SaveInv(j, s, b) ==
  /\ j.at # "idle" => j.op \in {"setup", "rotate"}
  /\ j.op # "none" => j.at # "idle"
  /\ j.at = "derive" => j.op = "setup" /\ s.owner = Nobody /\ j.who \in Candidates
  /\ j.at = "show" => j.op = "rotate"
  /\ j.op = "setup" => b /\ (j.at # "derive" => j.who = s.owner)
  /\ j.op = "rotate" => s.owner # Nobody
  /\ Saving(j) => s.owner # Nobody /\ j.state.owner = s.owner
  /\ Opened(j) => j.ino \in Studio!Inodes

JobsInv ==
  /\ \A r \in Callers : SaveInv(jobs[r], mem, busy)
  /\ \A r, q \in Callers : jobs[r].op = "setup" /\ jobs[q].op = "setup" => r = q

(* What is being written, and what was renamed, makes the owner in memory; *)
(* what an answered setup left makes its owner.                            *)
OwnedInv ==
  /\ (\E r \in Callers : Opened(jobs[r])) /\ tmp # 0 => Makes(ino[tmp], mem.owner)
  /\ (\E r \in Callers : jobs[r].at = "mode") => file # 0 /\ Makes(ino[file], mem.owner)
  /\ setupAnswered # Nobody =>
       /\ file # 0 /\ Makes(ino[file], setupAnswered)
       /\ running => mem.owner = setupAnswered

OutputsInv ==
  /\ \A s \in sessions : s.user = mem.owner
  /\ \A c \in Sockets : conns[c] # 0 => conns[c] = mem.output.token

DownInv ==
  ~running => /\ ~busy /\ sessions = {} /\ \A r \in Callers : jobs[r].op = "none"
              /\ \A c \in Sockets : conns[c] = 0

StudioInv == StudioTypes /\ JobsInv /\ OwnedInv /\ OutputsInv /\ DownInv

\* The file's own library is the one the theorems are about.
LEMMA SameLibrary ==
  ASSUME NEW S
  PROVE  (Studio!IsFiniteSet(S) <=> IsFiniteSet(S)) /\ Studio!Cardinality(S) = Cardinality(S)
<1>1. Studio!IsFiniteSet(S) <=> IsFiniteSet(S)
  BY DEF Studio!IsFiniteSet, IsFiniteSet
<1>2. Studio!Cardinality(S) = Cardinality(S)
  BY DEF Studio!Cardinality, Cardinality
<1> QED  BY <1>1, <1>2

\* Some inode is named by no path and no open descriptor.
LEMMA InodesSuffice ==
  ASSUME Studio!AuthAssumption, tmp = 0
  PROVE  Studio!FreeInode \in Studio!Inodes
<1> DEFINE names == {jobs[r].ino : r \in Callers}
           used == names \cup {file}
           f == [r \in Callers |-> jobs[r].ino]
<1>1. IsFiniteSet(Callers) /\ MaxCrashes \in Nat
  BY SameLibrary DEF Studio!AuthAssumption
<1>2. f \in Surjection(Callers, names)
  BY DEF Surjection
<1>3. IsFiniteSet(names) /\ Cardinality(names) <= Cardinality(Callers)
  <2> HIDE DEF names, f
  <2> QED  BY <1>1, <1>2, FS_Surjection
<1>4. IsFiniteSet(used) /\ Cardinality(used) <= Cardinality(Callers) + 1
  <2> HIDE DEF names
  <2>1. Cardinality(names) \in Nat /\ Cardinality(Callers) \in Nat
    BY <1>1, <1>3, FS_CardinalityType
  <2>2. IsFiniteSet(names \cup {file}) /\ Cardinality(names \cup {file}) \in {Cardinality(names), Cardinality(names) + 1}
    BY <1>3, FS_AddElement
  <2> QED  BY <1>3, <2>1, <2>2
<1>5. PICK n : n = 2 + Cardinality(Callers) * (1 + MaxCrashes)
  OBVIOUS
<1>6. n \in Nat /\ Cardinality(Callers) + 2 <= n
  <2>1. PICK k \in Nat : k = Cardinality(Callers)
    BY <1>1, FS_CardinalityType
  <2>2. PICK l \in Nat : l = k * MaxCrashes
    BY <1>1, <2>1
  <2>3. k * (1 + MaxCrashes) = k + l
    BY <1>1, <2>1, <2>2
  <2> QED  BY <1>5, <2>1, <2>2, <2>3
<1>7. IsFiniteSet(1 .. n) /\ Cardinality(1 .. n) = n
  BY <1>6, FS_Interval
<1>8. Cardinality(Callers) \in Nat /\ Cardinality(used) \in Nat
  BY <1>1, <1>4, FS_CardinalityType
<1> HIDE DEF used
<1>9. ~(1 .. n \subseteq used)
  BY <1>4, <1>6, <1>7, <1>8, FS_Subset
<1>10. \E i \in Studio!Inodes : i \notin {tmp, file} /\ \A r \in Callers : jobs[r].ino # i
  <2>1. PICK i \in 1 .. n : i \notin used
    BY <1>9
  <2>2. i # 0 /\ i \in Studio!Inodes
    BY SameLibrary, <1>5, <1>6, <2>1 DEF Studio!Inodes
  <2> QED  BY <2>1, <2>2 DEF used
<1> QED  BY <1>10 DEF Studio!FreeInode

LEMMA StudioStarts ==
  ASSUME Studio!AuthAssumption, Studio!Init
  PROVE  StudioInv
<1>1. /\ running = FALSE /\ mem = Studio!EmptyAuthState /\ busy = FALSE /\ sessions = {}
      /\ minted = [token |-> 0, session |-> 0]
      /\ jobs = [r \in Callers |-> Studio!Idle] /\ tmp = 0 /\ file \in {0, 1}
      /\ conns = [c \in Sockets |-> 0] /\ setupAnswered = Nobody
  BY DEF Studio!Init
<1>2. ino = [i \in Studio!Inodes |-> ino[i]]
  BY DEF Studio!Init
<1>3. Studio!EmptyAuthState \in StudioStates
  BY DEF Studio!EmptyAuthState, Studio!NoCredential, StudioStates
<1>4. Studio!Idle \in SaveJobs /\ Studio!Idle.op = "none" /\ Studio!Idle.at = "idle"
  BY <1>3 DEF Studio!Idle, SaveJobs
<1>5. 1 \in Studio!Inodes
  <2>1. PICK k \in Nat : k = Cardinality(Callers)
    BY SameLibrary, FS_CardinalityType DEF Studio!AuthAssumption
  <2>2. k * (1 + MaxCrashes) \in Nat
    BY <2>1 DEF Studio!AuthAssumption
  <2> QED  BY SameLibrary, <2>1, <2>2 DEF Studio!Inodes
<1>6. StudioTypes
  BY <1>1, <1>2, <1>3, <1>4, <1>5 DEF StudioTypes
<1> QED  BY <1>1, <1>4, <1>6
         DEF StudioInv, JobsInv, SaveInv, OwnedInv, OutputsInv, DownInv, Saving, Opened

-----------------------------------------------------------------------------
\* What a step makes of one request, the owner staying.
Sets(r, j) ==
  /\ j \in SaveJobs /\ jobs' = [jobs EXCEPT ![r] = j]
  /\ SaveInv(j, mem, busy')
  /\ busy' \in BOOLEAN /\ (busy => busy' \/ jobs[r].op = "setup")
  /\ j.op = "setup" => jobs[r].op = "setup" \/ ~busy
  /\ mem'.owner = mem.owner
KeepsOutputs == UNCHANGED <<mem, sessions, conns>>
KeepsDisk == UNCHANGED <<tmp, file, ino, setupAnswered>>

LEMMA JobSet ==
  ASSUME StudioTypes, JobsInv, NEW r \in Callers, NEW j, Sets(r, j)
  PROVE  /\ jobs' \in [Callers -> SaveJobs] /\ JobsInv'
         /\ \A q \in Callers : jobs'[q] = IF q = r THEN j ELSE jobs[q]
<1>1. jobs \in [Callers -> SaveJobs]
  BY DEF StudioTypes
<1>2. jobs' \in [Callers -> SaveJobs] /\ \A q \in Callers : jobs'[q] = IF q = r THEN j ELSE jobs[q]
  BY <1>1 DEF Sets
<1>3. ASSUME NEW q \in Callers PROVE SaveInv(jobs'[q], mem', busy')
  <2>1. SaveInv(j, mem', busy')
    BY DEF Sets, SaveInv
  <2>2. SaveInv(jobs[q], mem, busy)
    BY DEF JobsInv
  <2>3. CASE q = r
    BY <1>2, <2>1, <2>3
  <2>4. CASE q # r
    <3>1. jobs[q].op = "setup" => busy'
      <4> HAVE jobs[q].op = "setup"
      <4>1. busy
        BY <2>2 DEF SaveInv
      <4>2. jobs[r].op # "setup"
        BY <2>4 DEF JobsInv
      <4> QED  BY <4>1, <4>2 DEF Sets
    <3>2. SaveInv(jobs[q], mem', busy')
      BY <2>2, <3>1 DEF SaveInv, Sets
    <3> QED  BY <1>2, <2>4, <3>2
  <2> QED  BY <2>3, <2>4
<1>4. ASSUME NEW q \in Callers, NEW p \in Callers, jobs'[q].op = "setup", jobs'[p].op = "setup"
      PROVE  q = p
  <2>1. ASSUME NEW k \in Callers, k # r, jobs[k].op = "setup", j.op = "setup" PROVE FALSE
    <3>1. busy
      BY <2>1 DEF JobsInv, SaveInv
    <3> QED  BY <2>1, <3>1 DEF Sets, JobsInv
  <2> QED  BY <1>2, <1>4, <2>1 DEF JobsInv
<1> QED  BY <1>2, <1>3, <1>4 DEF JobsInv

\* A request that touches no file keeps what the files say of the owner.
LEMMA DiskKept ==
  ASSUME OwnedInv, NEW r \in Callers, NEW j,
         \A q \in Callers : jobs'[q] = IF q = r THEN j ELSE jobs[q],
         Opened(j) => Opened(jobs[r]), j.at = "mode" => jobs[r].at = "mode",
         KeepsDisk, mem'.owner = mem.owner, running' = running
  PROVE  OwnedInv'
<1>1. (\E q \in Callers : Opened(jobs'[q])) => \E q \in Callers : Opened(jobs[q])
  OBVIOUS
<1>2. (\E q \in Callers : jobs'[q].at = "mode") => \E q \in Callers : jobs[q].at = "mode"
  OBVIOUS
<1> QED  BY <1>1, <1>2 DEF OwnedInv, KeepsDisk

\* A server that runs a request is up, and its records have their fields.
LEMMA RunningJob ==
  ASSUME StudioInv, NEW r \in Callers, jobs[r].at # "idle"
  PROVE  running = TRUE
BY DEF StudioInv, StudioTypes, DownInv, JobsInv, SaveInv

\* The steps that set one request and leave the file, the sessions and the
\* outputs alone.
Quiet(r, j) ==
  /\ Sets(r, j) /\ KeepsOutputs /\ KeepsDisk /\ running' = running
  /\ running = TRUE /\ minted' \in [token : Nat, session : Nat]
  /\ Opened(j) => Opened(jobs[r])
  /\ j.at = "mode" => jobs[r].at = "mode"

LEMMA QuietKeeps ==
  ASSUME StudioInv, NEW r \in Callers, NEW j, Quiet(r, j)
  PROVE  StudioInv'
<1>1. StudioTypes /\ JobsInv /\ OwnedInv /\ OutputsInv
  BY DEF StudioInv
<1>2. Sets(r, j) /\ KeepsOutputs /\ KeepsDisk /\ running' = running /\ running' = TRUE
  BY DEF Quiet
<1>3. /\ jobs' \in [Callers -> SaveJobs] /\ JobsInv'
      /\ \A q \in Callers : jobs'[q] = IF q = r THEN j ELSE jobs[q]
  BY <1>1, <1>2, JobSet
<1>4. mem'.owner = mem.owner /\ (Opened(j) => Opened(jobs[r])) /\ (j.at = "mode" => jobs[r].at = "mode")
  BY <1>2 DEF Quiet, KeepsOutputs
<1>5. OwnedInv'
  BY <1>1, <1>2, <1>3, <1>4, DiskKept
<1>6. OutputsInv'
  BY <1>1, <1>2 DEF OutputsInv, KeepsOutputs
<1>7. busy' \in BOOLEAN /\ minted' \in [token : Nat, session : Nat]
  BY DEF Quiet, Sets
<1>8. StudioTypes'
  BY <1>1, <1>2, <1>3, <1>7 DEF StudioTypes, KeepsOutputs, KeepsDisk
<1>9. DownInv'
  BY <1>2 DEF DownInv
<1> QED  BY <1>3, <1>5, <1>6, <1>8, <1>9 DEF StudioInv

LEMMA IdleIsAJob ==
  /\ Studio!Idle \in SaveJobs /\ Studio!EmptyAuthState \in StudioStates
  /\ \A state, free : SaveInv(Studio!Idle, state, free)
  /\ Studio!Idle.op = "none" /\ Studio!Idle.at = "idle" /\ ~Opened(Studio!Idle)
<1>1. Studio!EmptyAuthState \in StudioStates
  BY DEF Studio!EmptyAuthState, Studio!NoCredential, StudioStates
<1>2. /\ Studio!Idle \in SaveJobs
      /\ Studio!Idle.op = "none" /\ Studio!Idle.at = "idle"
  BY <1>1 DEF Studio!Idle, SaveJobs
<1> QED  BY <1>1, <1>2 DEF SaveInv, Saving, Opened

LEMMA SetupKeeps ==
  ASSUME StudioInv, NEW r \in Callers, NEW c \in Candidates, Studio!Setup(r, c)
  PROVE  StudioInv'
<1> DEFINE j == Studio!Job("setup", "derive", c, Studio!EmptyAuthState)
<1>1. j \in SaveJobs
  BY IdleIsAJob DEF Studio!Job, SaveJobs
<1>2. j.op = "setup" /\ j.at = "derive" /\ j.who = c
  BY DEF Studio!Job
<1>3. /\ running = TRUE /\ ~busy /\ mem.owner = Nobody /\ busy' = TRUE
      /\ jobs' = [jobs EXCEPT ![r] = j]
      /\ UNCHANGED <<running, mem, sessions, conns, minted, tmp, file, ino, setupAnswered>>
  BY DEF Studio!Setup, Studio!SetupOpen, Studio!disk, StudioInv, StudioTypes
<1> HIDE DEF j
<1>4. SaveInv(j, mem, busy')
  BY <1>2, <1>3 DEF SaveInv, Saving, Opened
<1>5. Sets(r, j)
  BY <1>1, <1>3, <1>4 DEF Sets
<1>6. Quiet(r, j)
  BY <1>2, <1>3, <1>5 DEF Quiet, KeepsOutputs, KeepsDisk, Opened, StudioInv, StudioTypes
<1> QED  BY <1>6, QuietKeeps

LEMMA RequestRotationKeeps ==
  ASSUME Studio!AuthAssumption, StudioInv,
         NEW r \in Callers, NEW s \in sessions, Studio!RequestRotation(r, s)
  PROVE  StudioInv'
<1>1. PICK w \in Shows : jobs' = [jobs EXCEPT ![r] =
         Studio!Job("rotate", "show", s.user, [owner |-> Nobody, output |-> [token |-> 0, show |-> w]])]
  BY DEF Studio!RequestRotation
<1>2. s.user \in Candidates /\ mem.owner = s.user
  BY DEF StudioInv, StudioTypes, OutputsInv
<1>3. PICK j : j = Studio!Job("rotate", "show", s.user, [owner |-> Nobody, output |-> [token |-> 0, show |-> w]])
  OBVIOUS
<1>4. j \in SaveJobs /\ j.op = "rotate" /\ j.at = "show"
  BY <1>2, <1>3 DEF Studio!Job, SaveJobs, StudioStates
<1>5. /\ running = TRUE /\ jobs[r] = Studio!Idle
      /\ UNCHANGED <<running, mem, busy, sessions, conns, minted, tmp, file, ino, setupAnswered>>
  BY DEF Studio!RequestRotation, Studio!disk, StudioInv, StudioTypes
<1>6. mem.owner # Nobody
  BY <1>2 DEF StudioInv, StudioTypes, Studio!AuthAssumption
<1>7. SaveInv(j, mem, busy')
  BY <1>4, <1>6 DEF SaveInv, Saving, Opened
<1>8. Sets(r, j)
  BY <1>1, <1>3, <1>4, <1>5, <1>7 DEF Sets, StudioInv, StudioTypes
<1>9. Quiet(r, j)
  BY <1>4, <1>5, <1>8 DEF Quiet, KeepsOutputs, KeepsDisk, Opened, StudioInv, StudioTypes
<1> QED  BY <1>9, QuietKeeps

LEMMA RotateKeeps ==
  ASSUME StudioInv, NEW r \in Callers, Studio!Rotate(r)
  PROVE  StudioInv'
<1>1. /\ jobs[r].at = "show"
      /\ UNCHANGED <<running, mem, busy, sessions, conns, tmp, file, ino, setupAnswered>>
  BY DEF Studio!Rotate, Studio!disk
<1>2. running = TRUE /\ SaveInv(jobs[r], mem, busy) /\ jobs[r] \in SaveJobs
  BY <1>1, RunningJob DEF StudioInv, JobsInv, StudioTypes
<1>3. jobs[r].op = "rotate" /\ mem.owner # Nobody /\ mem \in StudioStates
  BY <1>1, <1>2 DEF SaveInv, StudioInv, StudioTypes
<1>4. minted \in [token : Nat, session : Nat] /\ busy \in BOOLEAN /\ jobs \in [Callers -> SaveJobs]
  BY DEF StudioInv, StudioTypes
<1>5. CASE jobs' = [jobs EXCEPT ![r] = Studio!Idle] /\ UNCHANGED minted
  <2>1. Sets(r, Studio!Idle)
    BY <1>1, <1>4, <1>5, IdleIsAJob DEF Sets
  <2>2. Quiet(r, Studio!Idle)
    BY <1>1, <1>2, <1>4, <1>5, <2>1, IdleIsAJob DEF Quiet, KeepsOutputs, KeepsDisk
  <2> QED  BY <2>2, QuietKeeps
<1>6. CASE /\ minted' = [minted EXCEPT !.token = @ + 1]
           /\ jobs' = [jobs EXCEPT ![r].at = "open", ![r].state =
                [mem EXCEPT !.output = [token |-> minted.token + 1, show |-> jobs[r].state.output.show]]]
  <2>1. PICK state : state = [mem EXCEPT !.output = [token |-> minted.token + 1, show |-> jobs[r].state.output.show]]
    OBVIOUS
  <2>2. jobs[r].state.output.show \in Shows \cup {"none"}
    BY <1>2 DEF SaveJobs, StudioStates
  <2>3. state \in StudioStates /\ state.owner = mem.owner
    BY <1>3, <1>4, <2>1, <2>2 DEF StudioStates
  <2>4. PICK j : j = [jobs[r] EXCEPT !.at = "open", !.state = state]
    OBVIOUS
  <2>5. jobs' = [jobs EXCEPT ![r] = j]
    BY <1>4, <1>6, <2>1, <2>4
  <2>6. j \in SaveJobs /\ j.op = "rotate" /\ j.at = "open" /\ j.state = state
    BY <1>2, <1>3, <2>3, <2>4 DEF SaveJobs
  <2>7. SaveInv(j, mem, busy')
    BY <1>3, <2>3, <2>6 DEF SaveInv, Saving, Opened
  <2>8. Sets(r, j)
    BY <1>1, <1>4, <2>5, <2>6, <2>7 DEF Sets
  <2>9. minted' \in [token : Nat, session : Nat]
    BY <1>4, <1>6
  <2>10. Quiet(r, j)
    BY <1>1, <1>2, <2>6, <2>8, <2>9 DEF Quiet, KeepsOutputs, KeepsDisk, Opened
  <2> QED  BY <2>10, QuietKeeps
<1> QED  BY <1>5, <1>6 DEF Studio!Rotate

LEMMA SaveChmodsKeeps ==
  ASSUME StudioInv, NEW r \in Callers, Studio!SaveChmods(r)
  PROVE  StudioInv'
<1>1. /\ jobs[r].at = "chmod" /\ jobs' = [jobs EXCEPT ![r].at = "rename"]
      /\ UNCHANGED <<running, mem, busy, sessions, conns, minted, tmp, file, ino, setupAnswered>>
  BY DEF Studio!SaveChmods, Studio!disk
<1>2. running = TRUE /\ SaveInv(jobs[r], mem, busy) /\ jobs[r] \in SaveJobs
  BY <1>1, RunningJob DEF StudioInv, JobsInv, StudioTypes
<1>3. minted \in [token : Nat, session : Nat] /\ busy \in BOOLEAN /\ jobs \in [Callers -> SaveJobs]
  BY DEF StudioInv, StudioTypes
<1>4. PICK j : j = [jobs[r] EXCEPT !.at = "rename"]
  OBVIOUS
<1>5. jobs' = [jobs EXCEPT ![r] = j]
  BY <1>1, <1>3, <1>4
<1>6. /\ j \in SaveJobs /\ j.at = "rename" /\ j.op = jobs[r].op /\ j.who = jobs[r].who
      /\ j.state = jobs[r].state /\ j.ino = jobs[r].ino
  BY <1>2, <1>4 DEF SaveJobs
<1>7. SaveInv(j, mem, busy')
  BY <1>1, <1>2, <1>6 DEF SaveInv, Saving, Opened
<1>8. Sets(r, j)
  BY <1>1, <1>3, <1>5, <1>6, <1>7 DEF Sets
<1>9. Quiet(r, j)
  BY <1>1, <1>2, <1>3, <1>6, <1>8 DEF Quiet, KeepsOutputs, KeepsDisk, Opened
<1> QED  BY <1>9, QuietKeeps

LEMMA SaveFailsKeeps ==
  ASSUME StudioInv, NEW r \in Callers, Studio!SaveFails(r)
  PROVE  StudioInv'
<1>1. /\ jobs[r].at # "idle" /\ jobs' = [jobs EXCEPT ![r] = Studio!Idle]
      /\ busy' = (busy /\ jobs[r].op # "setup")
      /\ UNCHANGED <<running, mem, sessions, conns, minted, tmp, file, ino, setupAnswered>>
  BY DEF Studio!SaveFails, Studio!Reject, Studio!disk
<1>2. running = TRUE
  BY <1>1, RunningJob
<1>3. minted \in [token : Nat, session : Nat]
  BY DEF StudioInv, StudioTypes
<1>4. Sets(r, Studio!Idle)
  BY <1>1, IdleIsAJob DEF Sets
<1>5. Quiet(r, Studio!Idle)
  BY <1>1, <1>2, <1>3, <1>4, IdleIsAJob DEF Quiet, KeepsOutputs, KeepsDisk
<1> QED  BY <1>5, QuietKeeps

LEMMA DerivedKeeps ==
  ASSUME Studio!AuthAssumption, StudioInv, NEW r \in Callers, Studio!SetupDerived(r)
  PROVE  StudioInv'
<1>1. /\ jobs[r].at = "derive" /\ mem' = [mem EXCEPT !.owner = jobs[r].who]
      /\ jobs' = [jobs EXCEPT ![r].at = "open", ![r].state = mem']
      /\ UNCHANGED <<running, busy, sessions, conns, minted, tmp, file, ino, setupAnswered>>
  BY DEF Studio!SetupDerived, Studio!disk
<1>2. running = TRUE /\ SaveInv(jobs[r], mem, busy) /\ jobs[r] \in SaveJobs /\ mem \in StudioStates
  BY <1>1, RunningJob DEF StudioInv, JobsInv, StudioTypes
<1>3. jobs \in [Callers -> SaveJobs]
  BY DEF StudioInv, StudioTypes
<1>4. jobs[r].op = "setup" /\ mem.owner = Nobody /\ jobs[r].who \in Candidates /\ busy
  BY <1>1, <1>2 DEF SaveInv
<1>5. PICK state : state = mem'
  OBVIOUS
<1>6. /\ state \in StudioStates /\ state.owner = jobs[r].who /\ state.output = mem.output
  BY <1>1, <1>2, <1>4, <1>5 DEF StudioStates
<1>7. PICK j : j = [jobs[r] EXCEPT !.at = "open", !.state = state]
  OBVIOUS
<1>8. jobs' = [jobs EXCEPT ![r] = j]
  BY <1>1, <1>3, <1>5, <1>7
<1>9. j \in SaveJobs /\ j.op = "setup" /\ j.at = "open" /\ j.state = state /\ j.who = jobs[r].who
  BY <1>2, <1>4, <1>6, <1>7 DEF SaveJobs
<1>10. /\ jobs' \in [Callers -> SaveJobs]
       /\ \A q \in Callers : jobs'[q] = IF q = r THEN j ELSE jobs[q]
  BY <1>3, <1>8, <1>9
<1>11. \A q \in Callers : q # r => jobs[q].op = "none" /\ jobs[q].at = "idle"
  <2> TAKE q \in Callers
  <2>1. jobs[q] \in SaveJobs /\ SaveInv(jobs[q], mem, busy)
    BY <1>3 DEF StudioInv, JobsInv
  <2>2. q # r => jobs[q].op # "setup"
    BY <1>4 DEF StudioInv, JobsInv
  <2> QED  BY <1>4, <2>1, <2>2 DEF SaveInv, SaveJobs
<1>12. JobsInv'
  <2>1. SaveInv(j, state, busy)
    BY <1>4, <1>6, <1>9 DEF SaveInv, Saving, Opened, Studio!AuthAssumption
  <2>2. ASSUME NEW q \in Callers, q # r PROVE SaveInv(jobs'[q], mem', busy')
    BY <1>10, <1>11, <2>2 DEF SaveInv, Saving, Opened
  <2>3. \A q \in Callers : SaveInv(jobs'[q], mem', busy')
    BY <1>1, <1>5, <1>10, <2>1, <2>2
  <2>4. \A p, q \in Callers : jobs'[p].op = "setup" /\ jobs'[q].op = "setup" => p = q
    BY <1>10, <1>11
  <2> QED  BY <2>3, <2>4 DEF JobsInv
<1>13. OwnedInv'
  <2>1. \A q \in Callers : ~Opened(jobs'[q]) /\ jobs'[q].at # "mode"
    BY <1>9, <1>10, <1>11 DEF Opened
  <2>2. setupAnswered = Nobody
    BY <1>2, <1>4 DEF StudioInv, OwnedInv
  <2> QED  BY <1>1, <2>1, <2>2 DEF OwnedInv
<1>14. OutputsInv'
  <2>1. sessions = {}
    BY <1>4 DEF StudioInv, StudioTypes, OutputsInv, Studio!AuthAssumption
  <2>2. \A c \in Sockets : conns[c] # 0 => conns[c] = state.output.token
    BY <1>6 DEF StudioInv, OutputsInv
  <2> QED  BY <1>1, <1>5, <2>1, <2>2 DEF OutputsInv
<1>15. StudioTypes'
  BY <1>1, <1>5, <1>6, <1>10 DEF StudioInv, StudioTypes
<1>16. DownInv'
  BY <1>1, <1>2 DEF DownInv
<1> QED  BY <1>12, <1>13, <1>14, <1>15, <1>16 DEF StudioInv

LEMMA SaveOpensKeeps ==
  ASSUME Studio!AuthAssumption, StudioInv, NEW r \in Callers, Studio!SaveOpens(r)
  PROVE  StudioInv'
<1>1. PICK i : i = IF tmp = 0 THEN Studio!FreeInode ELSE tmp
  OBVIOUS
<1>2. /\ jobs[r].at = "open" /\ tmp' = i /\ ino' = [ino EXCEPT ![i] = Studio!Blank]
      /\ jobs' = [jobs EXCEPT ![r].at = "write", ![r].ino = i]
      /\ UNCHANGED <<running, mem, busy, sessions, conns, minted, file, setupAnswered>>
  BY <1>1 DEF Studio!SaveOpens
<1>3. running = TRUE /\ SaveInv(jobs[r], mem, busy) /\ jobs[r] \in SaveJobs
  BY <1>2, RunningJob DEF StudioInv, JobsInv, StudioTypes
<1>4. /\ minted \in [token : Nat, session : Nat] /\ busy \in BOOLEAN /\ jobs \in [Callers -> SaveJobs]
      /\ ino = [k \in Studio!Inodes |-> ino[k]] /\ tmp \in {0} \cup Studio!Inodes
  BY DEF StudioInv, StudioTypes
<1>5. i \in Studio!Inodes
  BY <1>1, <1>4, InodesSuffice
<1>6. PICK j : j = [jobs[r] EXCEPT !.at = "write", !.ino = i]
  OBVIOUS
<1>7. jobs' = [jobs EXCEPT ![r] = j]
  BY <1>2, <1>4, <1>6
<1>8. /\ j \in SaveJobs /\ j.at = "write" /\ j.op = jobs[r].op /\ j.who = jobs[r].who
      /\ j.state = jobs[r].state /\ j.ino = i
  BY <1>3, <1>5, <1>6 DEF SaveJobs
<1>9. SaveInv(j, mem, busy')
  BY <1>2, <1>3, <1>5, <1>8 DEF SaveInv, Saving, Opened
<1>10. Sets(r, j)
  BY <1>2, <1>4, <1>7, <1>8, <1>9 DEF Sets
<1>11. /\ jobs' \in [Callers -> SaveJobs] /\ JobsInv'
       /\ \A q \in Callers : jobs'[q] = IF q = r THEN j ELSE jobs[q]
  BY <1>10, JobSet DEF StudioInv
<1>12. ino' = [k \in Studio!Inodes |-> IF k = i THEN Studio!Blank ELSE ino[k]]
  BY <1>2, <1>4
<1>13. \A o : Makes(Studio!Blank, o)
  BY DEF Makes, Studio!Loads, Studio!Blank
<1>14. OwnedInv'
  <2>1. Makes(ino'[tmp'], mem'.owner)
    BY <1>2, <1>5, <1>12, <1>13
  <2>2. \A o : file # 0 /\ Makes(ino[file], o) => Makes(ino'[file], o)
    BY <1>5, <1>12, <1>13 DEF StudioInv, StudioTypes
  <2>3. (\E q \in Callers : jobs'[q].at = "mode") => \E q \in Callers : jobs[q].at = "mode"
    BY <1>8, <1>11
  <2> QED  BY <1>2, <2>1, <2>2, <2>3 DEF StudioInv, OwnedInv
<1>15. OutputsInv' /\ DownInv'
  BY <1>2, <1>3 DEF StudioInv, OutputsInv, DownInv
<1>16. StudioTypes'
  BY <1>2, <1>5, <1>11, <1>12 DEF StudioInv, StudioTypes
<1> QED  BY <1>11, <1>14, <1>15, <1>16 DEF StudioInv

LEMMA SaveWritesKeeps ==
  ASSUME StudioInv, NEW r \in Callers, Studio!SaveWrites(r)
  PROVE  StudioInv'
<1>1. PICK c \in {Studio!Saved(jobs[r].state), Studio!Torn} :
         ino' = [ino EXCEPT ![jobs[r].ino] = c]
  BY DEF Studio!SaveWrites
<1>2. /\ jobs[r].at = "write" /\ jobs' = [jobs EXCEPT ![r].at = "chmod"]
      /\ UNCHANGED <<running, mem, busy, sessions, conns, minted, tmp, file, setupAnswered>>
  BY DEF Studio!SaveWrites
<1>3. running = TRUE /\ SaveInv(jobs[r], mem, busy) /\ jobs[r] \in SaveJobs
  BY <1>2, RunningJob DEF StudioInv, JobsInv, StudioTypes
<1>4. /\ minted \in [token : Nat, session : Nat] /\ busy \in BOOLEAN /\ jobs \in [Callers -> SaveJobs]
      /\ ino = [k \in Studio!Inodes |-> ino[k]]
  BY DEF StudioInv, StudioTypes
<1>5. jobs[r].state.owner = mem.owner /\ Opened(jobs[r])
  BY <1>2, <1>3 DEF SaveInv, Saving, Opened
<1>6. PICK j : j = [jobs[r] EXCEPT !.at = "chmod"]
  OBVIOUS
<1>7. jobs' = [jobs EXCEPT ![r] = j]
  BY <1>2, <1>4, <1>6
<1>8. /\ j \in SaveJobs /\ j.at = "chmod" /\ j.op = jobs[r].op /\ j.who = jobs[r].who
      /\ j.state = jobs[r].state /\ j.ino = jobs[r].ino
  BY <1>3, <1>6 DEF SaveJobs
<1>9. SaveInv(j, mem, busy')
  BY <1>2, <1>3, <1>8 DEF SaveInv, Saving, Opened
<1>10. Sets(r, j)
  BY <1>2, <1>4, <1>7, <1>8, <1>9 DEF Sets
<1>11. /\ jobs' \in [Callers -> SaveJobs] /\ JobsInv'
       /\ \A q \in Callers : jobs'[q] = IF q = r THEN j ELSE jobs[q]
  BY <1>10, JobSet DEF StudioInv
<1>12. ino' = [k \in Studio!Inodes |-> IF k = jobs[r].ino THEN c ELSE ino[k]]
  BY <1>1, <1>4
<1>13. Makes(c, mem.owner)
  BY <1>1, <1>5 DEF Makes, Studio!Loads, Studio!Loaded, Studio!Saved, Studio!Torn
<1>14. OwnedInv'
  <2>1. \A i \in Studio!Inodes : Makes(ino[i], mem.owner) => Makes(ino'[i], mem.owner)
    BY <1>12, <1>13
  <2>2. tmp # 0 => tmp \in Studio!Inodes /\ Makes(ino[tmp], mem.owner)
    BY <1>5 DEF StudioInv, StudioTypes, OwnedInv
  <2>3. (\E q \in Callers : jobs'[q].at = "mode") => \E q \in Callers : jobs[q].at = "mode"
    BY <1>8, <1>11
  <2>4. setupAnswered # Nobody => file # 0 /\ Makes(ino[file], mem.owner) /\ mem.owner = setupAnswered
    BY <1>3 DEF StudioInv, OwnedInv
  <2>5. file # 0 => file \in Studio!Inodes
    BY DEF StudioInv, StudioTypes
  <2> QED  BY <1>2, <2>1, <2>2, <2>3, <2>4, <2>5 DEF StudioInv, OwnedInv
<1>15. OutputsInv' /\ DownInv'
  BY <1>2, <1>3 DEF StudioInv, OutputsInv, DownInv
<1>16. StudioTypes'
  BY <1>2, <1>11, <1>12 DEF StudioInv, StudioTypes
<1> QED  BY <1>11, <1>14, <1>15, <1>16 DEF StudioInv

LEMMA SaveRenamesKeeps ==
  ASSUME StudioInv, NEW r \in Callers, Studio!SaveRenames(r)
  PROVE  StudioInv'
<1>1. /\ jobs[r].at = "rename" /\ tmp # 0 /\ jobs' = [jobs EXCEPT ![r].at = "mode"]
      /\ file' = tmp /\ tmp' = 0
      /\ UNCHANGED <<running, mem, busy, sessions, conns, minted, ino, setupAnswered>>
  BY DEF Studio!SaveRenames
<1>2. running = TRUE /\ SaveInv(jobs[r], mem, busy) /\ jobs[r] \in SaveJobs
  BY <1>1, RunningJob DEF StudioInv, JobsInv, StudioTypes
<1>3. minted \in [token : Nat, session : Nat] /\ busy \in BOOLEAN /\ jobs \in [Callers -> SaveJobs]
  BY DEF StudioInv, StudioTypes
<1>4. PICK j : j = [jobs[r] EXCEPT !.at = "mode"]
  OBVIOUS
<1>5. jobs' = [jobs EXCEPT ![r] = j]
  BY <1>1, <1>3, <1>4
<1>6. /\ j \in SaveJobs /\ j.at = "mode" /\ j.op = jobs[r].op /\ j.who = jobs[r].who
      /\ j.state = jobs[r].state /\ j.ino = jobs[r].ino
  BY <1>2, <1>4 DEF SaveJobs
<1>7. SaveInv(j, mem, busy')
  BY <1>1, <1>2, <1>6 DEF SaveInv, Saving, Opened
<1>8. Sets(r, j)
  BY <1>1, <1>3, <1>5, <1>6, <1>7 DEF Sets
<1>9. /\ jobs' \in [Callers -> SaveJobs] /\ JobsInv'
  BY <1>8, JobSet DEF StudioInv
<1>10. OwnedInv'
  <2>1. Makes(ino[tmp], mem.owner)
    BY <1>1 DEF StudioInv, OwnedInv, Opened
  <2>2. setupAnswered # Nobody => mem.owner = setupAnswered
    BY <1>2 DEF StudioInv, OwnedInv
  <2>3. (setupAnswered # Nobody)' => Makes(ino'[file'], setupAnswered')
    BY <1>1, <2>1, <2>2
  <2> QED  BY <1>1, <2>1, <2>2, <2>3 DEF OwnedInv
<1>11. OutputsInv' /\ DownInv'
  BY <1>1, <1>2 DEF StudioInv, OutputsInv, DownInv
<1>12. StudioTypes'
  BY <1>1, <1>9 DEF StudioInv, StudioTypes
<1> QED  BY <1>9, <1>10, <1>11, <1>12 DEF StudioInv

LEMMA SetupSavedKeeps ==
  ASSUME StudioInv, NEW r \in Callers, Studio!SetupSaved(r)
  PROVE  StudioInv'
<1>1. /\ jobs[r].at = "mode" /\ jobs[r].op = "setup"
      /\ minted' = [minted EXCEPT !.session = @ + 1]
      /\ sessions' = sessions \cup {[id |-> minted.session + 1, user |-> jobs[r].who]}
      /\ setupAnswered' = jobs[r].who
      /\ jobs' = [jobs EXCEPT ![r] = Studio!Idle] /\ busy' = FALSE
      /\ UNCHANGED <<running, mem, conns, tmp, file, ino>>
  BY DEF Studio!SetupSaved, Studio!CreateSession, Studio!disk
<1>2. running = TRUE /\ SaveInv(jobs[r], mem, busy)
  BY <1>1, RunningJob DEF StudioInv, JobsInv
<1>3. jobs[r].who = mem.owner /\ mem.owner # Nobody /\ mem.owner \in Candidates
  BY <1>1, <1>2 DEF SaveInv, Saving, StudioInv, StudioTypes, StudioStates
<1>4. Sets(r, Studio!Idle)
  BY <1>1, IdleIsAJob DEF Sets
<1>5. /\ jobs' \in [Callers -> SaveJobs] /\ JobsInv'
      /\ \A q \in Callers : jobs'[q] = IF q = r THEN Studio!Idle ELSE jobs[q]
  BY <1>4, JobSet DEF StudioInv
<1>6. OwnedInv'
  <2>1. file # 0 /\ Makes(ino[file], mem.owner)
    BY <1>1 DEF StudioInv, OwnedInv
  <2>2. (\E q \in Callers : Opened(jobs'[q])) => \E q \in Callers : Opened(jobs[q])
    BY <1>5, IdleIsAJob
  <2> QED  BY <1>1, <1>3, <2>1, <2>2 DEF StudioInv, OwnedInv
<1>7. OutputsInv'
  BY <1>1, <1>3 DEF StudioInv, OutputsInv
<1>8. minted' \in [token : Nat, session : Nat]
  BY <1>1 DEF StudioInv, StudioTypes
<1>9. StudioTypes'
  <2>1. \A s \in sessions' : s.user \in Candidates
    BY <1>1, <1>3 DEF StudioInv, StudioTypes
  <2> QED  BY <1>1, <1>3, <1>5, <1>8, <2>1 DEF StudioInv, StudioTypes
<1>10. DownInv'
  BY <1>1, <1>2 DEF DownInv
<1> QED  BY <1>5, <1>6, <1>7, <1>9, <1>10 DEF StudioInv

LEMMA RotationSavedKeeps ==
  ASSUME StudioInv, NEW r \in Callers, Studio!RotationSaved(r)
  PROVE  StudioInv'
<1>1. /\ jobs[r].at = "mode" /\ jobs[r].op = "rotate" /\ mem' = jobs[r].state
      /\ conns' = [c \in Sockets |-> 0]
      /\ jobs' = [jobs EXCEPT ![r] = Studio!Idle]
      /\ UNCHANGED <<running, busy, sessions, minted, tmp, file, ino, setupAnswered>>
  BY DEF Studio!RotationSaved, Studio!CloseOutputs, Studio!disk
<1>2. running = TRUE /\ SaveInv(jobs[r], mem, busy) /\ jobs[r] \in SaveJobs
  BY <1>1, RunningJob DEF StudioInv, JobsInv, StudioTypes
<1>3. mem'.owner = mem.owner /\ mem' \in StudioStates
  BY <1>1, <1>2 DEF SaveInv, Saving, SaveJobs
<1>4. Sets(r, Studio!Idle)
  BY <1>1, <1>3, IdleIsAJob DEF Sets, StudioInv, StudioTypes
<1>5. /\ jobs' \in [Callers -> SaveJobs] /\ JobsInv'
      /\ \A q \in Callers : jobs'[q] = IF q = r THEN Studio!Idle ELSE jobs[q]
  BY <1>4, JobSet DEF StudioInv
<1>6. OwnedInv'
  BY <1>1, <1>3, <1>5, DiskKept, IdleIsAJob DEF StudioInv, KeepsDisk
<1>7. OutputsInv'
  BY <1>1, <1>3 DEF StudioInv, OutputsInv
<1>8. StudioTypes'
  BY <1>1, <1>3, <1>5 DEF StudioInv, StudioTypes
<1>9. DownInv'
  BY <1>1, <1>2 DEF DownInv
<1> QED  BY <1>5, <1>6, <1>7, <1>8, <1>9 DEF StudioInv

LEMMA CrashKeepsOwner ==
  ASSUME StudioInv, Studio!Crash
  PROVE  StudioInv'
<1>1. /\ running' = FALSE /\ busy' = FALSE /\ sessions' = {}
      /\ jobs' = [r \in Callers |-> Studio!Idle] /\ conns' = [c \in Sockets |-> 0]
      /\ UNCHANGED <<mem, minted, tmp, file, ino, setupAnswered>>
  BY DEF Studio!Crash, Studio!disk
<1>2. StudioTypes'
  BY <1>1, IdleIsAJob DEF StudioInv, StudioTypes
<1>3. JobsInv' /\ DownInv' /\ OutputsInv'
  BY <1>1, IdleIsAJob DEF JobsInv, DownInv, OutputsInv
<1>4. OwnedInv'
  BY <1>1, IdleIsAJob DEF StudioInv, OwnedInv
<1> QED  BY <1>2, <1>3, <1>4 DEF StudioInv

LEMMA StartKeepsOwner ==
  ASSUME Studio!AuthAssumption, StudioInv, Studio!Start
  PROVE  StudioInv'
<1>1. PICK s \in Studio!States : Studio!Load(s, file', ino') /\ mem' = s
  BY DEF Studio!Start
<1>2. /\ ~running /\ running' = TRUE
      /\ UNCHANGED <<busy, sessions, minted, jobs, tmp, conns, setupAnswered>>
  BY DEF Studio!Start
<1>3. file' = file
  BY <1>1 DEF Studio!Load
<1>4. mem' \in StudioStates
  <2>1. s.output \in [token : Nat, show : Shows \cup {"none"}]
    BY <1>1 DEF Studio!States, Studio!Credentials, Studio!NoCredential, Studio!AuthAssumption
  <2> QED  BY <1>1, <2>1 DEF Studio!States, StudioStates
<1>5. ino' = [i \in Studio!Inodes |-> ino'[i]]
  <2>1. ino = [i \in Studio!Inodes |-> ino[i]]
    BY DEF StudioInv, StudioTypes
  <2>2. CASE ino' = ino
    BY <2>1, <2>2
  <2>3. CASE ino' = [ino EXCEPT ![file] = Studio!Saved(s)]
    BY <2>1, <2>3
  <2> QED  BY <1>1, <2>2, <2>3 DEF Studio!Load
<1>6. /\ ~busy /\ sessions = {} /\ \A c \in Sockets : conns[c] = 0
      /\ \A r \in Callers : jobs[r].op = "none" /\ jobs[r].at = "idle"
  BY <1>2 DEF StudioInv, DownInv, JobsInv, SaveInv, StudioTypes, SaveJobs
<1>7. OwnedInv'
  <2>1. ASSUME setupAnswered # Nobody
        PROVE  /\ file # 0 /\ s.owner = setupAnswered
               /\ Makes(ino'[file], setupAnswered)
    <3>1. file # 0 /\ Makes(ino[file], setupAnswered) /\ file \in Studio!Inodes
      BY <2>1 DEF StudioInv, StudioTypes, OwnedInv
    <3>2. /\ Studio!Loads(ino[file]) /\ s = Studio!Loaded(ino[file])
          /\ ino' = [ino EXCEPT ![file] = Studio!Saved(s)]
      BY <1>1, <3>1 DEF Studio!Load
    <3>3. s.owner = setupAnswered
      BY <3>1, <3>2 DEF Makes
    <3>4. ino'[file] = Studio!Saved(s)
      BY <3>1, <3>2 DEF StudioInv, StudioTypes
    <3>5. Makes(ino'[file], setupAnswered)
      BY <3>3, <3>4 DEF Makes, Studio!Loads, Studio!Loaded, Studio!Saved
    <3> QED  BY <3>1, <3>3, <3>5
  <2> QED  BY <1>1, <1>2, <1>3, <1>6, <2>1 DEF OwnedInv, Opened
<1>8. JobsInv'
  BY <1>2, <1>6 DEF JobsInv, SaveInv, Saving, Opened
<1>9. StudioTypes'
  BY <1>2, <1>3, <1>4, <1>5 DEF StudioInv, StudioTypes
<1>10. OutputsInv' /\ DownInv'
  BY <1>2, <1>6 DEF OutputsInv, DownInv
<1> QED  BY <1>7, <1>8, <1>9, <1>10 DEF StudioInv

\* The steps that move no request: what they leave, and what they change.
Apart ==
  /\ UNCHANGED <<running, mem, busy, jobs, tmp, file, ino, setupAnswered>>
  /\ minted' \in [token : Nat, session : Nat]
  /\ \A s \in sessions' : s \in sessions \/ (s.user = mem.owner /\ running /\ mem.owner # Nobody)
  /\ conns' = [c \in Sockets |-> conns'[c]]
  /\ \A c \in Sockets : conns'[c] \in {0, conns[c]} \/ (conns'[c] = mem.output.token /\ running)

LEMMA ApartKeeps ==
  ASSUME StudioInv, Apart
  PROVE  StudioInv'
<1>1. StudioTypes'
  <2>1. \A s \in sessions' : s.user \in Candidates
    BY DEF StudioInv, StudioTypes, StudioStates, Apart
  <2> QED  BY <2>1 DEF StudioInv, StudioTypes, Apart
<1>2. JobsInv'
  BY DEF StudioInv, JobsInv, Apart
<1>3. OwnedInv'
  BY DEF StudioInv, OwnedInv, Apart
<1>4. OutputsInv'
  BY DEF StudioInv, OutputsInv, Apart
<1>5. DownInv'
  <2>1. ~running => sessions' = {} /\ \A c \in Sockets : conns'[c] = 0
    BY DEF StudioInv, DownInv, Apart
  <2> QED  BY <2>1 DEF StudioInv, DownInv, Apart
<1> QED  BY <1>1, <1>2, <1>3, <1>4, <1>5 DEF StudioInv

LEMMA RestKeeps ==
  ASSUME StudioInv,
         \/ UNCHANGED Studio!vars
         \/ Studio!Login
         \/ \E s \in sessions : Studio!Logout(s) \/ Studio!SessionExpires(s) \/ Studio!ForgetExpired(s)
         \/ \E w \in Shows : Studio!ArchiveShow(w)
         \/ \E c \in Sockets : \/ Studio!OutputCloses(c)
                             \/ \E t \in 1 .. MaxTokens : Studio!AuthenticateOutput(c, t)
  PROVE  StudioInv'
<1>1. /\ minted \in [token : Nat, session : Nat] /\ conns = [c \in Sockets |-> conns[c]]
      /\ running \in BOOLEAN
  BY DEF StudioInv, StudioTypes
<1>2. CASE UNCHANGED Studio!vars
  <2>1. Apart
    BY <1>1, <1>2 DEF Apart, Studio!vars
  <2> QED  BY <2>1, ApartKeeps
<1>3. CASE Studio!Login
  <2>1. Apart
    BY <1>1, <1>3 DEF Apart, Studio!Login, Studio!CreateSession, Studio!disk
  <2> QED  BY <2>1, ApartKeeps
<1>4. CASE \E s \in sessions : Studio!Logout(s) \/ Studio!SessionExpires(s) \/ Studio!ForgetExpired(s)
  <2>1. Apart
    BY <1>1, <1>4 DEF Apart, Studio!Logout, Studio!SessionExpires, Studio!ForgetExpired, Studio!disk
  <2> QED  BY <2>1, ApartKeeps
<1>5. CASE \E w \in Shows : Studio!ArchiveShow(w)
  <2>1. Apart
    BY <1>1, <1>5 DEF Apart, Studio!ArchiveShow, Studio!disk
  <2> QED  BY <2>1, ApartKeeps
<1>6. ASSUME NEW c \in Sockets, Studio!OutputCloses(c) PROVE StudioInv'
  <2>1. conns' = [d \in Sockets |-> IF d = c THEN 0 ELSE conns[d]]
    BY <1>1, <1>6 DEF Studio!OutputCloses
  <2>2. Apart
    BY <1>1, <1>6, <2>1 DEF Apart, Studio!OutputCloses, Studio!disk
  <2> QED  BY <2>2, ApartKeeps
<1>7. ASSUME NEW c \in Sockets, NEW t \in 1 .. MaxTokens, Studio!AuthenticateOutput(c, t) PROVE StudioInv'
  <2>1. conns' = [d \in Sockets |-> IF d = c THEN t ELSE conns[d]]
    BY <1>1, <1>7 DEF Studio!AuthenticateOutput
  <2>2. Apart
    BY <1>1, <1>7, <2>1 DEF Apart, Studio!AuthenticateOutput, Studio!disk
  <2> QED  BY <2>2, ApartKeeps
<1> QED  BY <1>2, <1>3, <1>4, <1>5, <1>6, <1>7

LEMMA StudioSteps ==
  ASSUME Studio!AuthAssumption, StudioInv, [Studio!Next]_(Studio!vars)
  PROVE  StudioInv'
<1>1. ASSUME NEW r \in Callers, Studio!SaveStep(r) PROVE StudioInv'
  BY <1>1, SaveOpensKeeps, SaveWritesKeeps, SaveChmodsKeeps, SaveRenamesKeeps, SaveFailsKeeps,
     SetupSavedKeeps, RotationSavedKeeps DEF Studio!SaveStep
<1> QED  BY <1>1, StartKeepsOwner, CrashKeepsOwner, DerivedKeeps, RotateKeeps, SetupKeeps,
            RequestRotationKeeps, RestKeeps DEF Studio!Next

(* A running server knows the owner of every setup that was answered 201,  *)
(* every session is that owner's, and an open output connection holds the  *)
(* credential in force (StudioAuth.OwnerIsFinal): for any number of        *)
(* requests that overlap in one temporary file, of failing saves and of    *)
(* restarts.                                                               *)
THEOREM TheOwnerIsFinal == Studio!Spec => []OwnerIsFinal
<1>1. Studio!AuthAssumption
  BY AuthoritiesAssumption
<1>2. Studio!Init => StudioInv
  BY <1>1, StudioStarts
<1>3. StudioInv /\ [Studio!Next]_(Studio!vars) => StudioInv'
  BY <1>1, StudioSteps
<1>4. StudioInv => OwnerIsFinal
  BY DEF StudioInv, StudioTypes, OwnedInv, OutputsInv, DownInv, OwnerIsFinal, Studio!OwnerIsFinal
<1> QED  BY <1>2, <1>3, <1>4, PTL DEF Studio!Spec

(***************************************************************************)
(* The credential file.                                                    *)
(***************************************************************************)
CredentialRecords ==
  [gen : Nat, secret : Nat, revoked : BOOLEAN, issuedAt : Int, updatedAt : Int, expiresAt : Int]
TableOperations == {"issue", "rotate", "revoke"}
CredentialEvents == [id : Ids, kind : TableOperations, gen : Nat]
Documents == {"absent", "original", "other", "damaged"}

CredentialFiles ==
  [version : {0, 4, 5}, migration : {"unset", "none", "original", "other"},
   table : [Ids -> CredentialRecords], key : {0, 1}, events : Seq(CredentialEvents)]
StoreProcesses ==
  [phase : {"down", "opened", "committed", "up"}, raw : Documents, key : {0, 1},
   op : TableOperations \cup {"none"}, id : Ids \cup {Store!Down.id},
   before : CredentialRecords, secret : Nat]

StoreTypes ==
  /\ db \in CredentialFiles
  /\ legacy \in Documents /\ touched \in BOOLEAN
  /\ proc \in StoreProcesses
  /\ wallClock \in Int /\ shown \in Nat

(* What an import and a signing identity leave in the file, and what the   *)
(* legacy file is while nobody else writes it.                             *)
CredentialFileInv ==
  /\ db.key = 0 => db.version < 5
  /\ db.migration = "unset" => db.table = Store!EmptyTable
  /\ \A i \in Ids : db.table[i].gen = 0 => db.table[i] = Store!NoRecord
  /\ proc.phase \in {"committed", "up"} => db.migration # "unset" /\ db.key # 0
  /\ proc.phase = "opened" => proc.raw = legacy
  /\ ~touched => \/ legacy = "absent"
                 \/ legacy = "original" /\ db.migration \in {"unset", "original"}

(* The operation under way still has what it read.                         *)
OperationUnderWay ==
  proc.op # "none" =>
    /\ proc.phase = "up" /\ proc.id \in Ids /\ proc.before = db.table[proc.id]
    /\ proc.op = "issue" => proc.before = Store!NoRecord
    /\ proc.op = "rotate" => ~proc.before.revoked /\ proc.before.gen > 0
    /\ proc.op = "revoke" => proc.before.gen > 0

(* No event is of the future, and later events of a credential are of      *)
(* later generations.                                                      *)
LogInv ==
  /\ \A i, j \in 1 .. Len(db.events) :
       i < j /\ db.events[i].id = db.events[j].id => db.events[i].gen < db.events[j].gen
  /\ \A i \in 1 .. Len(db.events) :
       /\ db.events[i].gen <= db.table[db.events[i].id].gen
       /\ db.events[i].kind = "revoke" => db.table[db.events[i].id].revoked

StoreInv == StoreTypes /\ CredentialFileInv /\ OperationUnderWay /\ LogInv

\* What may become of the table: no credential is taken back.
Forward ==
  \A i \in Ids :
    /\ db'.table[i].gen >= db.table[i].gen
    /\ db'.table[i].gen = db.table[i].gen => db'.table[i] = db.table[i]
    /\ db.table[i].revoked => db'.table[i] = db.table[i]

LEMMA NoRecordIsOne ==
  /\ Store!NoRecord \in CredentialRecords /\ Store!NoRecord.gen = 0
  /\ Store!NoRecord.revoked = FALSE /\ Store!NoRecord.updatedAt = 0
  BY DEF Store!NoRecord, CredentialRecords

LEMMA NewRecordIsOne ==
  ASSUME Store!StoreAssumption, NEW s \in Nat, NEW t \in Int
  PROVE  /\ Store!NewRecord(s, t) \in CredentialRecords
         /\ Store!NewRecord(s, t).gen = 1 /\ Store!NewRecord(s, t).revoked = FALSE
  BY DEF Store!NewRecord, CredentialRecords, Store!StoreAssumption

LEMMA LegacyTable ==
  ASSUME Store!StoreAssumption, NEW doc
  PROVE  /\ Store!LegacyRecords(doc) \in [Ids -> CredentialRecords]
         /\ \A i \in Ids : /\ Store!LegacyRecords(doc)[i].revoked = FALSE
                           /\ \/ Store!LegacyRecords(doc)[i].gen = 1
                              \/ Store!LegacyRecords(doc)[i] = Store!NoRecord
<1> DEFINE n == IF doc = "original" THEN 1 ELSE 2
           new == Store!NewRecord(n, 0)
<1>1. new \in CredentialRecords /\ new.gen = 1 /\ new.revoked = FALSE
  <2>1. n \in Nat
    OBVIOUS
  <2> HIDE DEF n
  <2> QED  BY <2>1 DEF Store!NewRecord, CredentialRecords, Store!StoreAssumption
<1>2. Store!LegacyRecords(doc) = [i \in Ids |-> IF i \in LegacyIds THEN new ELSE Store!NoRecord]
  BY DEF Store!LegacyRecords
<1> HIDE DEF n, new
<1> QED  BY <1>1, <1>2, NoRecordIsOne

LEMMA DownIsDown ==
  /\ Store!Down \in StoreProcesses
  /\ Store!Down.phase = "down" /\ Store!Down.op = "none"
<1>1. PICK i : i = CHOOSE j \in Ids : TRUE
  OBVIOUS
<1>2. Store!Down = [phase |-> "down", raw |-> "absent", key |-> 0, op |-> "none",
                    id |-> i, before |-> Store!NoRecord, secret |-> 0]
  BY <1>1 DEF Store!Down
<1>3. i \in Ids \cup {Store!Down.id}
  BY <1>2
<1> QED  BY <1>2, <1>3, NoRecordIsOne DEF Documents, StoreProcesses

LEMMA StoreStarts ==
  ASSUME Store!StoreAssumption, Store!Init
  PROVE  StoreInv
<1>1. Store!EmptyTable \in [Ids -> CredentialRecords] /\ \A i \in Ids : Store!EmptyTable[i] = Store!NoRecord
  BY NoRecordIsOne DEF Store!EmptyTable
<1>2. /\ touched = FALSE /\ proc = Store!Down /\ wallClock = 0 /\ shown = 2
      /\ legacy \in {"absent", "original"} /\ legacy \in Documents
  BY DEF Store!Init, Documents
<1>3. CASE db = [version |-> 0, migration |-> "unset", table |-> Store!EmptyTable, key |-> 0, events |-> <<>>]
  <2>1. StoreTypes
    <3>1. db \in CredentialFiles
      BY <1>1, <1>3 DEF CredentialFiles
    <3>2. proc \in StoreProcesses
      BY <1>2, DownIsDown
    <3>3. touched \in BOOLEAN
      BY <1>2
    <3>4. wallClock \in Int /\ shown \in Nat
      BY <1>2
    <3> QED  BY <1>2, <3>1, <3>2, <3>3, <3>4 DEF StoreTypes
  <2>2. CredentialFileInv
    BY <1>1, <1>2, <1>3, DownIsDown DEF CredentialFileInv
  <2> QED  BY <1>2, <1>3, <2>1, <2>2, DownIsDown DEF StoreInv, OperationUnderWay, LogInv
<1>4. CASE /\ db = [version |-> 4, migration |-> "none", table |-> Store!LegacyRecords("original"),
                    key |-> 0, events |-> <<>>]
           /\ legacy = "absent"
  <2> DEFINE t == Store!LegacyRecords("original")
  <2>0. /\ t \in [Ids -> CredentialRecords]
        /\ \A i \in Ids : t[i].gen = 1 \/ t[i] = Store!NoRecord
    BY LegacyTable
  <2>1. StoreTypes
    <3> HIDE DEF t
    <3>1. db \in CredentialFiles
      BY <1>4, <2>0 DEF t, CredentialFiles
    <3>2. proc \in StoreProcesses
      BY <1>2, DownIsDown
    <3>3. touched \in BOOLEAN
      BY <1>2
    <3>4. wallClock \in Int /\ shown \in Nat
      BY <1>2
    <3> QED  BY <1>2, <3>1, <3>2, <3>3, <3>4 DEF StoreTypes
  <2>2. CredentialFileInv
    <3>1. db.table = t
      BY <1>4
    <3> HIDE DEF t
    <3> QED  BY <1>2, <1>4, <2>0, <3>1, DownIsDown DEF CredentialFileInv
  <2> QED  BY <1>2, <1>4, <2>1, <2>2, DownIsDown DEF StoreInv, OperationUnderWay, LogInv
<1> QED  BY <1>3, <1>4 DEF Store!Init

\* A table that takes nobody back keeps the log true.
LEMMA LogKept ==
  ASSUME StoreTypes, LogInv, Forward, StoreTypes', db'.events = db.events
  PROVE  LogInv'
<1> DEFINE es == db.events
<1>1. es \in Seq(CredentialEvents)
  BY DEF StoreTypes, CredentialFiles
<1>2. \A i \in 1 .. Len(es) : es[i].id \in Ids /\ es[i].gen \in Nat
  <2>1. \A i \in 1 .. Len(es) : es[i] \in CredentialEvents
    BY <1>1
  <2> QED  BY <2>1 DEF CredentialEvents
<1>3. \A i \in Ids : /\ db.table[i].gen \in Nat /\ db'.table[i].gen \in Nat
                     /\ db.table[i].revoked => db'.table[i].revoked
  BY DEF StoreTypes, CredentialFiles, CredentialRecords, Forward
<1>4. ASSUME NEW i \in 1 .. Len(es)
      PROVE  /\ es[i].gen <= db'.table[es[i].id].gen
             /\ es[i].kind = "revoke" => db'.table[es[i].id].revoked
  <2>1. /\ es[i].gen <= db.table[es[i].id].gen
        /\ es[i].kind = "revoke" => db.table[es[i].id].revoked
    BY DEF LogInv
  <2>2. db'.table[es[i].id].gen >= db.table[es[i].id].gen
    BY <1>2 DEF Forward
  <2> QED  BY <1>2, <1>3, <2>1, <2>2
<1> QED  BY <1>4 DEF LogInv

LEMMA SchemaKeeps ==
  ASSUME Store!StoreAssumption, StoreInv, Store!InitializeSchema
  PROVE  StoreInv' /\ Forward /\ (db.key # 0 => db'.key = db.key)
<1>1. /\ proc.phase = "opened" /\ Store!SchemaAdmits(db, proc.raw)
      /\ UNCHANGED <<legacy, touched, wallClock, shown>>
  BY DEF Store!InitializeSchema
<1>2. PICK g : g = Store!Imported(db, proc.raw)
  OBVIOUS
<1>3. PICK h : h = Store!SigningIdentity(g)
  OBVIOUS
<1>4. /\ db' = [h EXCEPT !.version = 5]
      /\ proc' = [proc EXCEPT !.phase = IF proc.raw = "absent" THEN "up" ELSE "committed", !.key = db'.key]
  BY <1>2, <1>3 DEF Store!InitializeSchema, Store!SchemaVersion
<1>5. StoreTypes /\ CredentialFileInv /\ OperationUnderWay /\ LogInv
  BY DEF StoreInv
<1>6. /\ g \in CredentialFiles /\ g.migration # "unset"
      /\ g.events = db.events /\ g.key = db.key
      /\ g.migration = IF db.migration # "unset" THEN db.migration
                       ELSE IF proc.raw = "absent" THEN "none" ELSE proc.raw
      /\ \/ g.table = db.table
         \/ db.table = Store!EmptyTable /\ g.table = Store!LegacyRecords(proc.raw)
  <2>1. CASE db.migration # "unset"
    BY <1>2, <1>5, <2>1 DEF Store!Imported, StoreTypes, CredentialFiles
  <2>2. CASE db.migration = "unset" /\ proc.raw = "absent"
    BY <1>2, <1>5, <2>2 DEF Store!Imported, StoreTypes, CredentialFiles
  <2>3. CASE db.migration = "unset" /\ proc.raw # "absent"
    <3>1. proc.raw \in {"original", "other"} /\ db.table = Store!EmptyTable
      BY <1>1, <2>3 DEF Store!SchemaAdmits, Store!Parses
    <3>2. PICK t \in [Ids -> CredentialRecords] : t = Store!LegacyRecords(proc.raw)
      BY LegacyTable
    <3>3. g = [db EXCEPT !.table = t, !.migration = proc.raw]
      BY <1>2, <2>3, <3>2 DEF Store!Imported
    <3> QED  BY <1>5, <2>3, <3>1, <3>2, <3>3 DEF StoreTypes, CredentialFiles
  <2> QED  BY <2>1, <2>2, <2>3
<1>7. /\ db' \in CredentialFiles /\ db'.migration # "unset"
      /\ db'.events = db.events /\ db'.migration = g.migration /\ db'.table = g.table
      /\ db'.key = 1 /\ (db.key # 0 => db'.key = db.key)
  <2>1. CASE g.key = 0
    BY <1>3, <1>4, <1>6, <2>1 DEF Store!SigningIdentity, CredentialFiles
  <2>2. CASE g.key # 0
    BY <1>3, <1>4, <1>6, <2>2 DEF Store!SigningIdentity, CredentialFiles
  <2> QED  BY <2>1, <2>2
<1>8. Forward
  <2>1. CASE g.table = db.table
    BY <1>5, <1>7, <2>1 DEF Forward, StoreTypes, CredentialFiles, CredentialRecords
  <2>2. CASE db.table = Store!EmptyTable /\ g.table = Store!LegacyRecords(proc.raw)
    <3>1. \A i \in Ids : db.table[i] = Store!NoRecord
      BY <2>2 DEF Store!EmptyTable
    <3>2. \A i \in Ids : g.table[i].revoked = FALSE /\ (g.table[i].gen = 1 \/ g.table[i] = Store!NoRecord)
      BY <2>2, LegacyTable
    <3> QED  BY <1>7, <3>1, <3>2, NoRecordIsOne DEF Forward
  <2> QED  BY <1>6, <2>1, <2>2
<1>9. /\ proc' \in StoreProcesses
      /\ proc'.op = proc.op /\ proc'.phase \in {"committed", "up"}
  BY <1>4, <1>5, <1>7 DEF StoreTypes, CredentialFiles, StoreProcesses
<1>10. StoreTypes'
  BY <1>1, <1>5, <1>7, <1>9 DEF StoreTypes
<1>11. proc.op = "none"
  BY <1>1, <1>5 DEF OperationUnderWay
<1>12. LogInv'
  BY <1>5, <1>7, <1>8, <1>10, LogKept
<1>13. \A i \in Ids : db'.table[i].gen = 0 => db'.table[i] = Store!NoRecord
  <2>1. CASE g.table = db.table
    BY <1>5, <1>7, <2>1 DEF CredentialFileInv
  <2>2. CASE g.table = Store!LegacyRecords(proc.raw)
    <3>1. \A i \in Ids : g.table[i].gen = 1 \/ g.table[i] = Store!NoRecord
      BY <2>2, LegacyTable
    <3> QED  BY <1>7, <3>1
  <2> QED  BY <1>6, <2>1, <2>2
<1>14. ~touched => \/ legacy = "absent"
                   \/ legacy = "original" /\ db'.migration \in {"unset", "original"}
  BY <1>1, <1>5, <1>6, <1>7 DEF CredentialFileInv
<1>15. CredentialFileInv'
  BY <1>1, <1>7, <1>9, <1>13, <1>14 DEF CredentialFileInv
<1> QED  BY <1>7, <1>8, <1>9, <1>10, <1>11, <1>12, <1>15 DEF StoreInv, OperationUnderWay

\* The steps that leave the file alone.
Steady == StoreInv' /\ db' = db

LEMMA IdleProcess ==
  ASSUME StoreInv, proc' = Store!Down, db' = db, UNCHANGED <<legacy, touched, shown>>,
         wallClock' \in Int
  PROVE  Steady
<1>1. proc' \in StoreProcesses /\ proc'.op = "none" /\ proc'.phase = "down"
  BY DownIsDown
<1>2. StoreTypes'
  BY <1>1 DEF StoreInv, StoreTypes
<1>3. CredentialFileInv'
  BY <1>1 DEF StoreInv, CredentialFileInv
<1>4. OperationUnderWay' /\ LogInv'
  BY <1>1 DEF StoreInv, OperationUnderWay, LogInv
<1> QED  BY <1>2, <1>3, <1>4 DEF Steady, StoreInv

LEMMA BeginKeeps ==
  ASSUME StoreInv, Store!Begin
  PROVE  Steady
<1>1. /\ proc.phase = "down" /\ proc' = [proc EXCEPT !.phase = "opened", !.raw = legacy]
      /\ UNCHANGED <<db, legacy, touched, wallClock, shown>>
  BY DEF Store!Begin
<1>2. /\ proc' \in StoreProcesses /\ proc'.phase = "opened" /\ proc'.raw = legacy
      /\ proc'.op = "none"
  BY <1>1 DEF StoreInv, StoreTypes, StoreProcesses, OperationUnderWay
<1>3. StoreTypes'
  BY <1>1, <1>2 DEF StoreInv, StoreTypes
<1>4. CredentialFileInv'
  BY <1>1, <1>2 DEF StoreInv, CredentialFileInv
<1>5. OperationUnderWay' /\ LogInv'
  BY <1>1, <1>2 DEF StoreInv, OperationUnderWay, LogInv
<1> QED  BY <1>1, <1>3, <1>4, <1>5 DEF Steady, StoreInv

LEMMA LegacyFileKeeps ==
  ASSUME StoreInv, Store!ArchiveLegacy \/ Store!LegacyAppears \/ Store!LegacyRemoved \/ Store!SetClock
  PROVE  Steady
<1>1. /\ db' = db /\ shown' = shown
      /\ wallClock' \in Int
      /\ proc' = proc \/ (proc.phase = "committed" /\ proc' = [proc EXCEPT !.phase = "up"])
  BY DEF Store!ArchiveLegacy, Store!LegacyAppears, Store!LegacyRemoved, Store!SetClock,
         StoreInv, StoreTypes
<1>2. touched' \in BOOLEAN /\ (touched => touched')
  BY DEF Store!ArchiveLegacy, Store!LegacyAppears, Store!LegacyRemoved, Store!SetClock,
         StoreInv, StoreTypes
<1>3. /\ legacy' \in Documents
      /\ legacy' \in {legacy, "absent"} \/ touched'
      /\ legacy' = legacy \/ proc'.phase # "opened"
  <2>1. CASE Store!ArchiveLegacy
    BY <2>1 DEF Store!ArchiveLegacy, Documents, StoreInv, StoreTypes, StoreProcesses
  <2>2. CASE Store!LegacyAppears
    BY <2>2 DEF Store!LegacyAppears, Documents, StoreInv, StoreTypes, StoreProcesses
  <2>3. CASE Store!LegacyRemoved
    BY <2>3 DEF Store!LegacyRemoved, Documents, StoreInv, StoreTypes, StoreProcesses
  <2>4. CASE Store!SetClock
    BY <2>4 DEF Store!SetClock, StoreInv, StoreTypes
  <2> QED  BY <2>1, <2>2, <2>3, <2>4
<1>4. /\ proc' \in StoreProcesses /\ proc'.op = proc.op /\ proc'.raw = proc.raw
      /\ proc'.id = proc.id /\ proc'.before = proc.before
      /\ proc'.phase = proc.phase \/ (proc.phase = "committed" /\ proc'.phase = "up")
  BY <1>1 DEF StoreInv, StoreTypes, StoreProcesses
<1>5. StoreTypes'
  BY <1>1, <1>2, <1>3, <1>4 DEF StoreInv, StoreTypes
<1>6. CredentialFileInv'
  <2>1. proc'.phase = "opened" => proc'.raw = legacy'
    BY <1>3, <1>4 DEF StoreInv, CredentialFileInv
  <2>2. proc'.phase \in {"committed", "up"} => db.migration # "unset" /\ db.key # 0
    BY <1>4 DEF StoreInv, CredentialFileInv
  <2>3. ~touched' => \/ legacy' = "absent"
                     \/ legacy' = "original" /\ db.migration \in {"unset", "original"}
    BY <1>2, <1>3 DEF StoreInv, CredentialFileInv
  <2> QED  BY <1>1, <2>1, <2>2, <2>3 DEF StoreInv, CredentialFileInv
<1>7. OperationUnderWay' /\ LogInv'
  BY <1>1, <1>4 DEF StoreInv, OperationUnderWay, LogInv
<1> QED  BY <1>1, <1>5, <1>6, <1>7 DEF Steady, StoreInv

LEMMA OperationStarts ==
  ASSUME StoreInv, Store!Issue \/ Store!Rotate \/ Store!Revoke
  PROVE  Steady
<1>1. PICK i \in Ids, kind \in TableOperations :
        /\ Store!Start(kind, i)
        /\ kind = "issue" => db.table[i] = Store!NoRecord
        /\ kind = "rotate" => Store!Effective(db.table[i])
        /\ kind = "revoke" => db.table[i] # Store!NoRecord
  BY DEF Store!Issue, Store!Rotate, Store!Revoke, TableOperations
<1>2. PICK r : r = db.table[i]
  OBVIOUS
<1>3. r \in CredentialRecords /\ shown \in Nat /\ wallClock \in Int
  BY <1>2 DEF StoreInv, StoreTypes, CredentialFiles
<1>4. PICK n \in Nat : n = shown + 1
  BY <1>3
<1>5. /\ proc.phase = "up" /\ shown' = n
      /\ proc' = [proc EXCEPT !.op = kind, !.id = i, !.before = r, !.secret = n]
      /\ UNCHANGED <<db, legacy, touched, wallClock>>
  BY <1>1, <1>2, <1>4 DEF Store!Start, Store!Idle
<1>6. /\ proc' \in StoreProcesses /\ proc'.phase = "up" /\ proc'.op = kind /\ proc'.id = i
      /\ proc'.before = r
  <2>1. proc \in StoreProcesses
    BY DEF StoreInv, StoreTypes
  <2> QED  BY <1>3, <1>5, <2>1 DEF StoreProcesses
<1>7. shown' \in Nat
  BY <1>5
<1>8. StoreTypes'
  BY <1>5, <1>6, <1>7 DEF StoreInv, StoreTypes
<1>9. CredentialFileInv'
  BY <1>5, <1>6 DEF StoreInv, CredentialFileInv
<1>10. /\ kind = "issue" => r = Store!NoRecord
       /\ kind = "rotate" => ~r.revoked /\ r.gen > 0
       /\ kind = "revoke" => r.gen > 0
  <2>1. r.gen = 0 => r = Store!NoRecord
    BY <1>2 DEF StoreInv, CredentialFileInv
  <2> QED  BY <1>1, <1>2, <1>3, <2>1 DEF Store!Effective, CredentialRecords
<1>11. OperationUnderWay' /\ LogInv'
  BY <1>2, <1>5, <1>6, <1>10 DEF StoreInv, OperationUnderWay, LogInv
<1> QED  BY <1>5, <1>8, <1>9, <1>11 DEF Steady, StoreInv

LEMMA DoneKeeps ==
  ASSUME StoreInv, proc' = Store!Done
  PROVE  proc' \in StoreProcesses /\ proc'.op = "none" /\ proc'.phase = proc.phase /\ proc'.raw = proc.raw
BY NoRecordIsOne DEF Store!Done, StoreInv, StoreTypes, StoreProcesses

LEMMA WriteFailsKeeps ==
  ASSUME StoreInv, Store!WriteFails
  PROVE  Steady
<1>1. proc' = Store!Done /\ UNCHANGED <<db, legacy, touched, wallClock, shown>>
  BY DEF Store!WriteFails
<1>2. /\ proc' \in StoreProcesses /\ proc'.op = "none" /\ proc'.phase = proc.phase
      /\ proc'.raw = proc.raw
  BY <1>1, DoneKeeps
<1>3. StoreTypes'
  BY <1>1, <1>2 DEF StoreInv, StoreTypes
<1>4. CredentialFileInv'
  BY <1>1, <1>2 DEF StoreInv, CredentialFileInv
<1>5. OperationUnderWay' /\ LogInv'
  BY <1>1, <1>2 DEF StoreInv, OperationUnderWay, LogInv
<1> QED  BY <1>1, <1>3, <1>4, <1>5 DEF Steady, StoreInv

LEMMA CredentialWriteKeeps ==
  ASSUME Store!StoreAssumption, StoreInv, Store!Write
  PROVE  StoreInv' /\ Forward /\ db'.key = db.key
<1>1. PICK r : r = IF Store!Unchanged THEN proc.before ELSE Store!NextRecord
  OBVIOUS
<1>2. PICK log \in Store!RecordLifecycleEvent(r) :
        db' = [db EXCEPT !.table[proc.id] = r, !.events = log]
  BY <1>1 DEF Store!Write
<1>3. /\ proc.op # "none" /\ proc' = Store!Done
      /\ UNCHANGED <<legacy, touched, wallClock, shown>>
  BY DEF Store!Write
<1>4. /\ proc.phase = "up" /\ proc.id \in Ids /\ proc.before = db.table[proc.id]
      /\ proc.op = "issue" => proc.before = Store!NoRecord
      /\ proc.op = "rotate" => ~proc.before.revoked /\ proc.before.gen > 0
      /\ proc.op = "revoke" => proc.before.gen > 0
  BY <1>3 DEF StoreInv, OperationUnderWay
<1>5. /\ proc.before \in CredentialRecords /\ proc.secret \in Nat /\ wallClock \in Int
      /\ proc.op \in TableOperations
  BY <1>3 DEF StoreInv, StoreTypes, StoreProcesses
<1>6. PICK b \in CredentialRecords : b = proc.before
  BY <1>5
<1>7. /\ r \in CredentialRecords /\ (r.gen = 0 => r = Store!NoRecord)
      /\ b.revoked => r = b
      /\ IF Store!Unchanged THEN r = b
         ELSE r.gen = b.gen + 1 /\ (proc.op = "revoke" => r.revoked)
  <2>1. CASE Store!Unchanged
    BY <1>1, <1>4, <1>6, <2>1 DEF CredentialRecords, Store!Unchanged
  <2>2. CASE ~Store!Unchanged /\ proc.op = "issue"
    <3>1. r = Store!NewRecord(proc.secret, wallClock)
      BY <1>1, <2>2 DEF Store!NextRecord
    <3>2. r \in CredentialRecords /\ r.gen = 1 /\ r.revoked = FALSE
      BY <1>5, <3>1 DEF Store!NewRecord, CredentialRecords, Store!StoreAssumption
    <3> QED  BY <1>4, <1>6, <2>2, <3>2, NoRecordIsOne
  <2>3. CASE ~Store!Unchanged /\ proc.op = "rotate"
    <3>1. PICK g \in Nat : g = b.gen + 1
      BY DEF CredentialRecords
    <3>2. r = [b EXCEPT !.gen = g, !.secret = proc.secret, !.updatedAt = wallClock]
      BY <1>1, <1>6, <2>3, <3>1 DEF Store!NextRecord
    <3>3. r \in CredentialRecords /\ r.gen = g
      BY <1>5, <3>2 DEF CredentialRecords
    <3>4. g # 0
      BY <3>1 DEF CredentialRecords
    <3> QED  BY <1>4, <1>6, <2>3, <3>1, <3>3, <3>4
  <2>4. CASE ~Store!Unchanged /\ proc.op = "revoke"
    <3>1. PICK g \in Nat : g = b.gen + 1
      BY DEF CredentialRecords
    <3>2. r = [b EXCEPT !.gen = g, !.revoked = TRUE, !.updatedAt = wallClock]
      BY <1>1, <1>6, <2>4, <3>1 DEF Store!NextRecord
    <3>3. r \in CredentialRecords /\ r.gen = g /\ r.revoked = TRUE
      BY <1>5, <3>2 DEF CredentialRecords
    <3>4. g # 0
      BY <3>1 DEF CredentialRecords
    <3>5. ~b.revoked
      BY <1>6, <2>4 DEF Store!Unchanged
    <3> QED  BY <2>4, <3>1, <3>3, <3>4, <3>5
  <2> QED  BY <1>5, <2>1, <2>2, <2>3, <2>4 DEF TableOperations
<1>8. db.table \in [Ids -> CredentialRecords] /\ db.events \in Seq(CredentialEvents) /\ db \in CredentialFiles
  BY DEF StoreInv, StoreTypes, CredentialFiles
<1>9. PICK t : t = [db.table EXCEPT ![proc.id] = r]
  OBVIOUS
<1>10. t \in [Ids -> CredentialRecords] /\ \A i \in Ids : t[i] = IF i = proc.id THEN r ELSE db.table[i]
  BY <1>7, <1>8, <1>9
<1>11. \/ log = db.events
       \/ ~Store!Unchanged /\ log = Append(db.events, [id |-> proc.id, kind |-> proc.op, gen |-> r.gen])
  BY DEF Store!RecordLifecycleEvent, Store!Event
<1>12. log \in Seq(CredentialEvents)
  <2>1. [id |-> proc.id, kind |-> proc.op, gen |-> r.gen] \in CredentialEvents
    BY <1>4, <1>5, <1>7 DEF CredentialEvents, CredentialRecords
  <2> QED  BY <1>8, <1>11, <2>1
<1>13. /\ db' \in CredentialFiles /\ db'.table = t /\ db'.events = log /\ db'.key = db.key
       /\ db'.migration = db.migration /\ db'.version = db.version
  <2>1. db' = [db EXCEPT !.table = t, !.events = log]
    BY <1>2, <1>8, <1>9 DEF CredentialFiles
  <2> QED  BY <1>8, <1>10, <1>12, <2>1 DEF CredentialFiles
<1>14. Forward
  <2>1. \A i \in Ids : t[i].gen \in Nat /\ db.table[i].gen \in Nat
    BY <1>8, <1>10 DEF CredentialRecords
  <2>2. r.gen >= b.gen /\ (r.gen = b.gen => r = b) /\ (b.revoked => r = b)
    BY <1>7 DEF CredentialRecords
  <2> QED  BY <1>4, <1>6, <1>10, <1>13, <2>1, <2>2 DEF Forward
<1>15. /\ proc' \in StoreProcesses /\ proc'.op = "none" /\ proc'.phase = "up"
  BY <1>3, <1>4, DoneKeeps
<1>16. StoreTypes'
  BY <1>3, <1>13, <1>15 DEF StoreInv, StoreTypes
<1>17. CredentialFileInv'
  <2>1. \A i \in Ids : t[i].gen = 0 => t[i] = Store!NoRecord
    BY <1>7, <1>10 DEF StoreInv, CredentialFileInv
  <2>2. db.migration # "unset"
    BY <1>4 DEF StoreInv, CredentialFileInv
  <2> QED  BY <1>3, <1>4, <1>13, <1>15, <2>1, <2>2 DEF StoreInv, CredentialFileInv
<1>18. LogInv'
  <2>1. CASE log = db.events
    BY <1>13, <1>14, <1>16, <2>1, LogKept DEF StoreInv
  <2>2. CASE ~Store!Unchanged /\ log = Append(db.events, [id |-> proc.id, kind |-> proc.op, gen |-> r.gen])
    <3> DEFINE es == db.events
    <3>1. PICK e : e = [id |-> proc.id, kind |-> proc.op, gen |-> r.gen]
      OBVIOUS
    <3>2. /\ Len(log) = Len(es) + 1 /\ Len(es) \in Nat
          /\ \A i \in 1 .. Len(es) : log[i] = es[i] /\ es[i] \in CredentialEvents
          /\ log[Len(es) + 1] = e
      BY <1>8, <2>2, <3>1
    <3>3. e.id = proc.id /\ e.gen = b.gen + 1 /\ e.gen = r.gen /\ (e.kind = "revoke" => r.revoked)
      BY <1>7, <2>2, <3>1
    <3> HIDE DEF es
    <3>4. \A i \in 1 .. Len(es) : es[i].id \in Ids /\ es[i].gen \in Nat
      BY <3>2 DEF CredentialEvents
    <3>5. \A i \in 1 .. Len(es) : es[i].gen <= db.table[es[i].id].gen
      BY DEF es, StoreInv, LogInv
    <3>6. \A i \in 1 .. Len(es) : es[i].kind = "revoke" => db.table[es[i].id].revoked
      BY DEF es, StoreInv, LogInv
    <3>7. e.gen <= t[e.id].gen /\ (e.kind = "revoke" => t[e.id].revoked)
      BY <1>4, <1>7, <1>10, <3>3 DEF CredentialRecords
    <3>8. \A i \in 1 .. Len(es) : es[i].id = e.id => es[i].gen < e.gen
      <4> SUFFICES ASSUME NEW i \in 1 .. Len(es), es[i].id = e.id PROVE es[i].gen < e.gen
        OBVIOUS
      <4>1. db.table[es[i].id] = b
        BY <1>4, <1>6, <3>3
      <4>2. PICK x \in Nat, y \in Nat : x = es[i].gen /\ y = b.gen
        BY <3>4 DEF CredentialRecords
      <4>3. x <= y
        BY <3>5, <4>1, <4>2
      <4> QED  BY <3>3, <4>2, <4>3
    <3>9. \A i, j \in 1 .. Len(es) : i < j /\ es[i].id = es[j].id => es[i].gen < es[j].gen
      BY DEF es, StoreInv, LogInv
    <3>10. \A i, j \in 1 .. Len(log) : i < j /\ log[i].id = log[j].id => log[i].gen < log[j].gen
      <4> SUFFICES ASSUME NEW i \in 1 .. Len(log), NEW j \in 1 .. Len(log), i < j, log[i].id = log[j].id
                   PROVE  log[i].gen < log[j].gen
        OBVIOUS
      <4>1. i \in 1 .. Len(es)
        BY <3>2
      <4>2. CASE j = Len(es) + 1
        BY <3>2, <3>8, <4>1, <4>2
      <4>3. CASE j # Len(es) + 1
        <5>1. j \in 1 .. Len(es)
          BY <3>2, <4>3
        <5> QED  BY <3>2, <3>9, <4>1, <5>1
      <4> QED  BY <4>2, <4>3
    <3>11. \A i \in 1 .. Len(log) : log[i].gen <= t[log[i].id].gen
      <4> TAKE i \in 1 .. Len(log)
      <4>1. CASE i = Len(es) + 1
        BY <3>2, <3>7, <4>1
      <4>2. CASE i # Len(es) + 1
        <5>1. i \in 1 .. Len(es) /\ log[i] = es[i]
          BY <3>2, <4>2
        <5>2. PICK x \in Nat, y \in Nat, z \in Nat :
                 x = es[i].gen /\ y = db.table[es[i].id].gen /\ z = t[es[i].id].gen
          BY <1>8, <1>10, <3>4, <5>1 DEF CredentialRecords
        <5>3. x <= y
          BY <3>5, <5>1, <5>2
        <5>4. y <= z
          BY <1>13, <1>14, <3>4, <5>1, <5>2 DEF Forward
        <5> QED  BY <5>1, <5>2, <5>3, <5>4
      <4> QED  BY <4>1, <4>2
    <3>12. \A i \in 1 .. Len(log) : log[i].kind = "revoke" => t[log[i].id].revoked
      <4> TAKE i \in 1 .. Len(log)
      <4>1. CASE i = Len(es) + 1
        BY <3>2, <3>7, <4>1
      <4>2. CASE i # Len(es) + 1
        <5>1. i \in 1 .. Len(es) /\ log[i] = es[i]
          BY <3>2, <4>2
        <5>2. db.table[es[i].id].revoked => t[es[i].id] = db.table[es[i].id]
          BY <1>13, <1>14, <3>4, <5>1 DEF Forward
        <5> QED  BY <3>6, <5>1, <5>2
      <4> QED  BY <4>1, <4>2
    <3>13. db'.events = log /\ db'.table = t
      BY <1>13
    <3> QED  BY <3>10, <3>11, <3>12, <3>13 DEF LogInv
  <2> QED  BY <1>11, <2>1, <2>2
<1> QED  BY <1>13, <1>14, <1>15, <1>16, <1>17, <1>18 DEF StoreInv, OperationUnderWay

LEMMA StoreSteps ==
  ASSUME Store!StoreAssumption, StoreInv, [Store!Next]_(Store!vars)
  PROVE  StoreInv' /\ (Forward \/ db' = db) /\ (db.key # 0 => db'.key = db.key)
<1>1. CASE UNCHANGED Store!vars
  BY <1>1 DEF Store!vars, StoreInv, StoreTypes, CredentialFileInv, OperationUnderWay, LogInv
<1>2. CASE Store!InitFails \/ Store!ArchiveFails \/ Store!Crash
  <2>1. /\ proc' = Store!Down /\ db' = db /\ UNCHANGED <<legacy, touched, shown, wallClock>>
    BY <1>2 DEF Store!InitFails, Store!ArchiveFails, Store!Crash
  <2>2. wallClock' \in Int
    BY <2>1 DEF StoreInv, StoreTypes
  <2> QED  BY <2>1, <2>2, IdleProcess DEF Steady
<1> QED  BY <1>1, <1>2, BeginKeeps, SchemaKeeps, LegacyFileKeeps, OperationStarts, CredentialWriteKeeps,
            WriteFailsKeeps DEF Store!Next, Steady

(* Whatever step a process dies in or fails at, the next start accepts the *)
(* file unless somebody wrote a legacy file meanwhile, and the event log   *)
(* in it tells only what happened (CredentialStore.FileStaysUsable): for   *)
(* any number of credentials, operations, faults and turns of the clock.   *)
THEOREM TheNextStartIsAdmitted == Store!Spec => []FileStaysUsable
<1>1. Store!StoreAssumption
  BY AuthoritiesAssumption
<1>2. Store!Init => StoreInv
  BY <1>1, StoreStarts
<1>3. StoreInv /\ [Store!Next]_(Store!vars) => StoreInv'
  BY <1>1, StoreSteps
<1>4. StoreInv => FileStaysUsable
  <2> SUFFICES ASSUME StoreInv PROVE FileStaysUsable
    OBVIOUS
  <2>1. ~touched /\ proc.phase = "opened" => Store!SchemaAdmits(db, proc.raw)
    <3> HAVE ~touched /\ proc.phase = "opened"
    <3>1. db.version <= 5
      BY DEF StoreInv, StoreTypes, CredentialFiles
    <3>2. IF db.migration = "unset"
          THEN db.table = Store!EmptyTable /\ (proc.raw = "absent" \/ Store!Parses(proc.raw))
          ELSE Store!AssertLegacyState(db.migration, proc.raw)
      BY DEF StoreInv, CredentialFileInv, Store!Parses, Store!AssertLegacyState
    <3>3. db.key = 0 => db.version < 5
      BY DEF StoreInv, CredentialFileInv
    <3> QED  BY <3>1, <3>2, <3>3 DEF Store!SchemaAdmits, Store!SchemaVersion
  <2>2. Store!EventsAreTrue
    <3>1. DOMAIN db.events = 1 .. Len(db.events)
      BY DEF StoreInv, StoreTypes, CredentialFiles
    <3>2. \A e \in Store!Range(db.events) : \E i \in 1 .. Len(db.events) : e = db.events[i]
      BY <3>1 DEF Store!Range
    <3> QED  BY <3>1, <3>2 DEF StoreInv, LogInv, Store!EventsAreTrue
  <2> QED  BY <2>1, <2>2 DEF FileStaysUsable, Store!FileStaysUsable
<1> QED  BY <1>2, <1>3, <1>4, PTL DEF Store!Spec

(* No start, fault or repeated legacy file takes a credential back to an   *)
(* earlier generation, its old secret or its life before it was revoked,   *)
(* and the signing key of a file never changes                             *)
(* (CredentialStore.NoResurrection).                                       *)
THEOREM NothingIsResurrected == Store!Spec => NoResurrection
<1> DEFINE A == /\ \A i \in Ids : LET r == db.table[i]  s == db'.table[i]
                                 IN  /\ s.gen >= r.gen
                                     /\ s.gen = r.gen => s = r
                                     /\ r.revoked => s = r
                /\ db.key # 0 => db'.key = db.key
<1>1. Store!StoreAssumption
  BY AuthoritiesAssumption
<1>2. Store!Init => StoreInv
  BY <1>1, StoreStarts
<1>3. StoreInv /\ [Store!Next]_(Store!vars) => StoreInv'
  BY <1>1, StoreSteps
<1>4. StoreInv /\ [Store!Next]_(Store!vars) => A
  <2> SUFFICES ASSUME StoreInv, [Store!Next]_(Store!vars) PROVE A
    OBVIOUS
  <2>1. (Forward \/ db' = db) /\ (db.key # 0 => db'.key = db.key)
    BY <1>1, StoreSteps
  <2>2. db' = db => Forward
    BY DEF Forward, StoreInv, StoreTypes, CredentialFiles, CredentialRecords
  <2> QED  BY <2>1, <2>2 DEF Forward
<1> HIDE DEF A
<1>5. Store!Spec => [][A]_(Store!vars)
  BY <1>2, <1>3, <1>4, PTL DEF Store!Spec
<1> QED  BY <1>5 DEF NoResurrection, Store!NoResurrection, A
=============================================================================
