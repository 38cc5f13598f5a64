----------------------------- MODULE Routes_proofs -----------------------------
(***************************************************************************)
(* A device's commands, for every number of targets, operations, frames    *)
(* handled at once and events of the environment: the two routes to the    *)
(* store implement the abstract operation journal, every answer the device *)
(* got is the journal's, and nothing is admitted on what is out of date.   *)
(* And over HTTP, for every number of calls and sessions: callers are told *)
(* what happened, and the newest session is the one that is heard.         *)
(***************************************************************************)
EXTENDS Routes, FiniteSetTheorems, TLAPS

Responses == Results \cup {"none", "not_authorized", "operation_conflict", "not_ready",
                           "base_mismatch", "issuer_rotated", "capacity_exhausted"}
Named == 0 .. (Budget + 1)

CommandRecords == [op : Ops, target : Targets, intent : Named, status : Results]
FrameRecords ==
  [pc : {"run", "joined", "sign", "sending"}, op : Ops, target : Targets,
   revision : Named, base : Nat, allowNew : BOOLEAN, new : BOOLEAN, answer : Responses]
HttpRecords == [pc : {"looked_up"}, op : Ops, target : Granted, revision : Named]
AnswerRecords == [op : Ops, target : Targets, intent : Named, says : Responses]

Types ==
  /\ revision \in [Targets -> Nat \ {0}]
  /\ journal \in Seq(CommandRecords)
  /\ evidence \in [Targets -> [ready : BOOLEAN, base : Nat \ {0}, issuer : Nat]]
  /\ confirmed \in Nat /\ issuer \in Nat
  /\ lease \in BOOLEAN /\ closed \in BOOLEAN
  /\ lanes \in [Targets -> 0 .. Frames]
  /\ frames \in [Slots -> FrameRecords \cup {NoFrame}]
  /\ http \in HttpRecords \cup {NoFrame}
  /\ known \subseteq AnswerRecords
  /\ budget \in 0 .. Budget

\* The commands that may still advance a target.
Running(fs) == {s \in Slots : fs[s].pc = "run"}
Waiting(h) == IF h = NoFrame THEN 0 ELSE 1

\* Every advance of a target was paid for by an event of the environment.
Paid ==
  \A t \in Targets :
    revision[t] + budget + Cardinality(Running(frames)) + Waiting(http) <= Budget + 1

Journalled(js, op, target, intent, says) ==
  \E i \in DOMAIN js : /\ js[i].op = op /\ js[i].target = target
                       /\ js[i].intent = intent /\ js[i].status = says

\* A frame's answer is the journal's, and only the holder of its target's lane
\* may record a new command.
FrameInv(s, f, ls, js) ==
  /\ f.pc \in {"sign", "sending"} =>
       /\ f.answer \in Results => Journalled(js, f.op, f.target, f.revision, f.answer)
       /\ f.new => f.allowNew
  /\ f.pc \in {"run", "sign", "sending"} /\ f.allowNew => ls[f.target] = s

CommandInv ==
  /\ Types /\ Paid
  /\ \A s \in Slots : FrameInv(s, frames[s], lanes, journal)
  /\ \A a \in known :
       a.says \in Results => Journalled(journal, a.op, a.target, a.intent, a.says)
-----------------------------------------------------------------------------
(***************************************************************************)
(* Counting the commands under way.                                        *)
(***************************************************************************)
LEMMA RunningIsFinite ==
  ASSUME NEW fs
  PROVE  IsFiniteSet(Running(fs)) /\ Cardinality(Running(fs)) \in Nat
<1>1. IsFiniteSet(Slots)
  BY BoundsAssumption, FS_Interval DEF Slots
<1>2. Running(fs) \subseteq Slots
  BY DEF Running
<1> QED  BY <1>1, <1>2, FS_Subset, FS_CardinalityType

LEMMA RunningShrinks ==
  ASSUME NEW fs, NEW gs, Running(gs) \subseteq Running(fs)
  PROVE  Cardinality(Running(gs)) <= Cardinality(Running(fs))
BY RunningIsFinite, FS_Subset

LEMMA RunningGrows ==
  ASSUME NEW fs, NEW gs, NEW s, Running(gs) \subseteq Running(fs) \cup {s}
  PROVE  Cardinality(Running(gs)) <= Cardinality(Running(fs)) + 1
<1> DEFINE more == Running(fs) \cup {s}
<1>1. IsFiniteSet(more) /\ Cardinality(more) <= Cardinality(Running(fs)) + 1
  BY RunningIsFinite, FS_AddElement
<1>2. Cardinality(Running(gs)) <= Cardinality(more) /\ Cardinality(more) \in Nat
  BY <1>1, FS_Subset, FS_CardinalityType
<1> QED  BY <1>1, <1>2, RunningIsFinite

LEMMA RunningEnds ==
  ASSUME NEW fs, NEW gs, NEW s \in Running(fs), Running(gs) \subseteq Running(fs) \ {s}
  PROVE  Cardinality(Running(gs)) + 1 <= Cardinality(Running(fs))
<1> DEFINE less == Running(fs) \ {s}
<1>1. IsFiniteSet(less) /\ Cardinality(less) = Cardinality(Running(fs)) - 1
  BY RunningIsFinite, FS_RemoveElement
<1>2. Cardinality(Running(gs)) <= Cardinality(less)
  BY <1>1, FS_Subset
<1> QED  BY <1>1, <1>2, RunningIsFinite

-----------------------------------------------------------------------------
(***************************************************************************)
(* The store's transaction.                                                *)
(***************************************************************************)
Admissions == {"admitted", "not_ready", "base_mismatch", "issuer_rotated"}

\* A new command is one the journal does not hold; any other outcome is the
\* journal's own.
LEMMA ExecutedAnswers ==
  ASSUME journal \in Seq(CommandRecords), NEW f, NEW adm \in Admissions
  PROVE  /\ Executed(f, adm).new \in BOOLEAN
         /\ Executed(f, adm).answer \in Responses
         /\ Executed(f, adm).new =>
              /\ adm = "admitted" /\ \A i \in DOMAIN journal : journal[i].op # f.op
              /\ Executed(f, adm).answer = Command(f).status
         /\ ~Executed(f, adm).new /\ Executed(f, adm).answer \in Results =>
              Journalled(journal, f.op, f.target, f.revision, Executed(f, adm).answer)
<1>1. Command(f).status \in Results
  BY DEF Command, Results
<1>2. CASE Recorded(f.op) # {}
  <2>1. Existing(f.op) \in Recorded(f.op)
    BY <1>2 DEF Existing
  <2>2. PICK i \in DOMAIN journal : journal[i].op = f.op /\ Existing(f.op) = journal[i]
    BY <2>1 DEF Recorded
  <2>3. journal[i].status \in Results
    <3>1. journal[i] \in CommandRecords
      OBVIOUS
    <3> QED  BY <3>1 DEF CommandRecords
  <2>4. CASE journal[i].target = f.target /\ journal[i].intent = f.revision
    <3>1. Executed(f, adm) = [new |-> FALSE, answer |-> journal[i].status]
      BY <1>2, <2>2, <2>4 DEF Executed
    <3>2. Journalled(journal, f.op, f.target, f.revision, journal[i].status)
      BY <2>2, <2>4 DEF Journalled
    <3> QED  BY <3>1, <3>2, <2>3 DEF Responses
  <2>5. CASE ~(journal[i].target = f.target /\ journal[i].intent = f.revision)
    <3>1. Executed(f, adm) = [new |-> FALSE, answer |-> "operation_conflict"]
      BY <1>2, <2>2, <2>5 DEF Executed
    <3> QED  BY <3>1 DEF Responses, Results
  <2> QED  BY <2>4, <2>5
<1>3. CASE Recorded(f.op) = {} /\ adm # "admitted"
  <2>1. Executed(f, adm) = [new |-> FALSE, answer |-> adm]
    BY <1>3 DEF Executed
  <2> QED  BY <2>1, <1>3 DEF Responses, Results, Admissions
<1>4. CASE Recorded(f.op) = {} /\ adm = "admitted" /\ Len(journal) >= Capacity
  <2>1. Executed(f, adm) = [new |-> FALSE, answer |-> "capacity_exhausted"]
    BY <1>4 DEF Executed
  <2> QED  BY <2>1 DEF Responses, Results
<1>5. CASE Recorded(f.op) = {} /\ adm = "admitted" /\ ~(Len(journal) >= Capacity)
  <2>1. Executed(f, adm) = [new |-> TRUE, answer |-> Command(f).status]
    BY <1>5 DEF Executed
  <2>2. \A i \in DOMAIN journal : journal[i].op # f.op
    BY <1>5 DEF Recorded
  <2> QED  BY <2>1, <2>2, <1>1, <1>5 DEF Responses
<1> QED  BY <1>2, <1>3, <1>4, <1>5

\* What is in the journal stays in it.
LEMMA AppendKeepsJournal ==
  ASSUME NEW js \in Seq(CommandRecords), NEW c \in CommandRecords
  PROVE  /\ Append(js, c) \in Seq(CommandRecords)
         /\ DOMAIN Append(js, c) = DOMAIN js \cup {Len(js) + 1}
         /\ Append(js, c)[Len(js) + 1] = c
         /\ \A i \in DOMAIN js : Append(js, c)[i] = js[i]
OBVIOUS

LEMMA CommitKeeps ==
  ASSUME Types, NEW f, f.op \in Ops, f.target \in Targets, f.revision \in Named,
         NEW new \in BOOLEAN, Commit(f, new)
  PROVE  /\ revision' \in [Targets -> Nat \ {0}]
         /\ \A t \in Targets : revision'[t] <= revision[t] + IF new THEN 1 ELSE 0
         /\ journal' \in Seq(CommandRecords)
         /\ journal' = IF new THEN Append(journal, Command(f)) ELSE journal
         /\ evidence' \in [Targets -> [ready : BOOLEAN, base : Nat \ {0}, issuer : Nat]]
         /\ \A op, target, intent, says :
              Journalled(journal, op, target, intent, says)
                => Journalled(journal', op, target, intent, says)
         /\ new => Journalled(journal', f.op, f.target, f.revision, Command(f).status)
<1>1. Command(f) \in CommandRecords
  BY DEF Command, CommandRecords, Results
<1>2. journal \in Seq(CommandRecords)
  BY DEF Types
<1>3. journal' = IF new THEN Append(journal, Command(f)) ELSE journal
  BY DEF Commit
<1>4. journal' \in Seq(CommandRecords)
  BY <1>1, <1>2, <1>3, AppendKeepsJournal
<1>5. /\ revision' \in [Targets -> Nat \ {0}]
      /\ \A t \in Targets : revision'[t] <= revision[t] + IF new THEN 1 ELSE 0
  <2>1. \/ revision' = revision
        \/ new /\ revision' = [revision EXCEPT ![f.target] = @ + 1]
    BY DEF Commit
  <2>2. revision \in [Targets -> Nat \ {0}]
    BY DEF Types
  <2>3. CASE revision' = revision
    BY <2>2, <2>3
  <2>4. CASE new /\ revision' = [revision EXCEPT ![f.target] = @ + 1]
    BY <2>2, <2>4
  <2> QED  BY <2>1, <2>3, <2>4
<1>6. evidence' \in [Targets -> [ready : BOOLEAN, base : Nat \ {0}, issuer : Nat]]
  BY DEF Commit, Types
<1>7. \A op, target, intent, says :
        Journalled(journal, op, target, intent, says)
          => Journalled(journal', op, target, intent, says)
  <2>1. DOMAIN journal \subseteq DOMAIN journal' /\ \A i \in DOMAIN journal : journal'[i] = journal[i]
    BY <1>1, <1>2, <1>3, AppendKeepsJournal
  <2> QED  BY <2>1 DEF Journalled
<1>8. ASSUME new
      PROVE  Journalled(journal', f.op, f.target, f.revision, Command(f).status)
  <2>1. Len(journal) + 1 \in DOMAIN journal' /\ journal'[Len(journal) + 1] = Command(f)
    BY <1>1, <1>2, <1>3, <1>8, AppendKeepsJournal
  <2> QED  BY <2>1 DEF Journalled, Command
<1> QED  BY <1>3, <1>4, <1>5, <1>6, <1>7, <1>8

\* A frame keeps what it says when the journal only grows and its lane is not
\* taken from it.
LEMMA FrameKeeps ==
  ASSUME NEW s, NEW f, NEW ls, NEW ks, NEW js, NEW hs, FrameInv(s, f, ls, js),
         ls[f.target] = s => ks[f.target] = s,
         \A op, target, intent, says :
           Journalled(js, op, target, intent, says) => Journalled(hs, op, target, intent, says)
  PROVE  FrameInv(s, f, ks, hs)
BY DEF FrameInv

\* The end of a frame's task frees its lane and those that joined it.
LEMMA EndsKeeps ==
  ASSUME CommandInv, NEW s \in Slots, Ends(s)
  PROVE  /\ lanes' \in [Targets -> 0 .. Frames]
         /\ frames' \in [Slots -> FrameRecords \cup {NoFrame}]
         /\ \A q \in Slots : FrameInv(q, frames'[q], lanes', journal)
         /\ Running(frames') \subseteq Running(frames)
         /\ Cardinality(Running(frames')) <= Cardinality(Running(frames))
<1>1. lanes' \in [Targets -> 0 .. Frames]
  BY BoundsAssumption DEF CommandInv, Types, Ends
<1>2. frames' \in [Slots -> FrameRecords \cup {NoFrame}]
  BY DEF CommandInv, Types, Ends
<1>3. \A q \in Slots : frames'[q] \in {NoFrame, frames[q]} /\ frames'[s] = NoFrame
  BY DEF Ends
<1>4. \A q \in Slots : NoFrame.pc = "free" /\ FrameInv(q, NoFrame, lanes', journal)
  BY DEF FrameInv, NoFrame
<1>5. ASSUME NEW q \in Slots, frames'[q] = frames[q], q # s, frames[q] # NoFrame
      PROVE  FrameInv(q, frames'[q], lanes', journal)
  <2>1. FrameInv(q, frames[q], lanes, journal) /\ frames[q].target \in Targets
    BY <1>5 DEF CommandInv, Types, FrameRecords
  <2>2. lanes[frames[q].target] = q => lanes'[frames[q].target] = q
    BY <2>1, <1>5 DEF Ends
  <2> QED  BY <2>1, <2>2, <1>5, FrameKeeps
<1>6. \A q \in Slots : FrameInv(q, frames'[q], lanes', journal)
  BY <1>3, <1>4, <1>5
<1>7. Running(frames') \subseteq Running(frames)
  BY <1>3, <1>4 DEF Running
<1> QED  BY <1>1, <1>2, <1>6, <1>7, RunningShrinks
-----------------------------------------------------------------------------
(***************************************************************************)
(* The steps.                                                              *)
(***************************************************************************)
LEMMA InitEstablishes ==
  ASSUME Init
  PROVE  CommandInv
<1>1. Types
  <2>1. /\ revision \in [Targets -> Nat \ {0}] /\ budget \in 0 .. Budget
        /\ lanes \in [Targets -> 0 .. Frames]
    BY BoundsAssumption DEF Init
  <2>2. evidence \in [Targets -> [ready : BOOLEAN, base : Nat \ {0}, issuer : Nat]]
    BY DEF Init
  <2>3. frames \in [Slots -> FrameRecords \cup {NoFrame}]
    BY DEF Init
  <2>4. << >> \in Seq(CommandRecords) /\ {} \subseteq AnswerRecords
    OBVIOUS
  <2>5. journal \in Seq(CommandRecords) /\ known \subseteq AnswerRecords
    BY <2>4, Zenon DEF Init
  <2> QED  BY <2>1, <2>2, <2>3, <2>5 DEF Init, Types
<1>2. Running(frames) = {} /\ Cardinality(Running(frames)) = 0 /\ Waiting(http) = 0
  <2>1. Running(frames) = {}
    BY DEF Init, Running, NoFrame
  <2> QED  BY <2>1, FS_EmptySet DEF Init, Waiting
<1>3. Paid
  BY <1>2, BoundsAssumption DEF Init, Paid
<1>4. \A s \in Slots : FrameInv(s, frames[s], lanes, journal)
  BY DEF Init, FrameInv, NoFrame
<1> QED  BY <1>1, <1>3, <1>4 DEF CommandInv, Init

\* What may be named is within the bound.
LEMMA RevisionsAreNamed ==
  ASSUME CommandInv, budget > 0, NEW t \in Targets, NEW r \in {revision[t], revision[t] - 1}
  PROVE  r \in Named
<1>1. /\ revision[t] \in Nat \ {0} /\ budget \in Nat /\ Waiting(http) \in Nat
      /\ revision[t] + budget + Cardinality(Running(frames)) + Waiting(http) <= Budget + 1
      /\ Cardinality(Running(frames)) \in Nat /\ Budget \in Nat
  BY RunningIsFinite, BoundsAssumption DEF CommandInv, Types, Paid, Waiting
<1>2. revision[t] <= Budget + 1
  BY <1>1
<1> QED  BY <1>1, <1>2 DEF Named

\* The frame of a task, or none, in a slot that no task has.
LEMMA ReceiveKeeps ==
  ASSUME CommandInv, NEW s \in Slots, NEW op \in Ops, NEW t \in Targets,
         NEW r \in {revision[t], revision[t] - 1}, NEW base \in Nat,
         Receive(s, op, t, r, base)
  PROVE  CommandInv'
<1>1. /\ frames[s] = NoFrame /\ Spend
      /\ UNCHANGED <<revision, journal, evidence, confirmed, issuer, lease, closed, http, known>>
  BY DEF Receive
<1>2. r \in Named /\ budget \in Nat \ {0} /\ budget' = budget - 1 /\ budget' \in 0 .. Budget
  BY <1>1, RevisionsAreNamed, BoundsAssumption DEF Spend, CommandInv, Types
<1>3. PICK f \in FrameRecords :
        /\ frames' = [frames EXCEPT ![s] = f]
        /\ f.target = t /\ ~f.new /\ f.answer \notin Results
        /\ \/ UNCHANGED lanes /\ ~f.allowNew
           \/ lanes[t] = 0 /\ lanes' = [lanes EXCEPT ![t] = s]
  <2> DEFINE frame(pc, new) == [pc |-> pc, op |-> op, target |-> t, revision |-> r,
                                base |-> base, allowNew |-> new, new |-> FALSE,
                                answer |-> "none"]
             refused(a) == [frame("sign", FALSE) EXCEPT !.answer = a]
  <2>1. \A pc \in {"run", "joined"}, new \in BOOLEAN :
          /\ frame(pc, new) \in FrameRecords
          /\ frame(pc, new).target = t /\ frame(pc, new).new = FALSE
          /\ frame(pc, new).answer = "none" /\ frame(pc, new).allowNew = new
    BY <1>2 DEF FrameRecords, Responses
  <2>2. \A a \in {"not_authorized", "operation_conflict"} :
          /\ refused(a) \in FrameRecords
          /\ refused(a).target = t /\ refused(a).new = FALSE
          /\ refused(a).answer = a /\ refused(a).allowNew = FALSE
    BY <1>2 DEF FrameRecords, Responses
  <2>3. {"none", "not_authorized", "operation_conflict"} \cap Results = {}
    BY DEF Results
  <2>4. \/ frames' = [frames EXCEPT ![s] = refused("not_authorized")] /\ UNCHANGED lanes
        \/ /\ lanes[t] = 0 /\ lanes' = [lanes EXCEPT ![t] = s]
           /\ frames' = [frames EXCEPT ![s] = frame("run", TRUE)]
        \/ /\ UNCHANGED lanes
           /\ \/ frames' = [frames EXCEPT ![s] = frame("run", FALSE)]
              \/ frames' = [frames EXCEPT ![s] = frame("joined", FALSE)]
              \/ frames' = [frames EXCEPT ![s] = refused("operation_conflict")]
    BY DEF Receive
  <2> HIDE DEF frame, refused
  <2> QED  BY <2>1, <2>2, <2>3, <2>4
<1>4. frames' \in [Slots -> FrameRecords \cup {NoFrame}]
  BY <1>3 DEF CommandInv, Types
<1>5. lanes' \in [Targets -> 0 .. Frames]
  <2>1. lanes \in [Targets -> 0 .. Frames] /\ s \in 0 .. Frames
    BY BoundsAssumption DEF CommandInv, Types, Slots
  <2> QED  BY <2>1, <1>3
<1>6. Types'
  BY <1>1, <1>2, <1>4, <1>5 DEF CommandInv, Types
<1>7. frames'[s] = f /\ \A q \in Slots \ {s} : frames'[q] = frames[q]
  BY <1>3 DEF CommandInv, Types
<1>8. Paid'
  <2>1. Running(frames') \subseteq Running(frames) \cup {s}
    BY <1>7 DEF Running
  <2>2. Cardinality(Running(frames')) <= Cardinality(Running(frames)) + 1
    BY <2>1, RunningGrows
  <2>3. Waiting(http) \in Nat /\ revision \in [Targets -> Nat \ {0}] /\ Budget \in Nat
    BY BoundsAssumption DEF Waiting, CommandInv, Types
  <2>4. \A u \in Targets :
          revision[u] + budget + Cardinality(Running(frames)) + Waiting(http) <= Budget + 1
    BY DEF CommandInv, Paid
  <2>5. /\ Cardinality(Running(frames)) \in Nat
        /\ Cardinality(Running(frames')) \in Nat
    BY RunningIsFinite
  <2>6. \A u \in Targets :
          revision[u] + budget' + Cardinality(Running(frames')) + Waiting(http) <= Budget + 1
    BY <2>2, <2>3, <2>4, <2>5, <1>2
  <2> QED  BY <2>6, <1>1 DEF Paid
<1>9. ASSUME NEW q \in Slots
      PROVE  FrameInv(q, frames'[q], lanes', journal)
  <2>1. CASE q = s
    <3>1. f.allowNew => lanes'[t] = s
      BY <1>3 DEF CommandInv, Types
    <3> QED  BY <2>1, <3>1, <1>3, <1>7 DEF FrameInv
  <2>2. CASE q # s /\ frames[q] = NoFrame
    BY <2>2, <1>7 DEF FrameInv, NoFrame
  <2>3. CASE q # s /\ frames[q] # NoFrame
    <3>1. FrameInv(q, frames[q], lanes, journal) /\ frames[q].target \in Targets
      BY <2>3 DEF CommandInv, Types, FrameRecords
    <3>2. q # 0
      BY DEF Slots
    <3>3. lanes[frames[q].target] = q => lanes'[frames[q].target] = q
      BY <3>1, <3>2, <1>3 DEF CommandInv, Types
    <3> QED  BY <3>1, <3>3, <1>7, <2>3, FrameKeeps
  <2> QED  BY <2>1, <2>2, <2>3
<1> QED  BY <1>1, <1>6, <1>8, <1>9 DEF CommandInv

\* Events that leave the frames, the journal and the HTTP command alone.
LEMMA EventsKeep ==
  ASSUME CommandInv, UNCHANGED <<journal, lanes, frames, http, known>>,
         revision' \in [Targets -> Nat \ {0}],
         evidence' \in [Targets -> [ready : BOOLEAN, base : Nat \ {0}, issuer : Nat]],
         confirmed' \in Nat, issuer' \in Nat, lease' \in BOOLEAN, closed' \in BOOLEAN,
         budget' \in 0 .. Budget,
         \A t \in Targets : revision'[t] + budget' <= revision[t] + budget
  PROVE  CommandInv'
<1>1. Types'
  BY DEF CommandInv, Types
<1>2. Paid'
  <2>1. /\ Waiting(http) \in Nat /\ Cardinality(Running(frames)) \in Nat /\ Budget \in Nat
        /\ budget \in Nat /\ budget' \in Nat
        /\ revision \in [Targets -> Nat \ {0}]
    BY RunningIsFinite, BoundsAssumption DEF Waiting, CommandInv, Types
  <2>2. \A t \in Targets :
          revision[t] + budget + Cardinality(Running(frames)) + Waiting(http) <= Budget + 1
    BY DEF CommandInv, Paid
  <2>3. \A t \in Targets :
          revision'[t] + budget' + Cardinality(Running(frames)) + Waiting(http) <= Budget + 1
    BY <2>1, <2>2
  <2> QED  BY <2>3 DEF Paid
<1> QED  BY <1>1, <1>2 DEF CommandInv

\* The end of a frame's task, with what the device may have learnt from it.
LEMMA EndedKeeps ==
  ASSUME CommandInv, UNCHANGED <<revision, journal, evidence, confirmed, issuer, lease,
                                 http, budget>>,
         closed' \in BOOLEAN, known' \subseteq AnswerRecords,
         \A a \in known' :
           a.says \in Results => Journalled(journal, a.op, a.target, a.intent, a.says),
         lanes' \in [Targets -> 0 .. Frames],
         frames' \in [Slots -> FrameRecords \cup {NoFrame}],
         \A q \in Slots : FrameInv(q, frames'[q], lanes', journal),
         Cardinality(Running(frames')) <= Cardinality(Running(frames))
  PROVE  CommandInv'
<1>1. Types'
  BY DEF CommandInv, Types
<1>2. Paid'
  <2>1. /\ Waiting(http) \in Nat /\ Budget \in Nat /\ budget \in Nat
        /\ Cardinality(Running(frames)) \in Nat /\ Cardinality(Running(frames')) \in Nat
        /\ revision \in [Targets -> Nat \ {0}]
    BY RunningIsFinite, BoundsAssumption DEF Waiting, CommandInv, Types
  <2>2. \A t \in Targets :
          revision[t] + budget + Cardinality(Running(frames)) + Waiting(http) <= Budget + 1
    BY DEF CommandInv, Paid
  <2>3. \A t \in Targets :
          revision[t] + budget + Cardinality(Running(frames')) + Waiting(http) <= Budget + 1
    BY <2>1, <2>2
  <2> QED  BY <2>3 DEF Paid
<1> QED  BY <1>1, <1>2 DEF CommandInv

\* run(): only the lane's holder reaches the store for a new command.
LEMMA AdmissionGuards ==
  ASSUME NEW f
  PROVE  /\ Admission(f) \in Admissions
         /\ Admission(f) = "admitted" =>
              /\ f.allowNew /\ evidence[f.target].ready
              /\ evidence[f.target].base = f.base /\ evidence[f.target].issuer = issuer
BY DEF Admission, Admissions

LEMMA RunKeeps ==
  ASSUME CommandInv, NEW s \in Slots, Run(s)
  PROVE  CommandInv'
<1> DEFINE f == frames[s]
           result == Executed(f, Admission(f))
<1>1. f.pc = "run" /\ UNCHANGED <<confirmed, issuer, lease, http, known, budget>>
  BY DEF Run
<1>2. f \in FrameRecords
  BY <1>1 DEF CommandInv, Types, NoFrame
<1>3. Types /\ journal \in Seq(CommandRecords)
  BY DEF CommandInv, Types
<1>4. ASSUME Ends(s), UNCHANGED <<revision, journal, evidence>>, closed' \in BOOLEAN
      PROVE  CommandInv'
  <2>1. /\ lanes' \in [Targets -> 0 .. Frames]
        /\ frames' \in [Slots -> FrameRecords \cup {NoFrame}]
        /\ \A q \in Slots : FrameInv(q, frames'[q], lanes', journal)
        /\ Cardinality(Running(frames')) <= Cardinality(Running(frames))
    BY <1>4, EndsKeeps
  <2> QED  BY <2>1, <1>1, <1>3, <1>4, EndedKeeps DEF CommandInv, Types
<1>5. ASSUME Commit(f, result.new), Answers(s, f, result), UNCHANGED closed
      PROVE  CommandInv'
  <2>1. /\ result.new \in BOOLEAN /\ result.answer \in Responses
        /\ result.new => f.allowNew /\ result.answer = Command(f).status
        /\ ~result.new /\ result.answer \in Results =>
             Journalled(journal, f.op, f.target, f.revision, result.answer)
    BY <1>3, AdmissionGuards, ExecutedAnswers
  <2>2. f.op \in Ops /\ f.target \in Targets /\ f.revision \in Named
    BY <1>2 DEF FrameRecords
  <2> HIDE DEF result
  <2>3. /\ revision' \in [Targets -> Nat \ {0}]
        /\ \A t \in Targets : revision'[t] <= revision[t] + IF result.new THEN 1 ELSE 0
        /\ journal' \in Seq(CommandRecords)
        /\ evidence' \in [Targets -> [ready : BOOLEAN, base : Nat \ {0}, issuer : Nat]]
        /\ \A op, target, intent, says :
             Journalled(journal, op, target, intent, says)
               => Journalled(journal', op, target, intent, says)
        /\ result.new => Journalled(journal', f.op, f.target, f.revision, Command(f).status)
    BY <1>3, <1>5, <2>1, <2>2, CommitKeeps
  <2> DEFINE g == [f EXCEPT !.pc = "sign", !.new = result.new, !.answer = result.answer]
  <2>4. /\ g \in FrameRecords /\ g.pc = "sign" /\ g.new = result.new
        /\ g.answer = result.answer /\ g.op = f.op /\ g.target = f.target
        /\ g.revision = f.revision /\ g.allowNew = f.allowNew
    BY <1>2, <2>1 DEF FrameRecords
  <2>5. frames' = [frames EXCEPT ![s] = g] /\ UNCHANGED lanes
    BY <1>5 DEF Answers
  <2> HIDE DEF g
  <2>6. frames'[s] = g /\ \A q \in Slots \ {s} : frames'[q] = frames[q]
    BY <2>5 DEF CommandInv, Types
  <2>7. Types'
    <3>1. frames' \in [Slots -> FrameRecords \cup {NoFrame}]
      BY <2>4, <2>5 DEF CommandInv, Types
    <3> QED  BY <3>1, <2>3, <2>5, <1>1, <1>5 DEF CommandInv, Types
  <2>8. Paid'
    <3>1. s \in Running(frames) /\ Running(frames') \subseteq Running(frames) \ {s}
      BY <1>1, <2>4, <2>6 DEF Running
    <3>2. Cardinality(Running(frames')) + 1 <= Cardinality(Running(frames))
      BY <3>1, RunningEnds
    <3>3. /\ Waiting(http) \in Nat /\ Budget \in Nat /\ budget \in Nat
          /\ Cardinality(Running(frames)) \in Nat /\ Cardinality(Running(frames')) \in Nat
          /\ revision \in [Targets -> Nat \ {0}]
      BY RunningIsFinite, BoundsAssumption DEF Waiting, CommandInv, Types
    <3>4. \A t \in Targets :
            revision[t] + budget + Cardinality(Running(frames)) + Waiting(http) <= Budget + 1
      BY DEF CommandInv, Paid
    <3>5. \A t \in Targets : revision'[t] <= revision[t] + 1 /\ revision'[t] \in Nat
      BY <2>3, <3>3
    <3>6. \A t \in Targets :
            revision'[t] + budget + Cardinality(Running(frames')) + Waiting(http) <= Budget + 1
      BY <3>2, <3>3, <3>4, <3>5
    <3> QED  BY <3>6, <1>1 DEF Paid
  <2>9. ASSUME NEW q \in Slots
        PROVE  FrameInv(q, frames'[q], lanes', journal')
    <3>1. FrameInv(q, frames[q], lanes, journal)
      BY DEF CommandInv
    <3>2. CASE q # s
      BY <3>1, <3>2, <2>3, <2>5, <2>6, FrameKeeps
    <3>3. CASE q = s
      <4>1. g.answer \in Results => Journalled(journal', g.op, g.target, g.revision, g.answer)
        BY <2>1, <2>3, <2>4
      <4>2. g.allowNew => lanes'[g.target] = s
        BY <3>1, <3>3, <1>1, <2>4, <2>5 DEF FrameInv
      <4> QED  BY <4>1, <4>2, <3>3, <2>1, <2>4, <2>6 DEF FrameInv
    <3> QED  BY <3>2, <3>3
  <2>10. \A a \in known' :
           a.says \in Results => Journalled(journal', a.op, a.target, a.intent, a.says)
    BY <1>1, <2>3 DEF CommandInv
  <2> QED  BY <2>7, <2>8, <2>9, <2>10 DEF CommandInv
<1> QED  BY <1>4, <1>5, <1>3 DEF Run, CloseSession, Types

\* The other steps of a frame.
LEMMA AnswerStepsKeep ==
  ASSUME CommandInv, NEW s \in Slots, Sign(s) \/ Sent(s) \/ SendTimesOut(s)
  PROVE  CommandInv'
<1>1. /\ known \subseteq AnswerRecords /\ closed \in BOOLEAN
      /\ \A a \in known :
           a.says \in Results => Journalled(journal, a.op, a.target, a.intent, a.says)
  BY DEF CommandInv, Types
<1>2. ASSUME Ends(s), closed' \in BOOLEAN,
             \/ known' = known
             \/ frames[s].pc = "sending" /\ known' = known \cup {Answer(frames[s])},
             UNCHANGED <<revision, journal, evidence, confirmed, issuer, lease, http, budget>>
      PROVE  CommandInv'
  <2>1. /\ lanes' \in [Targets -> 0 .. Frames]
        /\ frames' \in [Slots -> FrameRecords \cup {NoFrame}]
        /\ \A q \in Slots : FrameInv(q, frames'[q], lanes', journal)
        /\ Cardinality(Running(frames')) <= Cardinality(Running(frames))
    BY <1>2, EndsKeeps
  <2>2. ASSUME frames[s].pc = "sending"
        PROVE  /\ Answer(frames[s]) \in AnswerRecords
               /\ Answer(frames[s]).says \in Results =>
                    Journalled(journal, Answer(frames[s]).op, Answer(frames[s]).target,
                               Answer(frames[s]).intent, Answer(frames[s]).says)
    <3>1. frames[s] \in FrameRecords /\ FrameInv(s, frames[s], lanes, journal)
      BY <2>2 DEF CommandInv, Types, NoFrame
    <3> QED  BY <3>1, <2>2 DEF FrameRecords, AnswerRecords, Answer, FrameInv
  <2>3. /\ known' \subseteq AnswerRecords
        /\ \A a \in known' :
             a.says \in Results => Journalled(journal, a.op, a.target, a.intent, a.says)
    BY <1>1, <1>2, <2>2
  <2> QED  BY <2>1, <2>3, <1>2, EndedKeeps
<1>3. CASE Sent(s)
  BY <1>1, <1>2, <1>3 DEF Sent
<1>4. CASE SendTimesOut(s)
  BY <1>1, <1>2, <1>4 DEF SendTimesOut, CloseSession
<1>5. CASE Sign(s)
  <2>1. CASE Ends(s) /\ closed' \in BOOLEAN
    BY <1>2, <1>5, <2>1 DEF Sign
  <2>2. CASE frames' = [frames EXCEPT ![s].pc = "sending"] /\ UNCHANGED <<closed, lanes>>
    <3>1. /\ frames[s] \in FrameRecords /\ FrameInv(s, frames[s], lanes, journal)
          /\ frames[s].pc = "sign"
      BY <1>5 DEF Sign, CommandInv, Types, NoFrame
    <3> DEFINE g == [frames[s] EXCEPT !.pc = "sending"]
    <3>2. /\ g \in FrameRecords /\ g.pc = "sending" /\ FrameInv(s, g, lanes, journal)
      BY <3>1 DEF FrameRecords, FrameInv
    <3>3. frames' = [frames EXCEPT ![s] = g]
      BY <2>2
    <3> HIDE DEF g
    <3>4. /\ frames' \in [Slots -> FrameRecords \cup {NoFrame}]
          /\ frames'[s] = g /\ \A q \in Slots \ {s} : frames'[q] = frames[q]
      BY <3>2, <3>3 DEF CommandInv, Types
    <3>5. \A q \in Slots : FrameInv(q, frames'[q], lanes', journal)
      BY <3>2, <3>4, <2>2 DEF CommandInv
    <3>6. Running(frames') \subseteq Running(frames)
      BY <3>2, <3>4 DEF Running
    <3>7. Cardinality(Running(frames')) <= Cardinality(Running(frames))
      BY <3>6, RunningShrinks
    <3>8. lanes' \in [Targets -> 0 .. Frames]
      BY <2>2 DEF CommandInv, Types
    <3>9. UNCHANGED <<revision, journal, evidence, confirmed, issuer, lease, http, known, budget>>
      BY <1>5 DEF Sign
    <3> QED  BY <3>4, <3>5, <3>7, <3>8, <3>9, <2>2, <1>1, EndedKeeps
  <2> QED  BY <1>1, <1>5, <2>1, <2>2 DEF Sign, CloseSession
<1> QED  BY <1>3, <1>4, <1>5

LEMMA HttpBeginKeeps ==
  ASSUME CommandInv, HttpBegin
  PROVE  CommandInv'
<1>1. /\ http = NoFrame /\ Spend
      /\ UNCHANGED <<revision, journal, evidence, confirmed, issuer, lease, closed,
                     lanes, frames, known>>
  BY DEF HttpBegin
<1>2. budget \in Nat \ {0} /\ budget' = budget - 1 /\ budget' \in 0 .. Budget
  BY <1>1, BoundsAssumption DEF Spend, CommandInv, Types
<1>3. PICK op \in Ops, t \in Granted : \E r \in {revision[t], revision[t] - 1} :
        http' = [pc |-> "looked_up", op |-> op, target |-> t, revision |-> r]
  BY DEF HttpBegin
<1>4. PICK r \in {revision[t], revision[t] - 1} :
        http' = [pc |-> "looked_up", op |-> op, target |-> t, revision |-> r]
  BY <1>3
<1>5. r \in Named
  BY <1>2, TargetsAssumption, RevisionsAreNamed
<1>6. http' \in HttpRecords
  BY <1>4, <1>5 DEF HttpRecords
<1>7. Types'
  BY <1>1, <1>2, <1>6 DEF CommandInv, Types
<1>8. Paid'
  <2>1. /\ Waiting(http) = 0 /\ Waiting(http') \in {0, 1} /\ Budget \in Nat
        /\ Cardinality(Running(frames)) \in Nat /\ revision \in [Targets -> Nat \ {0}]
    BY <1>1, RunningIsFinite, BoundsAssumption DEF Waiting, CommandInv, Types
  <2>2. \A u \in Targets :
          revision[u] + budget + Cardinality(Running(frames)) + Waiting(http) <= Budget + 1
    BY DEF CommandInv, Paid
  <2>3. \A u \in Targets :
          revision[u] + budget' + Cardinality(Running(frames)) + Waiting(http') <= Budget + 1
    BY <2>1, <2>2, <1>2
  <2> QED  BY <2>3, <1>1 DEF Paid
<1> QED  BY <1>1, <1>7, <1>8 DEF CommandInv

LEMMA HttpExecuteKeeps ==
  ASSUME CommandInv, HttpExecute
  PROVE  CommandInv'
<1> DEFINE result == Executed(http, "admitted")
<1>1. /\ http # NoFrame /\ http' = NoFrame
      /\ UNCHANGED <<confirmed, issuer, lease, closed, lanes, frames, budget>>
  BY DEF HttpExecute
<1>2. /\ http.op \in Ops /\ http.target \in Targets /\ http.revision \in Named
      /\ Types /\ journal \in Seq(CommandRecords)
  <2>1. http \in HttpRecords
    BY <1>1 DEF CommandInv, Types
  <2> QED  BY <2>1, TargetsAssumption DEF CommandInv, Types, HttpRecords
<1>3. /\ result.new \in BOOLEAN /\ result.answer \in Responses
      /\ result.new => result.answer = Command(http).status
      /\ ~result.new /\ result.answer \in Results =>
           Journalled(journal, http.op, http.target, http.revision, result.answer)
  BY <1>2, ExecutedAnswers DEF Admissions
<1>4. \/ Commit(http, result.new) /\ known' = known \cup
           {[op |-> http.op, target |-> http.target, intent |-> http.revision,
             says |-> result.answer]}
      \/ UNCHANGED <<revision, journal, evidence, known>>
  BY DEF HttpExecute
<1> HIDE DEF result
<1>5. CASE UNCHANGED <<revision, journal, evidence, known>>
  <2>1. Types'
    BY <1>1, <1>2, <1>5 DEF Types
  <2>2. Paid'
    <3>1. /\ Waiting(http) = 1 /\ Waiting(http') = 0 /\ Budget \in Nat /\ budget \in Nat
          /\ Cardinality(Running(frames)) \in Nat /\ revision \in [Targets -> Nat \ {0}]
      BY <1>1, RunningIsFinite, BoundsAssumption DEF Waiting, CommandInv, Types
    <3>2. \A u \in Targets :
            revision[u] + budget + Cardinality(Running(frames)) + Waiting(http) <= Budget + 1
      BY DEF CommandInv, Paid
    <3>3. \A u \in Targets :
            revision[u] + budget + Cardinality(Running(frames)) + Waiting(http') <= Budget + 1
      BY <3>1, <3>2
    <3> QED  BY <3>3, <1>1, <1>5 DEF Paid
  <2> QED  BY <2>1, <2>2, <1>1, <1>5 DEF CommandInv
<1>6. ASSUME Commit(http, result.new),
             known' = known \cup {[op |-> http.op, target |-> http.target,
                                   intent |-> http.revision, says |-> result.answer]}
      PROVE  CommandInv'
  <2>1. /\ revision' \in [Targets -> Nat \ {0}]
        /\ \A t \in Targets : revision'[t] <= revision[t] + IF result.new THEN 1 ELSE 0
        /\ journal' \in Seq(CommandRecords)
        /\ evidence' \in [Targets -> [ready : BOOLEAN, base : Nat \ {0}, issuer : Nat]]
        /\ \A op, target, intent, says :
             Journalled(journal, op, target, intent, says)
               => Journalled(journal', op, target, intent, says)
        /\ result.new =>
             Journalled(journal', http.op, http.target, http.revision, Command(http).status)
    BY <1>2, <1>3, <1>6, CommitKeeps
  <2> DEFINE a == [op |-> http.op, target |-> http.target, intent |-> http.revision,
                   says |-> result.answer]
  <2>2. a \in AnswerRecords
    BY <1>2, <1>3 DEF AnswerRecords
  <2>3. a.says \in Results => Journalled(journal', a.op, a.target, a.intent, a.says)
    BY <1>3, <2>1
  <2>4. Types'
    <3>1. known' \subseteq AnswerRecords
      BY <1>2, <1>6, <2>2 DEF Types
    <3> QED  BY <3>1, <1>1, <1>2, <2>1 DEF Types
  <2>5. Paid'
    <3>1. /\ Waiting(http) = 1 /\ Waiting(http') = 0 /\ Budget \in Nat /\ budget \in Nat
          /\ Cardinality(Running(frames)) \in Nat /\ revision \in [Targets -> Nat \ {0}]
      BY <1>1, RunningIsFinite, BoundsAssumption DEF Waiting, CommandInv, Types
    <3>2. \A u \in Targets :
            revision[u] + budget + Cardinality(Running(frames)) + Waiting(http) <= Budget + 1
      BY DEF CommandInv, Paid
    <3>3. \A u \in Targets : revision'[u] <= revision[u] + 1 /\ revision'[u] \in Nat
      BY <2>1, <3>1
    <3>4. \A u \in Targets :
            revision'[u] + budget + Cardinality(Running(frames)) + Waiting(http') <= Budget + 1
      BY <3>1, <3>2, <3>3
    <3> QED  BY <3>4, <1>1 DEF Paid
  <2>6. \A q \in Slots : FrameInv(q, frames'[q], lanes', journal')
    BY <1>1, <2>1, FrameKeeps DEF CommandInv
  <2>7. \A b \in known' :
          b.says \in Results => Journalled(journal', b.op, b.target, b.intent, b.says)
    BY <1>6, <2>1, <2>3 DEF CommandInv
  <2> QED  BY <2>4, <2>5, <2>6, <2>7 DEF CommandInv
<1> QED  BY <1>4, <1>5, <1>6

\* The device, production, the keys and the connection.
LEMMA EnvironmentKeeps ==
  ASSUME CommandInv,
         DeviceSends \/ ReceiveMalformed \/ ProductionChanges \/ Confirms \/ RotateIssuer
           \/ LeaseEnds \/ Dispose \/ Reconnect
  PROVE  CommandInv'
<1>1. /\ revision \in [Targets -> Nat \ {0}]
      /\ evidence \in [Targets -> [ready : BOOLEAN, base : Nat \ {0}, issuer : Nat]]
      /\ confirmed \in Nat /\ issuer \in Nat /\ lease \in BOOLEAN /\ closed \in BOOLEAN
      /\ budget \in 0 .. Budget /\ Budget \in Nat
  BY BoundsAssumption DEF CommandInv, Types
<1>2. Spend => /\ budget' \in 0 .. Budget
               /\ \A t \in Targets : revision[t] + budget' + 1 <= revision[t] + budget
  BY <1>1 DEF Spend
<1>3. \A t \in Targets : revision[t] + budget <= revision[t] + budget
                         /\ (Spend => revision[t] + budget' <= revision[t] + budget)
  BY <1>1 DEF Spend
<1>4. CASE DeviceSends
  <2>1. PICK s \in Slots, op \in Ops, t \in Targets :
          \E r \in {revision[t], revision[t] - 1},
             base \in {evidence[t].base, evidence[t].base - 1} : Receive(s, op, t, r, base)
    BY <1>4 DEF DeviceSends
  <2>2. PICK r \in {revision[t], revision[t] - 1},
             base \in {evidence[t].base, evidence[t].base - 1} : Receive(s, op, t, r, base)
    BY <2>1
  <2>3. base \in Nat
    BY <1>1
  <2> QED  BY <2>2, <2>3, ReceiveKeeps
<1>5. CASE ReceiveMalformed
  BY <1>1, <1>2, <1>3, <1>5, EventsKeep DEF ReceiveMalformed, CloseSession
<1>6. CASE ProductionChanges
  <2>1. PICK t \in Granted :
          /\ revision' = [revision EXCEPT ![t] = @ + 1]
          /\ evidence' = [evidence EXCEPT ![t].ready = FALSE]
    BY <1>6 DEF ProductionChanges
  <2>2. /\ Spend
        /\ UNCHANGED <<journal, confirmed, issuer, lease, closed, lanes, frames, http, known>>
    BY <1>6 DEF ProductionChanges
  <2>3. /\ revision' \in [Targets -> Nat \ {0}]
        /\ \A u \in Targets : revision'[u] <= revision[u] + 1
        /\ evidence' \in [Targets -> [ready : BOOLEAN, base : Nat \ {0}, issuer : Nat]]
    <3>1. t \in Targets
      BY <2>1, TargetsAssumption
    <3>2. /\ revision \in [Targets -> Nat \ {0}]
          /\ evidence \in [Targets -> [ready : BOOLEAN, base : Nat \ {0}, issuer : Nat]]
      BY <1>1
    <3>3. \A u \in Targets : revision'[u] = IF u = t THEN revision[u] + 1 ELSE revision[u]
      BY <2>1, <3>1, <3>2
    <3>4. revision' \in [Targets -> Nat \ {0}]
      BY <2>1, <3>1, <3>2
    <3>5. \A u \in Targets : revision'[u] <= revision[u] + 1
      BY <3>2, <3>3
    <3>6. evidence' \in [Targets -> [ready : BOOLEAN, base : Nat \ {0}, issuer : Nat]]
      <4>1. evidence[t] \in [ready : BOOLEAN, base : Nat \ {0}, issuer : Nat]
        BY <3>1, <3>2
      <4>2. [evidence[t] EXCEPT !.ready = FALSE] \in
              [ready : BOOLEAN, base : Nat \ {0}, issuer : Nat]
        BY <4>1
      <4>3. evidence' = [evidence EXCEPT ![t] = [evidence[t] EXCEPT !.ready = FALSE]]
        BY <2>1
      <4> QED  BY <3>1, <3>2, <4>2, <4>3
    <3> QED  BY <3>4, <3>5, <3>6
  <2>4. \A u \in Targets : revision'[u] + budget' <= revision[u] + budget
    BY <1>1, <2>2, <2>3 DEF Spend
  <2> QED  BY <1>1, <1>2, <2>2, <2>3, <2>4, EventsKeep
<1>7. CASE Confirms
  <2>1. PICK t \in Granted :
          evidence' = [evidence EXCEPT ![t] =
                         [ready |-> TRUE, base |-> @.base + 1, issuer |-> issuer]]
    BY <1>7 DEF Confirms
  <2>2. /\ evidence' \in [Targets -> [ready : BOOLEAN, base : Nat \ {0}, issuer : Nat]]
        /\ UNCHANGED <<revision, journal, confirmed, issuer, lease, closed, lanes, frames,
                       http, known, budget>>
    BY <1>1, <1>7, <2>1, TargetsAssumption DEF Confirms
  <2> QED  BY <1>1, <1>3, <2>2, EventsKeep
<1>8. CASE RotateIssuer
  <2>1. /\ Spend /\ issuer' \in Nat
        /\ UNCHANGED <<revision, journal, evidence, confirmed, lease, closed, lanes, frames,
                       http, known>>
    BY <1>1, <1>8 DEF RotateIssuer
  <2> QED  BY <1>1, <1>2, <1>3, <2>1, EventsKeep
<1>9. CASE LeaseEnds
  BY <1>1, <1>2, <1>3, <1>9, EventsKeep DEF LeaseEnds
<1>10. CASE Dispose
  BY <1>1, <1>2, <1>3, <1>10, EventsKeep DEF Dispose, CloseSession
<1>11. CASE Reconnect
  <2>1. evidence' = [t \in Targets |->
                       [ready |-> TRUE, base |-> evidence[t].base + 1, issuer |-> issuer]]
    BY <1>11 DEF Reconnect
  <2>2. evidence' \in [Targets -> [ready : BOOLEAN, base : Nat \ {0}, issuer : Nat]]
    BY <1>1, <2>1
  <2>3. /\ closed' = FALSE /\ lease' = TRUE /\ confirmed' = issuer
        /\ UNCHANGED <<revision, journal, issuer, lanes, frames, http, known, budget>>
    BY <1>11 DEF Reconnect
  <2> QED  BY <1>1, <1>3, <2>2, <2>3, EventsKeep
<1> QED  BY <1>4, <1>5, <1>6, <1>7, <1>8, <1>9, <1>10, <1>11

LEMMA StepsKeep ==
  ASSUME CommandInv, [Next]_vars
  PROVE  CommandInv'
<1>1. CASE SessionStep
  BY <1>1, RunKeeps, AnswerStepsKeep DEF SessionStep
<1>2. CASE HttpBegin \/ HttpExecute
  BY <1>2, HttpBeginKeeps, HttpExecuteKeeps
<1>3. CASE UNCHANGED vars
  BY <1>3 DEF vars, CommandInv, Types, Paid
<1> QED  BY <1>1, <1>2, <1>3, EnvironmentKeeps DEF Next

\* Every answer the device has or is about to get is the journal's, no target's
\* lane has two holders, and every revision was paid for.
THEOREM CommandInvariant == Spec => []CommandInv
<1>1. Init => CommandInv
  BY InitEstablishes
<1>2. CommandInv /\ [Next]_vars => CommandInv'
  BY StepsKeep
<1> QED  BY <1>1, <1>2, PTL DEF Spec

\* Whatever the device was told of a command, over either route and on any
\* connection, is what the journal holds of it; and no target has two newly
\* recorded commands whose answers are not out.
THEOREM AnswersAreTheJournals == Spec => []AnswersAreJournalled
<1>1. ASSUME CommandInv
      PROVE  AnswersAreJournalled
  <2>1. \A a \in known : a.says \in Results =>
          Journalled(journal, a.op, a.target, a.intent, a.says)
    BY <1>1 DEF CommandInv
  <2>2. ASSUME NEW s \in Slots, NEW q \in Slots, s # q,
               frames[s].pc \in {"sign", "sending"}, frames[q].pc \in {"sign", "sending"},
               frames[s].new, frames[q].new
        PROVE  frames[s].target # frames[q].target
    <3>1. lanes[frames[s].target] = s /\ lanes[frames[q].target] = q
      BY <1>1, <2>2 DEF CommandInv, FrameInv
    <3> QED  BY <3>1, <2>2
  <2> QED  BY <2>1, <2>2 DEF AnswersAreJournalled, Journalled
<1> QED  BY <1>1, CommandInvariant, PTL
-----------------------------------------------------------------------------
(***************************************************************************)
(* The refinement.                                                         *)
(***************************************************************************)

\* A committed command is a decision of the abstract journal.
LEMMA CommitDecides ==
  ASSUME Types, NEW f, f.op \in Ops, f.target \in Targets, f.revision \in Named,
         NEW adm \in Admissions, Commit(f, Executed(f, adm).new)
  PROVE  [Journal!Next]_(Journal!vars)
<1> DEFINE new == Executed(f, adm).new
           c == Command(f)
<1>1. /\ journal \in Seq(CommandRecords) /\ revision \in [Targets -> Nat \ {0}]
      /\ new \in BOOLEAN /\ (new => \A i \in DOMAIN journal : journal[i].op # f.op)
  BY ExecutedAnswers DEF Types
<1>2. CASE ~new
  BY <1>1, <1>2 DEF Commit, Journal!vars, Decisions
<1>3. CASE new
  <2>1. /\ c \in CommandRecords
        /\ c.op = f.op /\ c.target = f.target /\ c.intent = f.revision
        /\ c.status = "applied" <=> f.revision = revision[f.target]
    BY DEF Command, CommandRecords, Results
  <2>2. journal' = Append(journal, c)
    BY <1>3 DEF Commit
  <2>3. IF f.revision = revision[f.target]
        THEN revision' = [revision EXCEPT ![f.target] = @ + 1] ELSE UNCHANGED revision
    BY <1>3, <2>1 DEF Commit
  <2> HIDE DEF c
  <2>4. Decisions' = Decisions \cup {Decided(c)}
    <3>1. /\ DOMAIN journal' = DOMAIN journal \cup {Len(journal) + 1}
          /\ journal'[Len(journal) + 1] = c
          /\ \A i \in DOMAIN journal : journal'[i] = journal[i]
      BY <1>1, <2>1, <2>2, AppendKeepsJournal
    <3> QED  BY <3>1 DEF Decisions
  <2>5. Decided(c) = [key |-> f.op, target |-> f.target, expected |-> f.revision,
                      applied |-> f.revision = revision[f.target]]
    BY <2>1 DEF Decided
  <2>6. Journal!Undecided(f.op)
    BY <1>1, <1>3 DEF Journal!Undecided, Decisions, Decided
  <2>7. ~Journal!Undecided(f.op)'
    BY <2>4, <2>5 DEF Journal!Undecided
  <2>8. Journal!Decide(f.op, f.target, f.revision)
    BY <2>3, <2>4, <2>5 DEF Journal!Decide, Journal!Advance
  <2>9. f.revision \in 0 .. (Budget + 2)
    BY BoundsAssumption DEF Named
  <2> QED  BY <2>6, <2>7, <2>8, <2>9 DEF Journal!Next
<1> QED  BY <1>1, <1>2, <1>3

LEMMA StepsOfTheJournal ==
  ASSUME CommandInv, [Next]_vars
  PROVE  [Journal!Next]_(Journal!vars)
<1>1. CASE UNCHANGED <<revision, journal>>
  BY <1>1 DEF Journal!vars, Decisions
<1>2. ASSUME NEW s \in Slots, Run(s), Commit(frames[s], Executed(frames[s], Admission(frames[s])).new)
      PROVE  [Journal!Next]_(Journal!vars)
  <2>1. frames[s] \in FrameRecords /\ Types
    BY <1>2 DEF Run, CommandInv, Types, NoFrame
  <2> QED  BY <2>1, <1>2, AdmissionGuards, CommitDecides DEF FrameRecords
<1>3. ASSUME HttpExecute, Commit(http, Executed(http, "admitted").new)
      PROVE  [Journal!Next]_(Journal!vars)
  <2>1. http \in HttpRecords /\ Types
    BY <1>3 DEF HttpExecute, CommandInv, Types
  <2> QED  BY <2>1, <1>3, TargetsAssumption, CommitDecides DEF HttpRecords, Admissions
<1>4. CASE ProductionChanges
  <2>1. PICK t \in Granted : revision' = [revision EXCEPT ![t] = @ + 1]
    BY <1>4 DEF ProductionChanges
  <2>2. Decisions' = Decisions
    BY <1>4 DEF ProductionChanges, Decisions
  <2> QED  BY <2>1, <2>2, TargetsAssumption DEF Journal!Next, Journal!Change, Journal!Advance
<1>5. ASSUME NEW s \in Slots, Run(s)
      PROVE  [Journal!Next]_(Journal!vars)
  BY <1>1, <1>2, <1>5 DEF Run
<1>6. CASE HttpExecute
  BY <1>1, <1>3, <1>6 DEF HttpExecute
<1>7. CASE SessionStep
  BY <1>1, <1>5, <1>7 DEF SessionStep, Sign, Sent, SendTimesOut
<1>8. CASE DeviceSends \/ ReceiveMalformed \/ HttpBegin \/ Confirms \/ RotateIssuer
             \/ LeaseEnds \/ Dispose \/ Reconnect \/ UNCHANGED vars
  <2>1. DeviceSends => UNCHANGED <<revision, journal>>
    <3>1. ASSUME NEW s, NEW op, NEW t, NEW r, NEW base, Receive(s, op, t, r, base)
          PROVE  UNCHANGED <<revision, journal>>
      BY <3>1 DEF Receive
    <3> QED  BY <3>1 DEF DeviceSends
  <2>2. HttpBegin => UNCHANGED <<revision, journal>>
    BY DEF HttpBegin
  <2>3. Confirms \/ Reconnect => UNCHANGED <<revision, journal>>
    BY DEF Confirms, Reconnect
  <2>4. ReceiveMalformed \/ RotateIssuer \/ LeaseEnds \/ Dispose \/ UNCHANGED vars
          => UNCHANGED <<revision, journal>>
    BY DEF ReceiveMalformed, RotateIssuer, LeaseEnds, Dispose, vars
  <2> QED  BY <2>1, <2>2, <2>3, <2>4, <1>1, <1>8
<1> QED  BY <1>4, <1>6, <1>7, <1>8 DEF Next

\* The session and the HTTP route together implement the abstract journal: a
\* command repeated on later connections is decided once, applied exactly when
\* it names its target's revision, and no target skips a revision.
THEOREM RoutesImplementJournal == Spec => ImplementsJournal
<1>1. Init => Journal!Init
  BY DEF Init, Journal!Init, Decisions
<1>2. CommandInv /\ [Next]_vars => [Journal!Next]_(Journal!vars)
  BY StepsOfTheJournal
<1> QED  BY <1>1, <1>2, CommandInvariant, PTL DEF Spec, ImplementsJournal, Journal!Spec
-----------------------------------------------------------------------------
(***************************************************************************)
(* The admission.                                                          *)
(***************************************************************************)

\* A frame leaves the store with a new command only through its own run.
LEMMA StepsAdmitCurrent ==
  ASSUME CommandInv, [Next]_vars, NEW s \in Slots,
         frames[s].pc = "run", frames'[s].pc = "sign", frames'[s].new
  PROVE  /\ evidence[frames[s].target].ready
         /\ evidence[frames[s].target].base = frames[s].base
         /\ evidence[frames[s].target].issuer = issuer
         /\ lease /\ ~closed
<1>0. frames \in [Slots -> FrameRecords \cup {NoFrame}] /\ NoFrame.pc = "free"
  BY DEF CommandInv, Types, NoFrame
<1>1. frames'[s] # frames[s] /\ frames'[s] # NoFrame
  BY <1>0
<1>2. ASSUME NEW q \in Slots, Ends(q)
      PROVE  FALSE
  BY <1>1, <1>2 DEF Ends
<1>3. ASSUME NEW q \in Slots \ {s}, NEW g, frames' = [frames EXCEPT ![q] = g]
      PROVE  FALSE
  BY <1>0, <1>1, <1>3
<1>4. ASSUME NEW q \in Slots, NEW op, NEW t, NEW r, NEW base, Receive(q, op, t, r, base)
      PROVE  FALSE
  <2>1. q # s
    BY <1>0, <1>4 DEF Receive
  <2>2. \E g : frames' = [frames EXCEPT ![q] = g]
    BY <1>4 DEF Receive
  <2> QED  BY <2>1, <2>2, <1>3
<1>5. ASSUME NEW q \in Slots, Sign(q) \/ Sent(q) \/ SendTimesOut(q)
      PROVE  FALSE
  <2>1. CASE Sign(q) /\ frames' = [frames EXCEPT ![q].pc = "sending"]
    <3>1. q # s
      BY <2>1 DEF Sign
    <3> QED  BY <2>1, <3>1, <1>3
  <2> QED  BY <2>1, <1>2, <1>5 DEF Sign, Sent, SendTimesOut
<1>6. Run(s)
  <2>1. ASSUME NEW q \in Slots \ {s}, Run(q)
        PROVE  FALSE
    <3>1. \/ Ends(q)
          \/ \E g : frames' = [frames EXCEPT ![q] = g]
      BY <2>1 DEF Run, Answers
    <3> QED  BY <3>1, <1>2, <1>3
  <2>2. ~UNCHANGED frames
    BY <1>1
  <2> QED  BY <2>1, <2>2, <1>4, <1>5
           DEF Next, SessionStep, DeviceSends, ReceiveMalformed, HttpBegin, HttpExecute,
               ProductionChanges, Confirms, RotateIssuer, LeaseEnds, Dispose, Reconnect, vars
<1>7. /\ Answers(s, frames[s], Executed(frames[s], Admission(frames[s])))
      /\ lease /\ ~closed
  BY <1>2, <1>6 DEF Run
<1>8. frames'[s].new = Executed(frames[s], Admission(frames[s])).new
  <2>1. frames[s] \in FrameRecords
    BY <1>0
  <2> QED  BY <2>1, <1>0, <1>7 DEF Answers, FrameRecords
<1>9. Admission(frames[s]) = "admitted"
  <2>1. journal \in Seq(CommandRecords)
    BY DEF CommandInv, Types
  <2> QED  BY <2>1, <1>8, AdmissionGuards, ExecutedAnswers
<1> QED  BY <1>7, <1>9, AdmissionGuards

\* A command the session records names the base the device has confirmed at
\* that moment, of a ready target, under the current key and a valid lease.
THEOREM AdmissionsAreCurrent == Spec => AdmissionIsCurrent
<1>1. CommandInv /\ [Next]_vars =>
        [\A s \in Slots :
           frames[s].pc = "run" /\ frames'[s].pc = "sign" /\ frames'[s].new =>
             /\ evidence[frames[s].target].ready
             /\ evidence[frames[s].target].base = frames[s].base
             /\ evidence[frames[s].target].issuer = issuer
             /\ lease /\ ~closed]_vars
  BY StepsAdmitCurrent
<1> QED  BY <1>1, CommandInvariant, PTL DEF Spec, AdmissionIsCurrent


(***************************************************************************)
(* The readiness registry.                                                 *)
(***************************************************************************)
LeaseRecords == [open : BOOLEAN, ready : SUBSET Granted]
EntryRecords == [lease : Nat \ {0}, generation : Nat, ready : SUBSET Granted]

RegistryTypes ==
  /\ generation \in Nat /\ suspended \in BOOLEAN
  /\ leases \in Seq(LeaseRecords)
  /\ entry \in EntryRecords \cup {Control!NoEntry}

RegistryInv == RegistryTypes /\ ReadinessBelongsToTheNewest

\* What the steps of calls and of the environment leave alone.
LEMMA RegistryRests ==
  ASSUME RegistryInv, UNCHANGED <<entry, leases, suspended>>, generation' \in Nat
  PROVE  RegistryInv'
  BY DEF RegistryInv, RegistryTypes, ReadinessBelongsToTheNewest, Control!ReadinessBelongsToTheNewest,
         Control!NoEntry

\* One lease changes.
LEMMA OneLease ==
  ASSUME leases \in Seq(LeaseRecords), NEW l \in DOMAIN leases, NEW r \in LeaseRecords
  PROVE  LET ls == [leases EXCEPT ![l] = r]
         IN  /\ ls \in Seq(LeaseRecords) /\ Len(ls) = Len(leases) /\ ls[l] = r
             /\ \A k \in 1 .. Len(leases) : k # l => ls[k] = leases[k]
  OBVIOUS

LEMMA RegistryMoves ==
  ASSUME Control!ControlAssumption, RegistryInv, Control!Leasing
  PROVE  RegistryInv'
<1>1. /\ generation' = generation /\ generation \in Nat
      /\ leases \in Seq(LeaseRecords) /\ Len(leases) \in Nat
      /\ suspended \in BOOLEAN
      /\ entry \in EntryRecords \cup {Control!NoEntry} /\ Control!NoEntry.lease = 0
  BY DEF RegistryInv, RegistryTypes, Control!Leasing, Control!Suspend, Control!Register,
         Control!CloseLease, Control!SetReady, Control!credential, Control!NoEntry
<1>2. ASSUME NEW g \in 1 .. generation, Control!Suspend(g)
      PROVE  RegistryInv'
  BY <1>1, <1>2 DEF RegistryInv, RegistryTypes, ReadinessBelongsToTheNewest,
     Control!ReadinessBelongsToTheNewest, Control!NoEntry, Control!Suspend
<1>3. ASSUME Control!Register
      PROVE  RegistryInv'
  <2> DEFINE new == [open |-> TRUE, ready |-> Granted]
             n == Len(leases) + 1
  <2>1. /\ leases' = Append(leases, new) /\ suspended' = FALSE
        /\ entry' = [lease |-> n, generation |-> generation, ready |-> Granted]
    BY <1>3 DEF Control!Register
  <2>2. /\ leases' \in Seq(LeaseRecords) /\ Len(leases') = n /\ leases'[n] = new
    <3>1. new \in LeaseRecords
      BY DEF LeaseRecords
    <3> HIDE DEF new
    <3> QED  BY <1>1, <2>1, <3>1
  <2>3. entry' \in EntryRecords /\ entry'.lease = n /\ entry'.ready = Granted
    BY <1>1, <2>1 DEF EntryRecords
  <2>4. new.open = TRUE /\ new.ready = Granted /\ n \in Nat /\ n > 0
    BY <1>1
  <2> HIDE DEF new, n
  <2> QED  BY <1>1, <2>1, <2>2, <2>3, <2>4 DEF RegistryInv, RegistryTypes, ReadinessBelongsToTheNewest,
              Control!ReadinessBelongsToTheNewest, Control!NoEntry
<1>4. ASSUME NEW l \in 1 .. MaxLeases, Control!CloseLease(l)
      PROVE  RegistryInv'
  <2>1. /\ l \in DOMAIN leases /\ leases' = [leases EXCEPT ![l].open = FALSE]
        /\ entry' = IF entry.lease = l THEN Control!NoEntry ELSE entry
        /\ suspended' = suspended
    BY <1>4 DEF Control!CloseLease, Control!OwnsEntry
  <2>2. /\ leases' \in Seq(LeaseRecords) /\ Len(leases') = Len(leases)
        /\ ~leases'[l].open
        /\ \A k \in 1 .. Len(leases) : k # l => leases'[k] = leases[k]
    <3> DEFINE r == [leases[l] EXCEPT !.open = FALSE]
    <3>1. leases[l] \in LeaseRecords
      BY <1>1, <2>1
    <3>2. r \in LeaseRecords /\ r.open = FALSE
      BY <3>1 DEF LeaseRecords
    <3>3. leases' = [leases EXCEPT ![l] = r]
      BY <2>1
    <3> HIDE DEF r
    <3>4. /\ leases' \in Seq(LeaseRecords) /\ Len(leases') = Len(leases) /\ leases'[l] = r
          /\ \A k \in 1 .. Len(leases) : k # l => leases'[k] = leases[k]
      <4>1. leases \in Seq(LeaseRecords) /\ l \in DOMAIN leases /\ r \in LeaseRecords
        BY <1>1, <2>1, <3>2
      <4> QED  BY <3>3, <4>1, OneLease
    <3>5. ~leases'[l].open
      BY <3>2, <3>4
    <3> QED  BY <3>4, <3>5
  <2> QED  BY <1>1, <2>1, <2>2 DEF RegistryInv, RegistryTypes, ReadinessBelongsToTheNewest,
              Control!ReadinessBelongsToTheNewest, Control!NoEntry
<1>5. ASSUME NEW l \in 1 .. MaxLeases, NEW t \in Targets, NEW ready \in BOOLEAN,
             Control!SetReady(l, t, ready)
      PROVE  RegistryInv'
  <2>1. PICK now \in SUBSET Granted :
          /\ l \in DOMAIN leases /\ leases' = [leases EXCEPT ![l].ready = now]
          /\ entry' = IF entry.lease = l THEN [entry EXCEPT !.ready = now] ELSE entry
          /\ suspended' = suspended
    <3> DEFINE now == IF ready THEN leases[l].ready \union {t} ELSE leases[l].ready \ {t}
    <3>1. t \in Granted /\ l \in DOMAIN leases
      BY <1>5 DEF Control!SetReady
    <3>2. leases[l].ready \in SUBSET Granted
      <4>1. leases[l] \in LeaseRecords
        BY <1>1, <3>1
      <4> QED  BY <4>1 DEF LeaseRecords
    <3>3. now \in SUBSET Granted
      BY <3>1, <3>2
    <3>4. /\ leases' = [leases EXCEPT ![l].ready = now]
          /\ entry' = IF entry.lease = l THEN [entry EXCEPT !.ready = now] ELSE entry
          /\ suspended' = suspended
      BY <1>5 DEF Control!SetReady, Control!OwnsEntry
    <3> QED  BY <3>1, <3>3, <3>4
  <2>2. /\ leases' \in Seq(LeaseRecords) /\ Len(leases') = Len(leases)
        /\ leases'[l].ready = now /\ leases'[l].open = leases[l].open
        /\ \A k \in 1 .. Len(leases) : k # l => leases'[k] = leases[k]
    <3> DEFINE r == [leases[l] EXCEPT !.ready = now]
    <3>1. leases[l] \in LeaseRecords
      BY <1>1, <2>1
    <3>2. r \in LeaseRecords /\ r.ready = now /\ r.open = leases[l].open
      BY <3>1 DEF LeaseRecords
    <3>3. leases' = [leases EXCEPT ![l] = r]
      BY <2>1
    <3> HIDE DEF r
    <3> DEFINE ls == [leases EXCEPT ![l] = r]
    <3>4. /\ ls \in Seq(LeaseRecords) /\ Len(ls) = Len(leases) /\ ls[l] = r
          /\ \A k \in 1 .. Len(leases) : k # l => ls[k] = leases[k]
      BY <1>1, <2>1, <3>2, OneLease
    <3>5. leases' = ls
      BY <3>3
    <3> HIDE DEF ls
    <3> QED  BY <3>2, <3>4, <3>5
  <2>3. CASE entry.lease = l
    <3>1. entry \in EntryRecords
      BY <1>1, <2>3
    <3>2. /\ entry' \in EntryRecords /\ entry'.lease = l /\ entry'.ready = now
      BY <2>1, <2>3, <3>1 DEF EntryRecords
    <3> QED  BY <1>1, <2>1, <2>2, <2>3, <3>1, <3>2 DEF RegistryInv, RegistryTypes, ReadinessBelongsToTheNewest,
                Control!ReadinessBelongsToTheNewest, Control!NoEntry
  <2>4. CASE entry.lease # l
    BY <1>1, <2>1, <2>2, <2>4 DEF RegistryInv, RegistryTypes, ReadinessBelongsToTheNewest,
       Control!ReadinessBelongsToTheNewest, Control!NoEntry
  <2> QED  BY <2>3, <2>4
<1> QED  BY <1>2, <1>3, <1>4, <1>5 DEF Control!Leasing

LEMMA RegistrySteps ==
  ASSUME Control!ControlAssumption, RegistryInv, [Control!Next]_(Control!vars)
  PROVE  RegistryInv'
<1>1. generation \in Nat /\ leases \in Seq(LeaseRecords)
  BY DEF RegistryInv, RegistryTypes
<1>2. CASE UNCHANGED Control!vars
  BY <1>1, <1>2, RegistryRests DEF Control!vars, Control!credential, Control!registry
<1>3. ASSUME NEW s \in Control!Slots, Control!CallStep(s) \/ Control!Requests(s)
      PROVE  RegistryInv'
  <2>1. UNCHANGED <<Control!credential, Control!registry>>
    BY <1>3 DEF Control!CallStep, Control!Requests, Control!Authorize, Control!ReadShow, Control!Catalog,
       Control!Visibility, Control!Take, Control!Deliver, Control!Garble, Control!Lose, Control!Drop,
       Control!Discover, Control!Press, Control!DeviceTakes, Control!DeviceSends, Control!Begin
  <2> QED  BY <1>1, <2>1, RegistryRests DEF Control!credential, Control!registry
<1>4. CASE Control!Leasing
  BY <1>4, RegistryMoves
<1>5. ASSUME \/ \E t \in Targets : Control!StudioChanges(t)
             \/ Control!ArchiveShow \/ Control!Revoke \/ Control!Rotate \/ Control!Reconfigure
      PROVE  RegistryInv'
  <2>1. UNCHANGED Control!registry /\ generation' \in {generation, generation + 1}
    BY <1>5 DEF Control!StudioChanges, Control!ArchiveShow, Control!Revoke, Control!Rotate,
       Control!Reconfigure, Control!credential
  <2> QED  BY <1>1, <2>1, RegistryRests DEF Control!registry
<1>6. CASE Control!Restart
  <2>1. /\ leases' = [l \in DOMAIN leases |-> [leases[l] EXCEPT !.open = FALSE]]
        /\ entry' = Control!NoEntry /\ suspended' = TRUE /\ generation' = generation
    BY <1>6 DEF Control!Restart, Control!credential
  <2>2. leases' \in Seq(LeaseRecords)
    <3>1. \A l \in 1 .. Len(leases) : [leases[l] EXCEPT !.open = FALSE] \in LeaseRecords
      <4> TAKE l \in 1 .. Len(leases)
      <4>1. leases[l] \in LeaseRecords
        BY <1>1
      <4> QED  BY <4>1 DEF LeaseRecords
    <3>2. DOMAIN leases = 1 .. Len(leases) /\ Len(leases) \in Nat
      BY <1>1
    <3> QED  BY <2>1, <3>1, <3>2
  <2>3. DOMAIN leases' = DOMAIN leases /\ \A l \in DOMAIN leases' : ~leases'[l].open
    <3> SUFFICES ASSUME NEW l \in DOMAIN leases
                 PROVE  ~leases'[l].open
      BY <2>1
    <3>1. leases[l] \in LeaseRecords /\ leases'[l] = [leases[l] EXCEPT !.open = FALSE]
      BY <1>1, <2>1
    <3> QED  BY <3>1 DEF LeaseRecords
  <2>4. Len(leases') > 0 => Len(leases') \in DOMAIN leases'
    BY <2>2
  <2> QED  BY <1>1, <2>1, <2>2, <2>3, <2>4 DEF RegistryInv, RegistryTypes, ReadinessBelongsToTheNewest,
              Control!ReadinessBelongsToTheNewest, Control!NoEntry
<1> QED  BY <1>2, <1>3, <1>4, <1>5, <1>6 DEF Control!Next

LEMMA RegistryStarts ==
  ASSUME Control!Init
  PROVE  RegistryInv
<1>1. /\ generation = 1 /\ suspended = FALSE /\ leases = <<>> /\ entry = Control!NoEntry
  BY DEF Control!Init
<1>2. leases \in Seq(LeaseRecords) /\ Len(leases) = 0
  BY <1>1
<1>3. RegistryTypes
  BY <1>1, <1>2 DEF RegistryTypes
<1>4. ~(Len(leases) > 0) /\ ~(entry # Control!NoEntry)
  BY <1>1, <1>2
<1>5. ReadinessBelongsToTheNewest
  BY <1>4, Zenon DEF ReadinessBelongsToTheNewest, Control!ReadinessBelongsToTheNewest
<1> QED  BY <1>3, <1>5 DEF RegistryInv

(* Whatever sessions of a credential overlap, end late or report late, and *)
(* over restarts: the registry's entry is what the newest of them last     *)
(* said, and there is none once that session is closed.                    *)
THEOREM TheNewestSessionIsHeard == Control!Spec => []ReadinessBelongsToTheNewest
<1>1. Control!Init => RegistryInv
  BY RegistryStarts
<1>2. RegistryInv /\ [Control!Next]_(Control!vars) => RegistryInv'
  BY RoutesAssumption, RegistrySteps
<1>3. RegistryInv => ReadinessBelongsToTheNewest
  BY DEF RegistryInv
<1> QED  BY <1>1, <1>2, <1>3, PTL DEF Control!Spec


(***************************************************************************)
(* What callers are told.                                                  *)
(***************************************************************************)
CallReplies == {"none", "refused", "catalog", "taken"} \cup Control!Outcomes
CallRecords ==
  [pc : {"received", "show", "execute", "answered"}, kind : {"discover", "visibility", "take"},
   shape : {"ok"} \cup Control!Shapes, op : Presses \cup {"none"},
   target : Targets \cup {"program", "none"}, expected : Nat, token : Nat, waiting : BOOLEAN,
   answer : CallReplies, begun : BOOLEAN, outlived : BOOLEAN]
EffectRecords ==
  [kind : {"visibility", "take"}, op : Presses, target : Targets \cup {"program", "none"},
   alive : BOOLEAN]

(* A call asks for an operation of its device; an outcome it brings back is *)
(* the journal's; its caller waits, or was told that nothing is known; and  *)
(* it began under a living authority, which has not ended ahead of a look   *)
(* of the route, if it can still have an effect.                            *)
Alive(r) == r.begun /\ ~r.outlived
CallShape(r) == r \in CallRecords /\ (r.kind # "discover" => r.op \in Presses)
CallTells(r, cmds, told) ==
  /\ r.answer \in Control!Outcomes => r.op \in DOMAIN cmds /\ r.answer = cmds[r.op].status
  /\ ~r.waiting /\ r.op \in Presses => "unknown" \in told[r.op]
CallAuthority(r, sh, rv, g) ==
  /\ r.token <= g
  /\ r.pc = "received" /\ ~rv /\ r.token = g /\ sh = "live" => Alive(r)
  /\ r.pc = "show" /\ sh = "live" => Alive(r)
  /\ r.pc = "execute" => Alive(r)

(* The call will tell its caller more than a refusal. *)
Confesses(r, o) ==
  /\ r # Control!Free /\ r.op = o /\ r.waiting /\ r.pc = "answered" /\ r.answer # "refused"

Knows(o) ==
  \/ \E x \in answers[o] : x # "refused"
  \/ \E s \in Control!Slots : Confesses(calls[s], o)

CallsInv ==
  /\ calls = [s \in Control!Slots |-> calls[s]]
  /\ \A s \in Control!Slots : calls[s] # Control!Free =>
       /\ CallShape(calls[s]) /\ CallTells(calls[s], commands, answers)
       /\ CallAuthority(calls[s], show, revoked, generation)

(* Every effect is of a live authority; a visibility command's is in the   *)
(* journal; and the caller knows of it, or is about to, or knows nothing.  *)
EffectsInv ==
  /\ effects \in Seq(EffectRecords)
  /\ \A i \in DOMAIN effects :
       /\ effects[i].alive
       /\ effects[i].kind = "visibility" => effects[i].op \in DOMAIN commands
       /\ Knows(effects[i].op)
  /\ \A i, j \in DOMAIN effects :
       effects[i].kind = "visibility" /\ effects[j].kind = "visibility" /\ effects[i].op = effects[j].op
         => i = j

ToldInv ==
  /\ answers = [o \in Presses |-> answers[o]]
  /\ \A o \in Presses : \A x \in answers[o] \intersect Control!Outcomes :
       o \in DOMAIN commands /\ x = commands[o].status

ControlTypes ==
  /\ generation \in Nat /\ revoked \in BOOLEAN /\ token \in Nat /\ token <= generation
  /\ show \in {"live", "missing", "archived"}
  /\ \A o \in DOMAIN commands : commands[o].status \in Control!Outcomes

OutcomeInv == ControlTypes /\ CallsInv /\ EffectsInv /\ ToldInv

-----------------------------------------------------------------------------
\* A slot's call changes.
LEMMA OneCall ==
  ASSUME CallsInv, NEW s \in Control!Slots, NEW r, calls' = [calls EXCEPT ![s] = r]
  PROVE  /\ calls' = [q \in Control!Slots |-> calls'[q]]
         /\ calls'[s] = r /\ \A q \in Control!Slots \ {s} : calls'[q] = calls[q]
  BY DEF CallsInv

\* The other calls' invariant, when nobody's authority comes back.
LEMMA CallKeeps ==
  ASSUME ControlTypes, NEW r, CallShape(r), CallTells(r, commands, answers),
         CallAuthority(r, show, revoked, generation),
         \A o \in DOMAIN commands : o \in DOMAIN commands' /\ commands'[o] = commands[o],
         \A o \in Presses : answers[o] \subseteq answers'[o],
         show' = "live" => show = "live",
         revoked => revoked', generation' \in Nat, generation' >= generation
  PROVE  CallTells(r, commands', answers') /\ CallAuthority(r, show', revoked', generation')
<1>1. r.token \in Nat /\ generation \in Nat
  BY DEF CallShape, CallRecords, ControlTypes
<1>2. CallTells(r, commands', answers')
  BY DEF CallTells
<1>3. CallAuthority(r, show', revoked', generation')
  <2>1. r.token <= generation'
    BY <1>1 DEF CallAuthority
  <2>2. ASSUME r.pc = "received", ~revoked', r.token = generation', show' = "live"
        PROVE  Alive(r)
    <3>1. ~revoked /\ r.token = generation /\ show = "live"
      BY <1>1, <2>2 DEF CallAuthority
    <3> QED  BY <2>2, <3>1 DEF CallAuthority
  <2> QED  BY <2>1, <2>2 DEF CallAuthority
<1> QED  BY <1>2, <1>3

\* Nothing is unwritten or unsaid, and no authority comes back.
Onward ==
  /\ \A o \in DOMAIN commands : o \in DOMAIN commands' /\ commands'[o] = commands[o]
  /\ \A o \in DOMAIN commands' : commands'[o].status \in Control!Outcomes
  /\ \A o \in Presses : answers[o] \subseteq answers'[o]
  /\ show' \in {"live", "missing", "archived"} /\ (show' = "live" => show = "live")
  /\ revoked' \in BOOLEAN /\ (revoked => revoked')
  /\ generation' \in Nat /\ generation' >= generation
  /\ token' \in Nat /\ token' <= generation'

LEMMA TypesKeep == ASSUME Onward PROVE ControlTypes'
  BY DEF Onward, ControlTypes

LEMMA CallsKeep ==
  ASSUME OutcomeInv, Onward, NEW q \in Control!Slots, calls[q] # Control!Free
  PROVE  /\ CallShape(calls[q]) /\ CallTells(calls[q], commands', answers')
         /\ CallAuthority(calls[q], show', revoked', generation')
<1>1. /\ CallShape(calls[q]) /\ CallTells(calls[q], commands, answers)
      /\ CallAuthority(calls[q], show, revoked, generation)
  BY DEF OutcomeInv, CallsInv
<1>2. ControlTypes
  BY DEF OutcomeInv
<1> QED  BY <1>1, <1>2, CallKeeps DEF Onward

\* One call moves, or ends.
LEMMA CallMoves ==
  ASSUME OutcomeInv, Onward, NEW s \in Control!Slots, NEW r, calls' = [calls EXCEPT ![s] = r],
         r # Control!Free =>
           /\ CallShape(r) /\ CallTells(r, commands', answers')
           /\ CallAuthority(r, show', revoked', generation')
  PROVE  CallsInv'
<1>1. /\ calls' = [q \in Control!Slots |-> calls'[q]]
      /\ calls'[s] = r /\ \A q \in Control!Slots \ {s} : calls'[q] = calls[q]
  BY OneCall DEF OutcomeInv
<1>2. ASSUME NEW q \in Control!Slots, calls'[q] # Control!Free
      PROVE  /\ CallShape(calls'[q]) /\ CallTells(calls'[q], commands', answers')
             /\ CallAuthority(calls'[q], show', revoked', generation')
  <2>1. CASE q = s
    BY <1>1, <1>2, <2>1
  <2>2. CASE q # s
    <3>1. calls'[q] = calls[q] /\ calls[q] # Control!Free
      BY <1>1, <1>2, <2>2
    <3> QED  BY <3>1, CallsKeep
  <2> QED  BY <2>1, <2>2
<1> QED  BY <1>1, <1>2 DEF CallsInv, Control!Free, Control!Slots

\* No effect, and nobody forgets one.
LEMMA EffectsKeep ==
  ASSUME EffectsInv, Onward, effects' = effects, \A o \in Presses : Knows(o) => Knows(o)'
  PROVE  EffectsInv'
<1>1. ASSUME NEW i \in DOMAIN effects
      PROVE  Knows(effects[i].op)'
  <2>1. effects[i] \in EffectRecords
    BY <1>1 DEF EffectsInv
  <2>2. effects[i].op \in Presses
    BY <2>1 DEF EffectRecords
  <2>3. Knows(effects[i].op)
    BY <1>1 DEF EffectsInv
  <2>4. effects'[i].op = effects[i].op
    OBVIOUS
  <2>5. Knows(effects[i].op)'
    BY <2>2, <2>3, <2>4
  <2> QED  BY <2>5
<1> QED  BY <1>1 DEF EffectsInv, Onward

LEMMA ToldKeeps ==
  ASSUME ToldInv, Onward, answers' = answers
  PROVE  ToldInv'
  BY DEF ToldInv, Onward

\* What leaves the calls and the journal alone.
LEMMA EnvironmentMoves ==
  ASSUME OutcomeInv, Onward, UNCHANGED <<calls, effects, answers>>
  PROVE  OutcomeInv'
<1>1. CallsInv'
  <2>1. calls' = [q \in Control!Slots |-> calls'[q]]
    BY DEF OutcomeInv, CallsInv
  <2> QED  BY <2>1, CallsKeep DEF CallsInv, Control!Free, Control!Slots
<1>2. \A o \in Presses : Knows(o) => Knows(o)'
  BY DEF Knows, Control!Slots
<1>3. EffectsInv' /\ ToldInv'
  BY <1>2, EffectsKeep, ToldKeeps DEF OutcomeInv
<1> QED  BY <1>1, <1>3, TypesKeep DEF OutcomeInv

-----------------------------------------------------------------------------
\* A step of a call that production does not see.
Quiet == UNCHANGED <<show, generation, revoked, token, revisions, commands, receipts, effects>>

LEMMA QuietIsOnward ==
  ASSUME OutcomeInv, Quiet, \A o \in Presses : answers[o] \subseteq answers'[o]
  PROVE  Onward
  BY DEF OutcomeInv, ControlTypes, Onward, Quiet

\* A call goes on, without an answer or with one.
LEMMA CallGoesOn ==
  ASSUME NEW c \in CallRecords, NEW pc \in {"show", "execute"}
  PROVE  LET r == [c EXCEPT !.pc = pc]
         IN  /\ r \in CallRecords /\ r.pc = pc /\ r.op = c.op /\ r.kind = c.kind /\ r.begun = c.begun
             /\ r.outlived = c.outlived
             /\ r.token = c.token /\ r.answer = c.answer /\ r.waiting = c.waiting
  BY DEF CallRecords

LEMMA CallIsAnswered ==
  ASSUME NEW c \in CallRecords, NEW a \in CallReplies
  PROVE  LET r == [c EXCEPT !.pc = "answered", !.answer = a]
         IN  /\ r \in CallRecords /\ r.pc = "answered" /\ r.op = c.op /\ r.kind = c.kind
             /\ r.token = c.token /\ r.answer = a /\ r.waiting = c.waiting
  BY DEF CallRecords

\* A call that was not answered confesses nothing; who moves it loses nothing.
LEMMA OthersStillKnow ==
  ASSUME CallsInv, NEW s \in Control!Slots, NEW r, calls' = [calls EXCEPT ![s] = r],
         NEW o, Knows(o), ~Confesses(calls[s], o), answers[o] \subseteq answers'[o]
  PROVE  Knows(o)'
<1>1. \A q \in Control!Slots \ {s} : calls'[q] = calls[q]
  BY OneCall
<1>2. CASE \E x \in answers[o] : x # "refused"
  BY <1>2 DEF Knows
<1>3. CASE \E q \in Control!Slots : Confesses(calls[q], o)
  <2>1. PICK q \in Control!Slots : Confesses(calls[q], o)
    BY <1>3
  <2>2. q # s
    BY <2>1
  <2>3. Confesses(calls'[q], o)
    BY <1>1, <2>1, <2>2
  <2> QED  BY <2>3 DEF Knows, Confesses, Control!Slots, Control!Free
<1> QED  BY <1>2, <1>3 DEF Knows

LEMMA CallBegins ==
  ASSUME Control!ControlAssumption, OutcomeInv, NEW s \in Control!Slots,
         NEW kind \in {"discover", "visibility", "take"}, NEW shape \in {"ok"} \cup Control!Shapes,
         NEW o \in Presses \cup {"none"}, NEW t \in Targets \cup {"program", "none"}, NEW n \in Nat,
         kind # "discover" => o \in Presses, Control!Begin(s, kind, shape, o, t, n)
  PROVE  OutcomeInv'
<1> DEFINE b == Control!Live(token) /\ show = "live"
           r == [pc |-> "received", kind |-> kind, shape |-> shape, op |-> o, target |-> t,
                 expected |-> n, token |-> token, waiting |-> TRUE, answer |-> "none", begun |-> b,
                 outlived |-> FALSE]
<1>1. /\ calls[s] = Control!Free /\ calls' = [calls EXCEPT ![s] = r]
      /\ Quiet /\ answers' = answers
  BY DEF Control!Begin, Control!credential, Control!server, Control!client, Quiet
<1>2. Onward /\ CallsInv /\ ControlTypes
  BY <1>1, QuietIsOnward DEF OutcomeInv
<1>3. b \in BOOLEAN /\ (~revoked /\ token = generation /\ show = "live" => b)
  BY DEF Control!Live
<1>4. r \in CallRecords /\ r.pc = "received" /\ r.token = token /\ r.answer = "none" /\ r.begun = b
      /\ ~r.outlived /\ r.op = o /\ r.kind = kind /\ r.waiting = TRUE
  <2> HIDE DEF b
  <2> QED  BY <1>2, <1>3 DEF CallRecords, CallReplies, ControlTypes
<1>5. CallShape(r) /\ CallTells(r, commands', answers')
  <2> HIDE DEF r
  <2> QED  BY <1>4 DEF CallShape, CallTells, Control!Outcomes
<1>6. CallAuthority(r, show', revoked', generation')
  <2>1. show' = show /\ revoked' = revoked /\ generation' = generation
    BY <1>1 DEF Quiet
  <2> HIDE DEF r, b
  <2> QED  BY <1>2, <1>3, <1>4, <2>1 DEF CallAuthority, Alive, ControlTypes
<1>7. CallsInv'
  <2> HIDE DEF r
  <2> QED  BY <1>1, <1>2, <1>5, <1>6, CallMoves
<1>8. ASSUME NEW oo \in Presses, Knows(oo)
      PROVE  Knows(oo)'
  <2>1. ~Confesses(calls[s], oo)
    BY <1>1 DEF Confesses
  <2> HIDE DEF r
  <2> QED  BY <1>1, <1>2, <1>8, <2>1, OthersStillKnow
<1>9. effects' = effects
  BY <1>1 DEF Quiet
<1>10. EffectsInv' /\ ToldInv'
  BY <1>1, <1>2, <1>8, <1>9, EffectsKeep, ToldKeeps DEF OutcomeInv
<1> QED  BY <1>2, <1>7, <1>10, TypesKeep DEF OutcomeInv

LEMMA RequestsBegin ==
  ASSUME Control!ControlAssumption, OutcomeInv, NEW s \in Control!Slots, Control!Requests(s)
  PROVE  OutcomeInv'
<1>1. CASE Control!Discover(s)
  BY <1>1, CallBegins DEF Control!Discover
<1>2. ASSUME NEW o \in Presses, NEW t \in Targets, NEW n \in 1 .. Events, Control!Press(s, o, t, n)
      PROVE  OutcomeInv'
  BY <1>2, CallBegins DEF Control!Press
<1>3. ASSUME NEW o \in Presses, NEW n \in 1 .. Events, Control!DeviceTakes(s, o, n)
      PROVE  OutcomeInv'
  BY <1>3, CallBegins DEF Control!DeviceTakes
<1>4. ASSUME NEW o \in Presses, NEW shape \in Control!Shapes, Control!DeviceSends(s, o, shape)
      PROVE  OutcomeInv'
  BY <1>4, CallBegins DEF Control!DeviceSends
<1> QED  BY <1>1, <1>2, <1>3, <1>4 DEF Control!Requests

\* The route before it executes, or with nothing to execute.
LEMMA RouteAsks ==
  ASSUME OutcomeInv, NEW s \in Control!Slots,
         Control!Authorize(s) \/ Control!ReadShow(s) \/ Control!Catalog(s)
  PROVE  OutcomeInv'
<1> DEFINE c == calls[s]
<1>1. /\ Quiet /\ answers' = answers /\ c.pc \in {"received", "show", "execute"}
  BY DEF Control!Authorize, Control!ReadShow, Control!Catalog, Control!credential, Control!server,
     Control!client, Quiet
<1>2. Onward /\ CallsInv /\ ControlTypes /\ UNCHANGED <<show, revoked, generation, commands>>
  BY <1>1, QuietIsOnward DEF OutcomeInv, Quiet
<1>3. c # Control!Free /\ c \in CallRecords /\ CallShape(c) /\ CallTells(c, commands, answers)
      /\ CallAuthority(c, show, revoked, generation)
  <2>1. c # Control!Free
    BY <1>1 DEF Control!Free
  <2> QED  BY <1>2, <2>1 DEF CallsInv, CallShape
<1>4. PICK r : /\ calls' = [calls EXCEPT ![s] = r]
               /\ CallShape(r) /\ CallTells(r, commands, answers)
               /\ CallAuthority(r, show, revoked, generation)
  <2>1. CASE Control!Authorize(s) /\ Control!Admitted(c)
    <3> DEFINE r == [c EXCEPT !.pc = "show"]
    <3>1. calls' = [calls EXCEPT ![s] = r] /\ c.pc = "received"
      BY <2>1 DEF Control!Authorize, Control!Goes
    <3>2. ~revoked /\ c.token = generation
      BY <2>1 DEF Control!Admitted, Control!Authorized, Control!Live
    <3>3. show = "live" => Alive(c)
      BY <1>3, <3>1, <3>2 DEF CallAuthority
    <3>4. r \in CallRecords /\ r.pc = "show" /\ r.op = c.op /\ r.kind = c.kind /\ r.begun = c.begun
          /\ r.outlived = c.outlived
          /\ r.token = c.token /\ r.answer = c.answer /\ r.waiting = c.waiting
      BY <1>3, CallGoesOn
    <3> HIDE DEF r, c
    <3> QED  BY <1>3, <3>1, <3>3, <3>4 DEF CallShape, CallTells, CallAuthority, Alive
  <2>2. CASE Control!ReadShow(s) /\ Control!Controllable
    <3> DEFINE r == [c EXCEPT !.pc = "execute"]
    <3>1. calls' = [calls EXCEPT ![s] = r] /\ c.pc = "show"
      BY <2>2 DEF Control!ReadShow, Control!Goes
    <3>2. Alive(c)
      BY <1>3, <2>2, <3>1 DEF CallAuthority, Control!Controllable
    <3>4. r \in CallRecords /\ r.pc = "execute" /\ r.op = c.op /\ r.kind = c.kind /\ r.begun = c.begun
          /\ r.outlived = c.outlived
          /\ r.token = c.token /\ r.answer = c.answer /\ r.waiting = c.waiting
      BY <1>3, CallGoesOn
    <3> HIDE DEF r, c
    <3> QED  BY <1>3, <3>1, <3>2, <3>4 DEF CallShape, CallTells, CallAuthority, Alive
  <2>3. CASE ~(Control!Authorize(s) /\ Control!Admitted(c)) /\ ~(Control!ReadShow(s) /\ Control!Controllable)
    <3>1. PICK a \in {"refused", "catalog"} : Control!Answered(s, a)
      BY <2>3 DEF Control!Authorize, Control!ReadShow, Control!Catalog
    <3> DEFINE r == [c EXCEPT !.pc = "answered", !.answer = a]
    <3>2. calls' = [calls EXCEPT ![s] = r]
      BY <3>1 DEF Control!Answered
    <3>3. a \in CallReplies /\ a \notin Control!Outcomes
      BY DEF CallReplies, Control!Outcomes
    <3>4. r \in CallRecords /\ r.pc = "answered" /\ r.op = c.op /\ r.kind = c.kind
          /\ r.token = c.token /\ r.answer = a /\ r.waiting = c.waiting
      BY <1>3, <3>3, CallIsAnswered
    <3> HIDE DEF r, c
    <3> QED  BY <1>3, <3>2, <3>3, <3>4 DEF CallShape, CallTells, CallAuthority
  <2> QED  BY <2>1, <2>2, <2>3
<1>5. CallsInv'
  <2>1. show' = show /\ revoked' = revoked /\ generation' = generation /\ commands' = commands /\ answers' = answers
    BY <1>1, <1>2
  <2> QED  BY <1>2, <1>4, <2>1, CallMoves
<1>6. ASSUME NEW o \in Presses, Knows(o)
      PROVE  Knows(o)'
  <2>1. ~Confesses(c, o)
    BY <1>1 DEF Confesses
  <2> QED  BY <1>1, <1>2, <1>4, <1>6, <2>1, OthersStillKnow
<1>7. effects' = effects
  BY <1>1 DEF Quiet
<1>8. EffectsInv' /\ ToldInv'
  BY <1>1, <1>2, <1>6, <1>7, EffectsKeep, ToldKeeps DEF OutcomeInv
<1> QED  BY <1>2, <1>5, <1>8, TypesKeep DEF OutcomeInv

\* A call in execution is answered.
LEMMA Executes ==
  ASSUME OutcomeInv, Onward, NEW s \in Control!Slots, calls[s].pc = "execute",
         NEW a \in CallReplies, Control!Answered(s, a), answers' = answers,
         a \in Control!Outcomes =>
           calls[s].op \in DOMAIN commands' /\ a = commands'[calls[s].op].status
  PROVE  /\ CallsInv' /\ \A o \in Presses : Knows(o) => Knows(o)'
         /\ Alive(calls[s]) /\ calls[s] \in CallRecords /\ (calls[s].kind # "discover" => calls[s].op \in Presses)
         /\ \A o \in Presses : o = calls[s].op /\ a # "refused" => Knows(o)'
<1> DEFINE c == calls[s]
           r == [c EXCEPT !.pc = "answered", !.answer = a]
<1>1. c # Control!Free
  BY DEF Control!Free
<1>2. /\ CallsInv /\ c \in CallRecords /\ CallShape(c) /\ CallTells(c, commands', answers')
      /\ CallAuthority(c, show', revoked', generation') /\ Alive(c)
  <2>1. CallAuthority(c, show, revoked, generation) /\ CallsInv
    BY <1>1 DEF OutcomeInv, CallsInv
  <2>2. Alive(c)
    BY <2>1 DEF CallAuthority
  <2> QED  BY <1>1, <2>1, <2>2, CallsKeep DEF CallShape
<1>3. calls' = [calls EXCEPT ![s] = r]
  BY DEF Control!Answered
<1>4. r \in CallRecords /\ r.pc = "answered" /\ r.op = c.op /\ r.kind = c.kind
      /\ r.token = c.token /\ r.answer = a /\ r.waiting = c.waiting
  BY <1>2, CallIsAnswered
<1>5. /\ CallShape(r) /\ CallTells(r, commands', answers')
      /\ CallAuthority(r, show', revoked', generation')
  <2> HIDE DEF r
  <2> QED  BY <1>2, <1>4 DEF CallShape, CallTells, CallAuthority
<1>6. CallsInv'
  <2> HIDE DEF r
  <2> QED  BY <1>3, <1>5, CallMoves
<1>7. ASSUME NEW o \in Presses, Knows(o)
      PROVE  Knows(o)'
  <2>1. ~Confesses(c, o)
    BY DEF Confesses
  <2> HIDE DEF r
  <2> QED  BY <1>2, <1>3, <1>7, <2>1, OthersStillKnow
<1>8. ASSUME NEW o \in Presses, o = c.op, a # "refused"
      PROVE  Knows(o)'
  <2>1. CASE c.waiting
    <3>1. calls'[s] = r
      BY <1>2, <1>3, OneCall
    <3>2. r # Control!Free
      BY <1>4 DEF Control!Free
    <3> HIDE DEF r
    <3>3. Confesses(calls'[s], o)
      BY <1>4, <1>8, <2>1, <3>1, <3>2 DEF Confesses
    <3>4. \E q \in Control!Slots : Confesses(calls'[q], o)
      BY <3>3
    <3> QED  BY <3>4 DEF Knows, Confesses, Control!Slots, Control!Free
  <2>2. CASE ~c.waiting
    <3>1. "unknown" \in answers'[o]
      BY <1>2, <1>8, <2>2 DEF CallTells
    <3> QED  BY <3>1 DEF Knows
  <2> QED  BY <2>1, <2>2
<1> QED  BY <1>2, <1>6, <1>7, <1>8 DEF CallShape

\* The effect of a command, of which nobody knew.
LEMMA EffectAdded ==
  ASSUME OutcomeInv, Onward, NEW c \in CallRecords, c.kind \in {"visibility", "take"}, c.op \in Presses,
         Alive(c), effects' = Append(effects, Control!Effect(c)),
         \A o \in Presses : Knows(o) => Knows(o)',
         \A o \in Presses : o = c.op => Knows(o)',
         c.kind = "visibility" => c.op \notin DOMAIN commands /\ c.op \in DOMAIN commands'
  PROVE  EffectsInv'
<1> DEFINE e == Control!Effect(c)
           n == Len(effects) + 1
<1>1. e \in EffectRecords /\ e.kind = c.kind /\ e.op = c.op /\ e.alive
  BY DEF Control!Effect, Alive, EffectRecords, CallRecords
<1>2. effects \in Seq(EffectRecords) /\ EffectsInv
  BY DEF OutcomeInv, EffectsInv
<1> HIDE DEF e
<1>3. /\ effects' \in Seq(EffectRecords) /\ DOMAIN effects' = 1 .. n /\ DOMAIN effects = 1 .. (n - 1)
      /\ n \in Nat /\ effects'[n] = e /\ \A i \in 1 .. (n - 1) : effects'[i] = effects[i]
  BY <1>1, <1>2 DEF e
<1>4. ASSUME NEW i \in 1 .. n
      PROVE  /\ effects'[i].alive
             /\ effects'[i].kind = "visibility" => effects'[i].op \in DOMAIN commands'
             /\ Knows(effects[i].op)'
  <2>0. effects'[i] \in EffectRecords
    BY <1>3
  <2>1. CASE i = n
    <3>1. \A o \in Presses : o = effects'[i].op => Knows(o)'
      BY <1>1, <1>3, <2>1
    <3>2. effects'[i].op \in Presses
      BY <2>0 DEF EffectRecords
    <3>3. effects'[i].alive /\ (effects'[i].kind = "visibility" => effects'[i].op \in DOMAIN commands')
      BY <1>1, <1>3, <2>1
    <3> QED  BY <3>1, <3>2, <3>3
  <2>2. CASE i # n
    <3>1. i \in DOMAIN effects /\ effects'[i] = effects[i]
      BY <1>3, <2>2
    <3>2. effects[i].alive /\ (effects[i].kind = "visibility" => effects[i].op \in DOMAIN commands)
          /\ Knows(effects[i].op)
      BY <1>2, <3>1 DEF EffectsInv
    <3>3. effects[i].op \in Presses
      BY <2>0, <3>1 DEF EffectRecords
    <3>4. \A o \in Presses : o = effects[i].op => Knows(o)'
      BY <3>2
    <3>5. Knows(effects[i].op)'
      BY <3>1, <3>3, <3>4
    <3> QED  BY <3>1, <3>2, <3>5 DEF Onward
  <2> QED  BY <2>1, <2>2
<1>5. ASSUME NEW i \in 1 .. n, NEW j \in 1 .. n, effects'[i].kind = "visibility",
             effects'[j].kind = "visibility", effects'[i].op = effects'[j].op
      PROVE  i = j
  <2>1. \A k \in 1 .. (n - 1) : effects[k].kind = "visibility" => effects[k].op \in DOMAIN commands
    BY <1>2, <1>3 DEF EffectsInv
  <2>2. \A k \in 1 .. (n - 1) : effects[k].kind = "visibility" /\ c.kind = "visibility" => effects[k].op # c.op
    BY <2>1
  <2>3. CASE i = n /\ j # n
    BY <1>1, <1>3, <1>5, <2>2, <2>3
  <2>4. CASE i # n /\ j = n
    BY <1>1, <1>3, <1>5, <2>2, <2>4
  <2>5. CASE i # n /\ j # n
    BY <1>2, <1>3, <1>5, <2>5 DEF EffectsInv
  <2> QED  BY <2>3, <2>4, <2>5
<1> QED  BY <1>3, <1>4, <1>5 DEF EffectsInv

LEMMA VisibilityExecutes ==
  ASSUME OutcomeInv, NEW s \in Control!Slots, Control!Visibility(s)
  PROVE  OutcomeInv'
<1> DEFINE c == calls[s]
           status == Control!Status(c)
           row == [target |-> c.target, expected |-> c.expected, status |-> status]
<1>1. /\ c.pc = "execute" /\ c.kind = "visibility" /\ answers' = answers
      /\ UNCHANGED <<show, generation, revoked, token>>
  BY DEF Control!Visibility, Control!credential, Control!client
<1>2. ControlTypes /\ CallsInv /\ ToldInv /\ EffectsInv
  BY DEF OutcomeInv
<1>3. ASSUME c.op \in DOMAIN commands
      PROVE  OutcomeInv'
  <2>1. PICK a : /\ Control!Answered(s, a) /\ a \in {commands[c.op].status, "refused"}
    BY <1>3 DEF Control!Visibility
  <2>2. Quiet
    BY <1>1, <1>3 DEF Control!Visibility, Control!server, Quiet
  <2>3. Onward
    BY <1>1, <2>2, QuietIsOnward
  <2>4. commands[c.op].status \in Control!Outcomes
    BY <1>2, <1>3 DEF ControlTypes
  <2>5. a \in CallReplies /\ (a \in Control!Outcomes => c.op \in DOMAIN commands' /\ a = commands'[c.op].status)
    BY <1>3, <2>1, <2>2, <2>4 DEF CallReplies, Control!Outcomes, Quiet
  <2>6. CallsInv' /\ \A o \in Presses : Knows(o) => Knows(o)'
    <3> HIDE DEF c
    <3> QED  BY <1>1, <2>1, <2>3, <2>5, Executes DEF c
  <2>7. EffectsInv' /\ ToldInv'
    BY <1>1, <1>2, <2>2, <2>3, <2>6, EffectsKeep, ToldKeeps DEF Quiet
  <2> QED  BY <2>3, <2>6, <2>7, TypesKeep DEF OutcomeInv
<1>4. ASSUME c.op \notin DOMAIN commands
      PROVE  OutcomeInv'
  <2>1. /\ commands' = Control!With(commands, c.op, row) /\ Control!Answered(s, status)
        /\ IF status = "applied" THEN effects' = Append(effects, Control!Effect(c)) ELSE effects' = effects
    BY <1>4 DEF Control!Visibility, Control!Journals, Control!Changes
  <2>2. status \in Control!Outcomes /\ row.status = status
    BY DEF Control!Status, Control!Outcomes
  <2>3. /\ DOMAIN commands' = DOMAIN commands \cup {c.op} /\ commands'[c.op] = row
        /\ \A o \in DOMAIN commands : commands'[o] = commands[o]
    <3> HIDE DEF row, c
    <3> QED  BY <1>4, <2>1 DEF Control!With
  <2>4. Onward
    <3> HIDE DEF row, status, c
    <3> QED  BY <1>1, <1>2, <2>2, <2>3 DEF Onward, ControlTypes
  <2>5. status \in CallReplies /\ status # "refused"
    BY <2>2 DEF CallReplies, Control!Outcomes
  <2>6. /\ CallsInv' /\ \A o \in Presses : Knows(o) => Knows(o)'
        /\ Alive(c) /\ c \in CallRecords /\ (c.kind # "discover" => c.op \in Presses)
        /\ \A o \in Presses : o = c.op => Knows(o)'
    <3>1. status \in Control!Outcomes => calls[s].op \in DOMAIN commands' /\ status = commands'[calls[s].op].status
      BY <2>2, <2>3
    <3> HIDE DEF status
    <3> QED  BY <1>1, <2>1, <2>4, <2>5, <3>1, Executes
  <2>7. EffectsInv'
    <3>1. CASE status = "applied"
      <4> HIDE DEF c, status, row
      <4> QED  BY <1>1, <1>4, <2>1, <2>3, <2>4, <2>6, <3>1, EffectAdded
    <3>2. CASE status # "applied"
      BY <1>2, <2>1, <2>4, <2>6, <3>2, EffectsKeep
    <3> QED  BY <3>1, <3>2
  <2>8. ToldInv'
    BY <1>1, <1>2, <2>4, ToldKeeps
  <2> QED  BY <2>4, <2>6, <2>7, <2>8, TypesKeep DEF OutcomeInv
<1> QED  BY <1>3, <1>4

LEMMA TakeExecutes ==
  ASSUME OutcomeInv, NEW s \in Control!Slots, Control!Take(s)
  PROVE  OutcomeInv'
<1> DEFINE c == calls[s]
<1>1. /\ c.pc = "execute" /\ c.kind = "take" /\ answers' = answers
      /\ UNCHANGED <<show, generation, revoked, token, commands>>
  BY DEF Control!Take, Control!credential, Control!client, Control!server
<1>2. ControlTypes /\ CallsInv /\ ToldInv /\ EffectsInv
  BY DEF OutcomeInv
<1>3. PICK a \in {"taken", "refused"} :
        /\ Control!Answered(s, a)
        /\ \/ effects' = effects
           \/ a = "taken" /\ effects' = Append(effects, Control!Effect(c))
  BY DEF Control!Take, Control!Changes, Control!server
<1>4. Onward
  BY <1>1, <1>2 DEF Onward, ControlTypes
<1>5. a \in CallReplies /\ a \notin Control!Outcomes
  BY DEF CallReplies, Control!Outcomes
<1>6. /\ CallsInv' /\ \A o \in Presses : Knows(o) => Knows(o)'
      /\ Alive(c) /\ c \in CallRecords /\ (c.kind # "discover" => c.op \in Presses)
      /\ \A o \in Presses : o = c.op /\ a # "refused" => Knows(o)'
  BY <1>1, <1>3, <1>4, <1>5, Executes
<1>7. EffectsInv'
  <2>1. CASE effects' = effects
    BY <1>2, <1>4, <1>6, <2>1, EffectsKeep
  <2>2. CASE a = "taken" /\ effects' = Append(effects, Control!Effect(c))
    <3> HIDE DEF c
    <3> QED  BY <1>1, <1>4, <1>6, <2>2, EffectAdded
  <2> QED  BY <1>3, <2>1, <2>2
<1>8. ToldInv'
  BY <1>1, <1>2, <1>4, ToldKeeps
<1> QED  BY <1>4, <1>6, <1>7, <1>8, TypesKeep DEF OutcomeInv

\* A result reaches the caller.
LEMMA CallerIsTold ==
  ASSUME OutcomeInv, NEW s \in Control!Slots, NEW result, Control!Got(calls[s], result), Quiet,
         calls[s] # Control!Free,
         result \in Control!Outcomes => calls[s].pc = "answered" /\ result = calls[s].answer,
         result = "refused" => calls[s].answer = "refused",
         NEW r, calls' = [calls EXCEPT ![s] = r],
         \/ r = Control!Free
         \/ r = [calls[s] EXCEPT !.waiting = FALSE] /\ result = "unknown"
  PROVE  OutcomeInv'
<1> DEFINE c == calls[s]
<1>1. /\ CallsInv /\ ControlTypes /\ ToldInv /\ EffectsInv
      /\ c \in CallRecords /\ CallShape(c) /\ CallTells(c, commands, answers)
      /\ CallAuthority(c, show, revoked, generation)
  BY DEF OutcomeInv, CallsInv, CallShape
<1>2. /\ answers = [o \in Presses |-> answers[o]]
      /\ answers' = [o \in Presses |-> answers'[o]]
      /\ \A o \in Presses : answers'[o] = IF o = c.op THEN answers[o] \cup {result} ELSE answers[o]
  BY <1>1 DEF ToldInv, Control!Got
<1>3. Onward
  BY <1>2, QuietIsOnward
<1>4. CallsInv'
  <2>1. CASE r = Control!Free
    BY <1>3, <2>1, CallMoves
  <2>2. CASE r = [c EXCEPT !.waiting = FALSE] /\ result = "unknown"
    <3>1. /\ r \in CallRecords /\ r.pc = c.pc /\ r.op = c.op /\ r.kind = c.kind /\ r.begun = c.begun
          /\ r.outlived = c.outlived
          /\ r.token = c.token /\ r.answer = c.answer /\ r.waiting = FALSE
      BY <1>1, <2>2 DEF CallRecords
    <3>2. r.op \in Presses => "unknown" \in answers'[r.op]
      BY <1>2, <2>2, <3>1
    <3>3. UNCHANGED <<show, revoked, generation, commands>>
      BY DEF Quiet
    <3>4. CallShape(r) /\ CallTells(r, commands', answers') /\ CallAuthority(r, show', revoked', generation')
      <4> HIDE DEF c
      <4> QED  BY <1>1, <3>1, <3>2, <3>3 DEF CallShape, CallTells, CallAuthority, Alive
    <3> QED  BY <1>3, <3>4, CallMoves
  <2> QED  BY <2>1, <2>2
<1>5. ASSUME NEW o \in Presses, Knows(o)
      PROVE  Knows(o)'
  <2>1. CASE Confesses(c, o)
    <3>1. o = c.op /\ c.answer # "refused"
      BY <2>1 DEF Confesses
    <3>2. result \in answers'[o] /\ result # "refused"
      BY <1>2, <3>1
    <3> QED  BY <3>2 DEF Knows
  <2>2. CASE ~Confesses(c, o)
    <3>1. answers[o] \subseteq answers'[o]
      BY <1>2
    <3> QED  BY <1>1, <1>5, <2>2, <3>1, OthersStillKnow
  <2> QED  BY <2>1, <2>2
<1>6. EffectsInv'
  BY <1>1, <1>3, <1>5, EffectsKeep DEF Quiet
<1>7. ToldInv'
  <2>1. commands' = commands
    BY DEF Quiet
  <2>2. ASSUME NEW o \in Presses, NEW x \in answers'[o], x \in Control!Outcomes
        PROVE  o \in DOMAIN commands /\ x = commands[o].status
    <3>1. CASE x \in answers[o]
      BY <1>1, <2>2, <3>1 DEF ToldInv
    <3>2. CASE x \notin answers[o]
      <4>1. o = c.op /\ x = result
        BY <1>2, <2>2, <3>2
      <4>2. x = c.answer
        BY <2>2, <4>1
      <4> QED  BY <1>1, <2>2, <4>1, <4>2 DEF CallTells
    <3> QED  BY <3>1, <3>2
  <2> QED  BY <1>2, <2>1, <2>2 DEF ToldInv
<1> QED  BY <1>3, <1>4, <1>6, <1>7, TypesKeep DEF OutcomeInv

LEMMA AnswersArrive ==
  ASSUME OutcomeInv, NEW s \in Control!Slots,
         \/ Control!Deliver(s) \/ (\E body \in {"text", "envelope", "null"} : Control!Garble(s, body))
         \/ Control!Lose(s) \/ Control!Drop(s)
  PROVE  OutcomeInv'
<1>1. CASE Control!Deliver(s)
  <2>1. /\ calls[s].pc = "answered" /\ Control!Got(calls[s], calls[s].answer) /\ Quiet
        /\ calls' = [calls EXCEPT ![s] = Control!Free]
    BY <1>1 DEF Control!Deliver, Control!Result, Control!credential, Control!server, Quiet
  <2>2. calls[s] # Control!Free
    BY <2>1 DEF Control!Free
  <2> QED  BY <2>1, <2>2, CallerIsTold
<1>2. ASSUME NEW body \in {"text", "envelope", "null"}, Control!Garble(s, body)
      PROVE  OutcomeInv'
  <2>1. /\ calls[s].pc = "answered" /\ Quiet
        /\ calls' = [calls EXCEPT ![s] = Control!Free]
        /\ Control!Got(calls[s], Control!Result(calls[s], body))
    BY <1>2 DEF Control!Garble, Control!credential, Control!server, Quiet
  <2>2. calls[s] # Control!Free
    BY <2>1 DEF Control!Free
  <2>3. Control!Result(calls[s], body) \in {"unknown", "thrown"}
    BY DEF Control!Result
  <2> QED  BY <2>1, <2>2, <2>3, CallerIsTold DEF Control!Outcomes
<1>3. CASE Control!Lose(s)
  <2>1. /\ calls[s] # Control!Free /\ Quiet /\ Control!Got(calls[s], "unknown")
        /\ calls' = [calls EXCEPT ![s] = [calls[s] EXCEPT !.waiting = FALSE]]
    BY <1>3 DEF Control!Lose, Control!credential, Control!server, Quiet
  <2> QED  BY <2>1, CallerIsTold DEF Control!Outcomes
<1>4. CASE Control!Drop(s)
  <2>1. /\ ~calls[s].waiting /\ Quiet /\ answers' = answers
        /\ calls' = [calls EXCEPT ![s] = Control!Free]
    BY <1>4 DEF Control!Drop, Control!credential, Control!server, Control!client, Quiet
  <2>2. Onward /\ CallsInv /\ EffectsInv /\ ToldInv
    BY <2>1, QuietIsOnward DEF OutcomeInv
  <2>3. CallsInv'
    BY <2>1, <2>2, CallMoves
  <2>4. \A o \in Presses : ~Confesses(calls[s], o)
    BY <2>1 DEF Confesses
  <2>5. \A o \in Presses : Knows(o) => Knows(o)'
    BY <2>1, <2>2, <2>4, OthersStillKnow
  <2>6. EffectsInv' /\ ToldInv'
    BY <2>1, <2>2, <2>5, EffectsKeep, ToldKeeps DEF Quiet
  <2> QED  BY <2>2, <2>3, <2>6, TypesKeep DEF OutcomeInv
<1> QED  BY <1>1, <1>2, <1>3, <1>4

LEMMA ServerRestarts ==
  ASSUME OutcomeInv, Control!Restart
  PROVE  OutcomeInv'
<1> DEFINE told(o) == {"unknown" : s \in {q \in Control!Slots :
                         calls[q] # Control!Free /\ calls[q].op = o /\ calls[q].waiting}}
<1>1. /\ calls' = [s \in Control!Slots |-> Control!Free]
      /\ answers' = [o \in Presses |-> answers[o] \cup told(o)]
      /\ UNCHANGED <<show, generation, revoked, token, commands, effects>>
  BY DEF Control!Restart, Control!credential
<1>2. ControlTypes /\ CallsInv /\ ToldInv /\ EffectsInv
  BY DEF OutcomeInv
<1>3. \A o : told(o) \subseteq {"unknown"}
  OBVIOUS
<1>4. ASSUME NEW o \in Presses, NEW q \in Control!Slots, Confesses(calls[q], o)
      PROVE  "unknown" \in told(o)
  BY <1>4 DEF Confesses
<1> HIDE DEF told
<1>5. Onward
  BY <1>1, <1>2 DEF Onward, ControlTypes
<1>6. CallsInv'
  BY <1>1 DEF CallsInv, Control!Slots, Control!Free
<1>7. ASSUME NEW o \in Presses, Knows(o)
      PROVE  Knows(o)'
  <2>1. CASE \E x \in answers[o] : x # "refused"
    BY <1>1, <2>1 DEF Knows
  <2>2. CASE \E q \in Control!Slots : Confesses(calls[q], o)
    <3>1. "unknown" \in answers'[o]
      BY <1>1, <1>4, <2>2
    <3> QED  BY <3>1 DEF Knows
  <2> QED  BY <1>7, <2>1, <2>2 DEF Knows
<1>8. EffectsInv'
  BY <1>1, <1>2, <1>5, <1>7, EffectsKeep
<1>9. ToldInv'
  BY <1>1, <1>2, <1>3 DEF ToldInv, Control!Outcomes
<1> QED  BY <1>5, <1>6, <1>8, <1>9, TypesKeep DEF OutcomeInv

\* What ends marks the calls that the route has still to look at.
LEMMA AuthorityEnds ==
  ASSUME OutcomeInv, Onward, UNCHANGED <<effects, answers>>, NEW pcs, Control!Outlived(pcs),
         \A q \in Control!Slots : calls[q] # Control!Free /\ calls[q].pc \in pcs =>
           LET r == [calls[q] EXCEPT !.outlived = TRUE] IN CallAuthority(r, show', revoked', generation')
  PROVE  OutcomeInv'
<1>1. calls' = [q \in Control!Slots |-> calls'[q]]
  BY DEF Control!Outlived
<1>2. ASSUME NEW q \in Control!Slots
      PROVE  \/ calls'[q] = calls[q]
             \/ /\ calls[q] # Control!Free /\ calls[q].pc \in pcs
                /\ calls'[q] = [calls[q] EXCEPT !.outlived = TRUE]
  BY DEF Control!Outlived
<1>3. ASSUME NEW r \in CallRecords
      PROVE  LET m == [r EXCEPT !.outlived = TRUE]
             IN  /\ m \in CallRecords /\ m.pc = r.pc /\ m.op = r.op /\ m.kind = r.kind
                 /\ m.answer = r.answer /\ m.waiting = r.waiting
  BY DEF CallRecords
<1>4. ASSUME NEW q \in Control!Slots, calls'[q] # Control!Free
      PROVE  /\ CallShape(calls'[q]) /\ CallTells(calls'[q], commands', answers')
             /\ CallAuthority(calls'[q], show', revoked', generation')
  <2>1. CASE calls'[q] = calls[q]
    BY <1>4, <2>1, CallsKeep
  <2>2. CASE calls'[q] # calls[q]
    <3> DEFINE r == calls[q]
               m == [r EXCEPT !.outlived = TRUE]
    <3>1. r # Control!Free /\ r.pc \in pcs /\ calls'[q] = m
      BY <1>2, <2>2
    <3>2. CallShape(r) /\ CallTells(r, commands', answers') /\ r \in CallRecords
      BY <3>1, CallsKeep DEF CallShape
    <3>3. /\ m \in CallRecords /\ m.pc = r.pc /\ m.op = r.op /\ m.kind = r.kind
          /\ m.answer = r.answer /\ m.waiting = r.waiting
      BY <1>3, <3>2
    <3>4. CallAuthority(m, show', revoked', generation')
      BY <3>1
    <3> HIDE DEF r, m
    <3> QED  BY <3>1, <3>2, <3>3, <3>4 DEF CallShape, CallTells
  <2> QED  BY <2>1, <2>2
<1>5. CallsInv'
  BY <1>1, <1>4 DEF CallsInv, Control!Free, Control!Slots
<1>6. ASSUME NEW o \in Presses, Knows(o)
      PROVE  Knows(o)'
  <2>1. CASE \E x \in answers[o] : x # "refused"
    BY <2>1 DEF Knows
  <2>2. CASE \E q \in Control!Slots : Confesses(calls[q], o)
    <3>1. PICK q \in Control!Slots : Confesses(calls[q], o)
      BY <2>2
    <3>2. calls[q] # Control!Free /\ calls[q] \in CallRecords
      BY <3>1 DEF Confesses, OutcomeInv, CallsInv, CallShape
    <3>3. Confesses(calls'[q], o)
      <4>1. CASE calls'[q] = calls[q]
        BY <3>1, <4>1
      <4>2. CASE calls'[q] = [calls[q] EXCEPT !.outlived = TRUE]
        <5>1. calls'[q].pc = "answered"
          BY <1>3, <3>1, <3>2, <4>2 DEF Confesses
        <5>2. calls'[q] # Control!Free
          BY <5>1 DEF Control!Free
        <5> QED  BY <1>3, <3>1, <3>2, <4>2, <5>2 DEF Confesses
      <4> QED  BY <1>2, <4>1, <4>2
    <3>4. \E p \in Control!Slots : Confesses(calls'[p], o)
      BY <3>3
    <3> QED  BY <3>4 DEF Knows, Confesses, Control!Slots, Control!Free
  <2> QED  BY <1>6, <2>1, <2>2 DEF Knows
<1>7. EffectsInv' /\ ToldInv'
  BY <1>6, EffectsKeep, ToldKeeps DEF OutcomeInv
<1> QED  BY <1>5, <1>7, TypesKeep DEF OutcomeInv

LEMMA CredentialOrShowEnds ==
  ASSUME OutcomeInv, Onward, Control!ArchiveShow \/ Control!Revoke \/ Control!Rotate
  PROVE  OutcomeInv'
<1>1. UNCHANGED <<effects, answers>>
  BY DEF Control!ArchiveShow, Control!Revoke, Control!Rotate, Control!server, Control!client
<1>2. ASSUME NEW q \in Control!Slots, calls[q] # Control!Free
      PROVE  LET r == [calls[q] EXCEPT !.outlived = TRUE]
             IN  /\ calls[q].token <= generation /\ generation \in Nat /\ calls[q].token \in Nat
                 /\ r.pc = calls[q].pc /\ r.token = calls[q].token
                 /\ CallAuthority(calls[q], show', revoked', generation')
  <2>1. /\ calls[q] \in CallRecords /\ CallAuthority(calls[q], show, revoked, generation)
        /\ CallAuthority(calls[q], show', revoked', generation')
    BY <1>2, CallsKeep DEF OutcomeInv, CallsInv, CallShape
  <2> QED  BY <2>1 DEF OutcomeInv, ControlTypes, CallAuthority, CallRecords
<1>3. CASE Control!ArchiveShow
  <2>1. show' # "live" /\ Control!Outlived({"received", "show"})
    BY <1>3 DEF Control!ArchiveShow
  <2>2. ASSUME NEW q \in Control!Slots, calls[q] # Control!Free, calls[q].pc \in {"received", "show"}
        PROVE  LET r == [calls[q] EXCEPT !.outlived = TRUE] IN CallAuthority(r, show', revoked', generation')
    BY <1>2, <2>1, <2>2 DEF CallAuthority
  <2> QED  BY <1>1, <2>1, <2>2, AuthorityEnds
<1>4. CASE Control!Revoke \/ Control!Rotate
  <2>1. Control!Outlived({"received"}) /\ (revoked' \/ generation' = generation + 1)
    BY <1>4 DEF Control!Revoke, Control!Rotate
  <2>2. ASSUME NEW q \in Control!Slots, calls[q] # Control!Free, calls[q].pc \in {"received"}
        PROVE  LET r == [calls[q] EXCEPT !.outlived = TRUE] IN CallAuthority(r, show', revoked', generation')
    <3> DEFINE r == [calls[q] EXCEPT !.outlived = TRUE]
    <3>1. /\ r.pc = "received" /\ r.token <= generation' /\ ~(~revoked' /\ r.token = generation')
      BY <1>2, <2>1, <2>2 DEF CallAuthority
    <3> HIDE DEF r
    <3> QED  BY <3>1 DEF CallAuthority, r
  <2> QED  BY <1>1, <2>1, <2>2, AuthorityEnds
<1> QED  BY <1>3, <1>4

LEMMA OutcomeSteps ==
  ASSUME Control!ControlAssumption, OutcomeInv, [Control!Next]_(Control!vars)
  PROVE  OutcomeInv'
<1>1. ControlTypes
  BY DEF OutcomeInv
<1>2. CASE UNCHANGED Control!vars
  <2>1. Onward /\ UNCHANGED <<calls, effects, answers>>
    BY <1>1, <1>2 DEF Control!vars, Control!credential, Control!server, Control!client, Onward, ControlTypes
  <2> QED  BY <2>1, EnvironmentMoves
<1>3. ASSUME NEW s \in Control!Slots, Control!CallStep(s)
      PROVE  OutcomeInv'
  BY <1>3, RouteAsks, VisibilityExecutes, TakeExecutes, AnswersArrive DEF Control!CallStep
<1>4. ASSUME NEW s \in Control!Slots, Control!Requests(s)
      PROVE  OutcomeInv'
  BY <1>4, RequestsBegin
<1>5. CASE Control!Leasing
  <2>1. UNCHANGED <<Control!credential, Control!server, Control!client, calls>>
    BY <1>5 DEF Control!Leasing, Control!Suspend, Control!Register, Control!CloseLease, Control!SetReady
  <2>2. Onward /\ UNCHANGED <<calls, effects, answers>>
    BY <1>1, <2>1 DEF Control!credential, Control!server, Control!client, Onward, ControlTypes
  <2> QED  BY <2>2, EnvironmentMoves
<1>6. ASSUME \/ \E t \in Targets : Control!StudioChanges(t)
             \/ Control!ArchiveShow \/ Control!Revoke \/ Control!Rotate \/ Control!Reconfigure
      PROVE  OutcomeInv'
  <2>1. UNCHANGED <<effects, answers, commands>>
    BY <1>6 DEF Control!StudioChanges, Control!ArchiveShow, Control!Revoke, Control!Rotate,
       Control!Reconfigure, Control!server, Control!client
  <2>2. /\ show' = show \/ show' = "archived"
        /\ revoked' = revoked \/ revoked' = TRUE
        /\ \/ generation' = generation /\ token' = token
           \/ generation' = generation + 1 /\ token' = token
           \/ generation' = generation /\ token' = generation
    BY <1>6 DEF Control!StudioChanges, Control!ArchiveShow, Control!Revoke, Control!Rotate,
       Control!Reconfigure, Control!credential
  <2>3. Onward
    <3>1. /\ generation' \in Nat /\ generation' >= generation
          /\ token' \in Nat /\ token' <= generation'
      BY <1>1, <2>2 DEF ControlTypes
    <3>2. revoked' \in BOOLEAN /\ (revoked => revoked')
      <4>1. revoked \in BOOLEAN
        BY <1>1 DEF ControlTypes
      <4>2. CASE revoked' = revoked
        BY <4>1, <4>2
      <4>3. CASE revoked' = TRUE
        BY <4>3
      <4> QED  BY <2>2, <4>2, <4>3
    <3>3. show' \in {"live", "missing", "archived"} /\ (show' = "live" => show = "live")
      BY <1>1, <2>2 DEF ControlTypes
    <3>4. /\ \A o \in DOMAIN commands : o \in DOMAIN commands' /\ commands'[o] = commands[o]
          /\ \A o \in DOMAIN commands' : commands'[o].status \in Control!Outcomes
          /\ \A o \in Presses : answers[o] \subseteq answers'[o]
      BY <1>1, <2>1 DEF ControlTypes
    <3> QED  BY <3>1, <3>2, <3>3, <3>4 DEF Onward
  <2>4. CASE Control!ArchiveShow \/ Control!Revoke \/ Control!Rotate
    BY <2>3, <2>4, CredentialOrShowEnds
  <2>5. CASE (\E t \in Targets : Control!StudioChanges(t)) \/ Control!Reconfigure
    <3>1. calls' = calls
      BY <2>5 DEF Control!StudioChanges, Control!Reconfigure
    <3> QED  BY <2>1, <2>3, <3>1, EnvironmentMoves
  <2> QED  BY <1>6, <2>4, <2>5
<1>7. CASE Control!Restart
  BY <1>7, ServerRestarts
<1> QED  BY <1>2, <1>3, <1>4, <1>5, <1>6, <1>7 DEF Control!Next

LEMMA OutcomeStarts ==
  ASSUME Control!Init
  PROVE  OutcomeInv
<1>1. ControlTypes
  <2>1. /\ generation = 1 /\ revoked = FALSE /\ token = 1 /\ show \in {"live", "missing"}
        /\ commands = <<>>
    BY DEF Control!Init
  <2>2. DOMAIN commands = {}
    BY <2>1
  <2>3. generation \in Nat /\ token \in Nat /\ token <= generation
    BY <2>1
  <2>4. revoked \in BOOLEAN /\ show \in {"live", "missing", "archived"}
    BY <2>1
  <2> QED  BY <2>2, <2>3, <2>4, Zenon DEF ControlTypes
<1>2. CallsInv
  BY DEF Control!Init, CallsInv, Control!Free, Control!Slots
<1>3. effects = <<>> /\ answers = [o \in Presses |-> {}]
  BY DEF Control!Init
<1>4. effects \in Seq(EffectRecords) /\ DOMAIN effects = {}
  BY <1>3
<1>5. EffectsInv
  BY <1>4 DEF EffectsInv
<1>6. ToldInv
  BY <1>3 DEF ToldInv
<1> QED  BY <1>1, <1>2, <1>5, <1>6 DEF OutcomeInv

LEMMA OutcomesFollow ==
  ASSUME OutcomeInv
  PROVE  OutcomesAreTrue
<1>1. ControlTypes /\ CallsInv /\ ToldInv /\ EffectsInv
  BY DEF OutcomeInv
<1>2. Control!OneOutcome
  <2>1. \A o \in Presses : answers[o] \intersect Control!Outcomes \subseteq
           (IF o \in DOMAIN commands THEN {commands[o].status} ELSE {})
    BY <1>1 DEF ToldInv
  <2> QED  BY <1>1, <2>1 DEF EffectsInv, Control!OneOutcome
<1>3. Control!RefusedMeansNoEffect
  <2> SUFFICES ASSUME NEW o \in Presses, answers[o] = {"refused"},
                      \A s \in Control!Slots : calls[s] = Control!Free \/ calls[s].op # o,
                      NEW i \in DOMAIN effects, effects[i].op = o
               PROVE  FALSE
    BY DEF Control!RefusedMeansNoEffect
  <2>1. Knows(o)
    BY <1>1 DEF EffectsInv
  <2> QED  BY <2>1 DEF Knows, Confesses
<1> QED  BY <1>2, <1>3 DEF OutcomesAreTrue, Control!OutcomesAreTrue

(* However often an operation is repeated, its answers lost or garbled and *)
(* the server restarted: a visibility command changes production at most   *)
(* once and its caller is told the journal's outcome, and whoever was only *)
(* refused changed nothing.                                                *)
THEOREM CallersAreToldTheTruth == Control!Spec => []OutcomesAreTrue
<1>1. Control!Init => OutcomeInv
  BY OutcomeStarts
<1>2. OutcomeInv /\ [Control!Next]_(Control!vars) => OutcomeInv'
  BY RoutesAssumption, OutcomeSteps
<1>3. OutcomeInv => OutcomesAreTrue
  BY OutcomesFollow
<1> QED  BY <1>1, <1>2, <1>3, PTL DEF Control!Spec

(* Whatever ends between a call's arrival and the routes' awaits, and       *)
(* whatever restarts: production is never changed by a call whose           *)
(* credential was revoked or rotated before the route verified it, or whose *)
(* Show was archived before the route read it.                              *)
THEOREM DeadAuthoritiesArePowerless == Control!Spec => []DeadAuthorityDoesNothing
<1>1. Control!Init => OutcomeInv
  BY OutcomeStarts
<1>2. OutcomeInv /\ [Control!Next]_(Control!vars) => OutcomeInv'
  BY RoutesAssumption, OutcomeSteps
<1>3. OutcomeInv => DeadAuthorityDoesNothing
  BY DEF OutcomeInv, EffectsInv, DeadAuthorityDoesNothing, Control!DeadAuthorityDoesNothing
<1> QED  BY <1>1, <1>2, <1>3, PTL DEF Control!Spec
=============================================================================
