----------------------- MODULE ProductionJournal_proofs -----------------------
(***************************************************************************)
(* Proofs about the production authority over its file, for every number   *)
(* of Shows, scenes, operations, devices and restarts: that the file stays *)
(* one the next start accepts and the memory what the file says, what each *)
(* step does to the history and the command journal, and what is           *)
(* published, answered and would be answered again to a replay, against    *)
(* that history.                                                           *)
(***************************************************************************)
EXTENDS ProductionJournal, FiniteSetTheorems, TLAPS

(***************************************************************************)
(* Facts about heads of a history.                                         *)
(***************************************************************************)

\* A target has at most one head record.
LEMMA HeadIndexIs ==
  ASSUME NEW h, Len(h) \in Nat, NEW t, NEW i, IsHead(h, t, i)
  PROVE  HeadIndex(h, t) = i
<1>1. i \in 0..Len(h)
  BY DEF IsHead
<1>2. ASSUME NEW j \in 0..Len(h), IsHead(h, t, j) PROVE j = i
  <2>1. CASE j > i
    BY <1>1, <1>2, <2>1 DEF IsHead
  <2>2. CASE i > j
    BY <1>1, <1>2, <2>2 DEF IsHead
  <2>3. QED BY <1>1, <2>1, <2>2
<1>3. QED BY <1>1, <1>2 DEF HeadIndex

\* Appending a record moves the head of its target and of no other.
LEMMA AppendMovesHead ==
  ASSUME NEW h \in Seq(Records), NEW r \in Records, NEW t, NEW i,
         IsHead(h, t, i)
  PROVE  IsHead(Append(h, r), t, IF r.target = t THEN Len(h) + 1 ELSE i)
<1> DEFINE g == Append(h, r)
<1>1. Len(g) = Len(h) + 1 /\ Len(h) \in Nat /\ g[Len(h) + 1] = r
        /\ \A j \in 1..Len(h) : g[j] = h[j]
  OBVIOUS
<1>2. CASE r.target = t
  BY <1>1, <1>2 DEF IsHead
<1>3. CASE r.target # t
  BY <1>1, <1>3 DEF IsHead
<1>4. QED BY <1>2, <1>3

\* A history stays valid when a record follows the head of its target at
\* the next revision.
LEMMA AppendVerifies ==
  ASSUME NEW h \in Seq(Records), NEW r \in Records, VerifyHistory(h),
         IsHead(h, r.target, r.prev),
         r.rev = (IF r.prev = 0 THEN 0 ELSE h[r.prev].rev) + 1
  PROVE  VerifyHistory(Append(h, r))
<1> DEFINE g == Append(h, r)
<1>1. Len(g) = Len(h) + 1 /\ Len(h) \in Nat /\ g[Len(h) + 1] = r
        /\ \A j \in 1..Len(h) : g[j] = h[j]
  OBVIOUS
<1>2. SUFFICES ASSUME NEW i \in 1..Len(g)
      PROVE /\ g[i].prev \in 0..(i - 1)
            /\ g[i].prev > 0 => g[g[i].prev].target = g[i].target
            /\ \A j \in 1..(i - 1) : j > g[i].prev => g[j].target # g[i].target
            /\ g[i].rev = (IF g[i].prev = 0 THEN 0 ELSE g[g[i].prev].rev) + 1
  BY DEF VerifyHistory
<1>3. CASE i = Len(h) + 1
  BY <1>1, <1>3 DEF IsHead
<1>4. CASE i \in 1..Len(h)
  BY <1>1, <1>4 DEF VerifyHistory
<1>5. QED BY <1>1, <1>3, <1>4
-----------------------------------------------------------------------------
(***************************************************************************)
(* Types.                                                                  *)
(***************************************************************************)

\* An element of a sequence over S is in S.
LEMMA SeqElement ==
  ASSUME NEW S, NEW s \in Seq(S), NEW i \in 1..Len(s)
  PROVE  s[i] \in S
OBVIOUS

\* A remembered operation keeps the map a sequence of its kind.
LEMMA RememberType ==
  ASSUME NEW S, NEW s \in Seq(S), NEW e \in S
  PROVE  Remember(s, e) \in Seq(S)
<1>1. CASE Len(s) < MaxOperations
  BY <1>1 DEF Remember
<1>2. CASE ~(Len(s) < MaxOperations)
  <2>1. s # << >>
    BY <1>2, OperationBound
  <2>2. Tail(s) \in Seq(S)
    BY <2>1
  <2>3. QED BY <1>2, <2>2 DEF Remember
<1>3. QED BY <1>1, <1>2

\* A Show's map of remembered operations keeps its type, adopted or not.
LEMMA RememberIfType ==
  ASSUME NEW S, NEW map \in [Shows -> Seq(S)], NEW s \in Shows, NEW e \in S,
         NEW outcome
  PROVE  RememberIf(outcome, map, s, e) \in [Shows -> Seq(S)]
<1>1. Remember(map[s], e) \in Seq(S)
  BY RememberType
<1>2. QED BY <1>1 DEF RememberIf

\* Visibility changes a content within its type.
LEMMA VisibilityType ==
  ASSUME NEW content \in Contents, NEW c \in Components, NEW visible
  PROVE  WithVisibility(content, c, visible) \in Contents
BY DEF WithVisibility, Contents

\* Appending rows keeps the file well typed.
LEMMA AppendRowsType ==
  ASSUME TypeOK, NEW t \in Targets, NEW snap \in Snapshots, NEW kind \in Kinds,
         NEW op \in OpIds, NEW rejected \in Hashes \cup {None},
         AppendRows(t, snap, kind, op, rejected)
  PROVE  /\ history' \in Seq(Records)
         /\ current' \in [Targets -> Rows \cup {None}]
         /\ quarantine' \in [Targets -> Quarantines \cup {None}]
<1> DEFINE r == [target |-> t, rev |-> snap.rev, content |-> snap.content,
                 kind |-> kind, op |-> op, prev |-> heads[t].index,
                 rejected |-> rejected]
           row == [rev |-> snap.rev, content |-> snap.content, form |-> "ok"]
<1>1. snap.rev \in Nat /\ snap.content \in Contents /\ heads[t].index \in Nat
  BY DEF TypeOK, ProcessTypes, Snapshots
<1>2. r \in Records
  BY <1>1 DEF Records
<1>3. row \in Rows
  BY <1>1 DEF Rows
<1>4. history' \in Seq(Records)
  BY <1>2 DEF AppendRows, TypeOK, FileTypes
<1>5. current' \in [Targets -> Rows \cup {None}]
  BY <1>3 DEF AppendRows, TypeOK, FileTypes
<1>6. quarantine' \in [Targets -> Quarantines \cup {None}]
  BY DEF AppendRows, TypeOK, FileTypes
<1>7. QED BY <1>4, <1>5, <1>6

\* Adopting a commit keeps memory well typed.
LEMMA AdoptCommitType ==
  ASSUME TypeOK, NEW t \in Targets, NEW snap \in Snapshots, AdoptCommit(t, snap)
  PROVE  /\ globalSequence' \in Nat
         /\ heads' \in [Targets -> [index : Nat, rev : Nat, content : Contents]]
         /\ shows' \in [Targets -> Snapshots]
<1>1. snap.rev \in Nat /\ snap.content \in Contents /\ globalSequence + 1 \in Nat
  BY DEF TypeOK, ProcessTypes, Snapshots
<1>2. [index |-> globalSequence + 1, rev |-> snap.rev, content |-> snap.content]
        \in [index : Nat, rev : Nat, content : Contents]
  BY <1>1
<1>3. QED BY <1>1, <1>2 DEF AdoptCommit, TypeOK, ProcessTypes

\* A commit of any outcome keeps the file and the adopted memory well typed.
LEMMA CommitType ==
  ASSUME TypeOK, NEW t \in Targets, NEW snap \in Snapshots, NEW kind \in Kinds,
         NEW op \in OpIds, NEW expected, NEW rejected \in Hashes \cup {None},
         NEW outcome,
         CommitSnapshot(t, snap, kind, op, expected, rejected, outcome)
  PROVE  /\ FileTypes'
         /\ heads' \in [Targets -> [index : Nat, rev : Nat, content : Contents]]
         /\ globalSequence' \in Nat /\ commandSequence' \in Nat
         /\ shows' \in [Targets -> Snapshots]
         /\ quarantines' \in [Targets -> Quarantines \cup {None}]
<1>1. /\ history' \in Seq(Records)
      /\ current' \in [Targets -> Rows \cup {None}]
      /\ quarantine' \in [Targets -> Quarantines \cup {None}]
  <2>1. CASE outcome = "refused"
    BY <2>1 DEF CommitSnapshot, TypeOK, FileTypes
  <2>2. CASE outcome # "refused"
    <3>1. AppendRows(t, snap, kind, op, rejected)
      BY <2>2 DEF CommitSnapshot
    <3>2. QED BY <3>1, AppendRowsType
  <2>3. QED BY <2>1, <2>2
<1>2. /\ globalSequence' \in Nat
      /\ heads' \in [Targets -> [index : Nat, rev : Nat, content : Contents]]
      /\ shows' \in [Targets -> Snapshots]
      /\ quarantines' \in [Targets -> Quarantines \cup {None}]
  <2>1. CASE Adopted(outcome)
    <3>1. AdoptCommit(t, snap)
            /\ quarantines' = [quarantines EXCEPT ![t] = None]
      BY <2>1 DEF CommitSnapshot
    <3>2. quarantines' \in [Targets -> Quarantines \cup {None}]
      BY <3>1 DEF TypeOK, ProcessTypes
    <3>3. QED BY <3>1, <3>2, AdoptCommitType
  <2>2. CASE ~Adopted(outcome)
    BY <2>2 DEF CommitSnapshot, TypeOK, ProcessTypes
  <2>3. QED BY <2>1, <2>2
<1>3. QED BY <1>1, <1>2 DEF CommitSnapshot, TypeOK, FileTypes, ProcessTypes

\* How a call ends keeps the rest of the process well typed.
LEMMA PublishType ==
  ASSUME TypeOK, NEW t \in Targets, NEW snap \in Snapshots, NEW outcome,
         NEW nextCue \in CueRuns \cup {None},
         NEW reply \in [show : Shows, preview : Snapshots, program : Snapshots]
                         \cup {None},
         PublishCommittedSnapshot(t, snap, outcome, nextCue, reply)
  PROVE  /\ phase' \in {"down", "usable", "failed"}
         /\ published' \in [Targets -> Snapshots]
         /\ cue' \in CueRuns \cup {None}
         /\ answer' \in [show : Shows, preview : Snapshots, program : Snapshots]
                          \cup {None}
BY DEF PublishCommittedSnapshot, TypeOK, ProcessTypes

\* The combined ProductionState has its declared shape.
LEMMA PublicStateType ==
  ASSUME NEW s \in Shows, NEW mem \in [Targets -> Snapshots]
  PROVE  PublicState(s, mem) \in
           [show : Shows, preview : Snapshots, program : Snapshots]
BY DEF PublicState, Targets, Buses

\* A mutation that answers with the combined state keeps file and process
\* well typed.
LEMMA MutateType ==
  ASSUME TypeOK, NEW t \in Targets, NEW snap \in Snapshots, NEW kind \in Kinds,
         NEW op \in OpIds, NEW outcome, Mutate(t, snap, kind, op, outcome)
  PROVE  FileTypes' /\ ProcessTypes'
<1>1. CommitSnapshot(t, snap, kind, op, shows[t].rev, None, outcome)
  BY DEF Mutate
<1>2. /\ FileTypes'
      /\ heads' \in [Targets -> [index : Nat, rev : Nat, content : Contents]]
      /\ globalSequence' \in Nat /\ commandSequence' \in Nat
      /\ shows' \in [Targets -> Snapshots]
      /\ quarantines' \in [Targets -> Quarantines \cup {None}]
  BY <1>1, CommitType
<1>3. t[1] \in Shows
  BY DEF Targets
<1>4. PublicState(t[1], shows') \in
        [show : Shows, preview : Snapshots, program : Snapshots]
  BY <1>2, <1>3, PublicStateType
<1>5. PublishCommittedSnapshot(t, snap, outcome, None, PublicState(t[1], shows'))
  BY DEF Mutate
<1>6. QED BY <1>2, <1>4, <1>5, PublishType DEF ProcessTypes

\* The visibility mutation, for an intent and for a cue's step.
LEMMA ApplyVisibilityType ==
  ASSUME TypeOK, NEW t \in Targets, NEW c \in Components,
         NEW visible \in BOOLEAN, NEW op \in OpIds, NEW kind \in Kinds,
         NEW outcome, NEW nextCue \in CueRuns \cup {None}, NEW reply,
         reply = None \/ reply = PublicState(t[1], shows'),
         ApplyVisibility(t, c, visible, op, kind, outcome, nextCue, reply)
  PROVE  /\ FileTypes' /\ ProcessTypes'
         /\ visibilityOperations' \in [Shows -> Seq(VisibilityReceipts)]
<1> DEFINE snap == [rev |-> shows[t].rev + 1,
                    content |-> WithVisibility(shows[t].content, c, visible)]
           e == [op |-> op, intent |-> [target |-> t, component |-> c,
                                        visible |-> visible,
                                        expected |-> shows[t].rev],
                 kind |-> kind, targetRevision |-> snap.rev]
<1>1. shows[t].rev \in Nat /\ shows[t].content \in Contents /\ t[1] \in Shows
  BY DEF TypeOK, ProcessTypes, Snapshots, Targets
<1>2. snap \in Snapshots
  BY <1>1, VisibilityType DEF Snapshots
<1>3. CommitSnapshot(t, snap, kind, op, shows[t].rev, None, outcome)
  BY DEF ApplyVisibility
<1>4. /\ FileTypes'
      /\ heads' \in [Targets -> [index : Nat, rev : Nat, content : Contents]]
      /\ globalSequence' \in Nat /\ commandSequence' \in Nat
      /\ shows' \in [Targets -> Snapshots]
      /\ quarantines' \in [Targets -> Quarantines \cup {None}]
  <2> HIDE DEF snap
  <2> QED BY <1>2, <1>3, CommitType
<1>5. reply \in [show : Shows, preview : Snapshots, program : Snapshots]
                  \cup {None}
  BY <1>1, <1>4, PublicStateType
<1>6. PublishCommittedSnapshot(t, snap, outcome, nextCue, reply)
  BY DEF ApplyVisibility
<1>7. ProcessTypes'
  <2> HIDE DEF snap
  <2> QED BY <1>2, <1>4, <1>5, <1>6, PublishType DEF ProcessTypes
<1>8. e \in VisibilityReceipts
  BY <1>1 DEF VisibilityReceipts, Intents
<1>9. visibilityOperations' = RememberIf(outcome, visibilityOperations, t[1], e)
  BY DEF ApplyVisibility
<1>10. visibilityOperations' \in [Shows -> Seq(VisibilityReceipts)]
  <2> HIDE DEF e
  <2> QED BY <1>1, <1>8, <1>9, RememberIfType DEF TypeOK, OperationTypes
<1>11. QED BY <1>4, <1>7, <1>10

\* loadPreview keeps every table and map well typed.
LEMMA LoadPreviewType ==
  ASSUME TypeOK, NEW s \in Shows, NEW scene \in Scenes, NEW v \in Values,
         NEW outcome, LoadPreview(s, scene, v, outcome)
  PROVE  TypeOK'
<1> DEFINE t == <<s, "preview">>
           snap == [rev |-> shows[t].rev + 1,
                    content |-> [scene |-> scene, hidden |-> {}, vars |-> v]]
<1>1. t \in Targets
  BY DEF Targets, Buses
<1>2. snap \in Snapshots
  BY <1>1 DEF Snapshots, Contents, TypeOK, ProcessTypes
<1>3. Mutate(t, snap, "preview.load", None, outcome)
  BY DEF LoadPreview
<1>4. FileTypes' /\ ProcessTypes'
  <2> HIDE DEF snap, t
  <2>1. "preview.load" \in Kinds /\ None \in OpIds
    BY DEF Kinds, OpIds
  <2> QED BY <1>1, <1>2, <1>3, <2>1, MutateType
<1>5. QED BY <1>4 DEF LoadPreview, TypeOK, OperationTypes, operations

\* take keeps every table and map well typed.
LEMMA TakeType ==
  ASSUME TypeOK, NEW s \in Shows, NEW expected \in Nat, NEW op \in Ops,
         NEW outcome, Take(s, expected, op, outcome)
  PROVE  TypeOK'
<1> DEFINE preview == <<s, "preview">>
           program == <<s, "program">>
           snap == [rev |-> shows[program].rev + 1,
                    content |-> shows[preview].content]
           e == [op |-> op, previewRevision |-> expected,
                 programRevision |-> snap.rev]
<1>1. preview \in Targets /\ program \in Targets
  BY DEF Targets, Buses
<1>2. snap \in Snapshots
  BY <1>1 DEF Snapshots, TypeOK, ProcessTypes
<1>3. Mutate(program, snap, "program.take", op, outcome)
  BY DEF Take
<1>4. FileTypes' /\ ProcessTypes'
  <2> HIDE DEF snap, program
  <2>1. "program.take" \in Kinds /\ op \in OpIds
    BY DEF Kinds, OpIds
  <2> QED BY <1>1, <1>2, <1>3, <2>1, MutateType
<1>5. e \in TakeReceipts
  BY <1>2 DEF TakeReceipts, Snapshots
<1>6. takeOperations' = RememberIf(outcome, takeOperations, s, e)
  BY DEF Take
<1>7. takeOperations' \in [Shows -> Seq(TakeReceipts)]
  <2> HIDE DEF e
  <2> QED BY <1>5, <1>6, RememberIfType DEF TypeOK, OperationTypes
<1>8. QED BY <1>4, <1>7 DEF Take, TypeOK, OperationTypes

\* applyPreviewControls keeps every table and map well typed.
LEMMA ApplyPreviewControlsType ==
  ASSUME TypeOK, NEW s \in Shows, NEW expected \in Nat, NEW op \in Ops,
         NEW v \in Values, NEW outcome,
         ApplyPreviewControls(s, expected, op, v, outcome)
  PROVE  TypeOK'
<1> DEFINE t == <<s, "preview">>
           snap == [rev |-> shows[t].rev + 1,
                    content |-> [shows[t].content EXCEPT !.vars = v]]
           e == [op |-> op, expected |-> expected, value |-> v]
<1>1. t \in Targets
  BY DEF Targets, Buses
<1>2. snap \in Snapshots
  <2>1. shows[t] \in Snapshots
    BY <1>1 DEF TypeOK, ProcessTypes
  <2>2. shows[t].rev + 1 \in Nat /\ shows[t].content \in Contents
    BY <2>1 DEF Snapshots
  <2>3. [shows[t].content EXCEPT !.vars = v] \in Contents
    BY <2>2 DEF Contents
  <2>4. QED BY <2>2, <2>3 DEF Snapshots
<1>3. Mutate(t, snap, "preview.controls", op, outcome)
  BY DEF ApplyPreviewControls
<1>4. FileTypes' /\ ProcessTypes'
  <2> HIDE DEF snap, t
  <2>1. "preview.controls" \in Kinds /\ op \in OpIds
    BY DEF Kinds, OpIds
  <2> QED BY <1>1, <1>2, <1>3, <2>1, MutateType
<1>5. e \in ControlReceipts
  BY DEF ControlReceipts
<1>6. controlOperations' = RememberIf(outcome, controlOperations, s, e)
  BY DEF ApplyPreviewControls
<1>7. controlOperations' \in [Shows -> Seq(ControlReceipts)]
  <2> HIDE DEF e
  <2> QED BY <1>5, <1>6, RememberIfType DEF TypeOK, OperationTypes
<1>8. QED BY <1>4, <1>7 DEF ApplyPreviewControls, TypeOK, OperationTypes

\* executeVisibilityIntent keeps every table and map well typed.
LEMMA VisibilityIntentType ==
  ASSUME TypeOK, NEW t \in Targets, NEW c \in Components,
         NEW visible \in BOOLEAN, NEW expected, NEW op \in ClientVisibilityOps,
         NEW outcome,
         ExecuteVisibilityIntent(t, c, visible, expected, op, outcome)
  PROVE  TypeOK'
<1>1. op \in OpIds
  BY DEF ClientVisibilityOps, OpIds, StepOp
<1>2. "component.visibility" \in Kinds
  BY DEF Kinds
<1>3. ApplyVisibility(t, c, visible, op, "component.visibility", outcome,
                      None, PublicState(t[1], shows'))
  BY DEF ExecuteVisibilityIntent
<1>4. /\ FileTypes' /\ ProcessTypes'
      /\ visibilityOperations' \in [Shows -> Seq(VisibilityReceipts)]
  BY <1>1, <1>2, <1>3, ApplyVisibilityType
<1>5. QED BY <1>4 DEF ExecuteVisibilityIntent, TypeOK, OperationTypes

\* executeCue's start, steps and receipt keep every table and map well typed.
LEMMA CueType ==
  ASSUME TypeOK, CueCall
  PROVE  TypeOK'
<1>1. ASSUME NEW t \in Targets, NEW steps \in Cues, NEW op \in Ops,
             NEW expected \in Revisions, ExecuteCue(t, steps, expected, op)
      PROVE TypeOK'
  <2>1. expected \in Nat
    BY ModelBounds DEF Revisions
  <2>2. cue' \in CueRuns
    BY <1>1, <2>1 DEF ExecuteCue, CueRuns
  <2>3. QED
    BY <1>1, <2>2 DEF ExecuteCue, TypeOK, FileTypes, ProcessTypes,
                      OperationTypes, durable, operations
<1>2. ASSUME NEW outcome \in Outcomes, CueStep(outcome)
      PROVE TypeOK'
  <2> DEFINE next == [cue EXCEPT !.completed = @ + 1]
  <2>1. /\ cue \in CueRuns /\ cue.target \in Targets /\ cue.op \in Ops
        /\ cue.completed \in Nat /\ cue.steps \in Cues
        /\ cue.completed < Len(cue.steps)
    BY <1>2 DEF CueStep, TypeOK, ProcessTypes, CueRuns
  <2>2. next \in CueRuns
    BY <2>1 DEF CueRuns
  <2>3. NextStep.component \in Components /\ NextStep.visible \in BOOLEAN
    <3>1. cue.steps \in Seq([component : Components, visible : BOOLEAN])
      BY <2>1, CueShape
    <3>2. cue.completed + 1 \in 1..Len(cue.steps)
      BY <2>1, <3>1
    <3>3. cue.steps[cue.completed + 1] \in
            [component : Components, visible : BOOLEAN]
      BY <3>1, <3>2, SeqElement
    <3>4. QED BY <3>3 DEF NextStep
  <2>4. CueStepOp \in OpIds
    BY <2>1 DEF CueStepOp, StepOp, OpIds
  <2>5. "cue.step" \in Kinds
    BY DEF Kinds
  <2>6. ApplyVisibility(cue.target, NextStep.component, NextStep.visible,
                        CueStepOp, "cue.step", outcome, next, None)
    BY <1>2 DEF CueStep
  <2>7. /\ FileTypes' /\ ProcessTypes'
        /\ visibilityOperations' \in [Shows -> Seq(VisibilityReceipts)]
    <3> HIDE DEF next
    <3> QED BY <2>1, <2>2, <2>3, <2>4, <2>5, <2>6, ApplyVisibilityType
  <2>8. QED BY <1>2, <2>7 DEF CueStep, TypeOK, OperationTypes
<1>3. ASSUME CueFinish
      PROVE TypeOK'
  <2> DEFINE e == [op |-> cue.op, target |-> cue.target, steps |-> cue.steps,
                   expected |-> cue.expected, completed |-> cue.completed,
                   targetRevision |-> shows[cue.target].rev]
  <2>1. cue \in CueRuns /\ cue.target \in Targets
    BY <1>3 DEF CueFinish, TypeOK, ProcessTypes, CueRuns
  <2>2. shows[cue.target].rev \in Nat /\ cue.target[1] \in Shows
    BY <2>1 DEF TypeOK, ProcessTypes, Snapshots, Targets
  <2>3. e \in CueReceipts
    BY <2>1, <2>2 DEF CueReceipts, CueRuns
  <2>4. cueOperations' = [cueOperations EXCEPT ![cue.target[1]] = Remember(@, e)]
    BY <1>3 DEF CueFinish
  <2>5. cueOperations' \in [Shows -> Seq(CueReceipts)]
    <3> HIDE DEF e
    <3>1. Remember(cueOperations[cue.target[1]], e) \in Seq(CueReceipts)
      BY <2>2, <2>3, RememberType DEF TypeOK, OperationTypes
    <3>2. QED BY <2>2, <2>4, <3>1 DEF TypeOK, OperationTypes
  <2>6. PublicState(cue.target[1], shows) \in
          [show : Shows, preview : Snapshots, program : Snapshots]
    BY <2>2, PublicStateType DEF TypeOK, ProcessTypes
  <2>7. QED
    BY <1>3, <2>5, <2>6 DEF CueFinish, TypeOK, FileTypes, ProcessTypes,
                            OperationTypes, durable
<1>4. QED BY <1>1, <1>2, <1>3 DEF CueCall

\* recoverTarget keeps every table and map well typed.
LEMMA RecoverTargetType ==
  ASSUME TypeOK, NEW t \in Targets, NEW mode \in RecoveryKinds,
         NEW scene \in Scenes, NEW v \in Values, NEW op \in Ops, NEW outcome,
         RecoverTarget(t, mode, scene, v, op, outcome)
  PROVE  TypeOK'
<1> DEFINE q == quarantines[t]
           content == IF mode = "quarantine.reset" THEN EmptyContent
                      ELSE [scene |-> scene, hidden |-> {}, vars |-> v]
           snap == [rev |-> q.rev + 1, content |-> content]
<1>1. q \in Quarantines
  BY DEF RecoverTarget, TypeOK, ProcessTypes
<1>2. snap \in Snapshots
  BY <1>1 DEF Quarantines, Snapshots, Contents, EmptyContent
<1>3. q.rejected \in Hashes \cup {None} /\ mode \in Kinds /\ op \in OpIds
  BY <1>1 DEF Quarantines, RecoveryKinds, Kinds, OpIds
<1>4. /\ CommitSnapshot(t, snap, mode, op, q.rev, q.rejected, outcome)
      /\ PublishCommittedSnapshot(t, snap, outcome, None, None)
      /\ UNCHANGED operations
  BY DEF RecoverTarget
<1>5. /\ FileTypes'
      /\ heads' \in [Targets -> [index : Nat, rev : Nat, content : Contents]]
      /\ globalSequence' \in Nat /\ commandSequence' \in Nat
      /\ shows' \in [Targets -> Snapshots]
      /\ quarantines' \in [Targets -> Quarantines \cup {None}]
  <2> HIDE DEF snap, q
  <2> QED BY <1>2, <1>3, <1>4, CommitType
<1>6. ProcessTypes'
  <2> HIDE DEF snap
  <2> QED BY <1>2, <1>4, <1>5, PublishType DEF ProcessTypes
<1>7. QED BY <1>4, <1>5, <1>6 DEF TypeOK, OperationTypes, operations

\* The journal stays a sequence of command records.
LEMMA JournalType ==
  ASSUME TypeOK, NEW p \in Creds, NEW generation \in Nat, NEW op \in Ops,
         NEW intent \in Intents, NEW status \in {"applied", "rejected"},
         NEW previous \in Nat, NEW snap, snap.rev \in Nat,
         snap.content \in Contents,
         JournalCommand(p, generation, op, intent, status, previous, snap)
  PROVE  commands' \in Seq(Commands)
<1> DEFINE c == [principal |-> p, op |-> op, intent |-> intent,
                 generation |-> generation, status |-> status,
                 previous |-> previous, resulting |-> snap.rev,
                 content |-> snap.content]
<1>1. c \in Commands
  BY DEF Commands
<1>2. QED BY <1>1 DEF JournalCommand, TypeOK, FileTypes

\* Device commands and the credential lifecycle keep everything well typed.
LEMMA DeviceType ==
  ASSUME TypeOK, DeviceStep
  PROVE  TypeOK'
<1>1. ASSUME NEW p \in Creds, NEW op \in Ops, NEW generation \in 1..MaxGeneration,
             NEW outcome \in Outcomes, NEW intent \in DeviceIntents,
             RejectDeviceCommand(p, generation, op, intent, outcome)
      PROVE TypeOK'
  <2> DEFINE row == current[intent.target]
  <2>1. generation \in Nat /\ intent \in Intents /\ intent.target \in Targets
    BY ModelBounds, DeviceIntentShape DEF Intents, Targets, Buses
  <2>2. row \in Rows /\ row.rev \in Nat /\ row.content \in Contents
    BY <1>1, <2>1 DEF RejectDeviceCommand, CommandAdmitted, TypeOK, FileTypes, Rows
  <2>3. commands' \in Seq(Commands)
    <3>1. CASE outcome = "refused"
      BY <1>1, <3>1 DEF RejectDeviceCommand, TypeOK, FileTypes
    <3>2. CASE outcome # "refused"
      <4>1. JournalCommand(p, generation, op, intent, "rejected", row.rev, row)
        BY <1>1, <3>2 DEF RejectDeviceCommand
      <4>2. QED BY <2>1, <2>2, <4>1, JournalType
    <3>3. QED BY <3>1, <3>2
  <2>4. commandSequence' \in Nat
    BY <1>1 DEF RejectDeviceCommand, TypeOK, ProcessTypes
  <2>5. phase' \in {"down", "usable", "failed"}
    BY <1>1 DEF RejectDeviceCommand, TypeOK, ProcessTypes
  <2>6. QED
    BY <1>1, <2>3, <2>4, <2>5 DEF RejectDeviceCommand, TypeOK, FileTypes,
                           ProcessTypes, OperationTypes, operations
<1>2. ASSUME NEW p \in Creds, NEW op \in Ops, NEW generation \in 1..MaxGeneration,
             NEW outcome \in Outcomes, NEW intent \in DeviceIntents,
             ApplyDeviceCommand(p, generation, op, intent, outcome)
      PROVE TypeOK'
  <2> DEFINE t == intent.target
             row == current[t]
             snap == [rev |-> row.rev + 1,
                      content |-> WithVisibility(row.content,
                                    intent.component, intent.visible)]
  <2>1. /\ generation \in Nat /\ intent \in Intents /\ t \in Targets
        /\ intent.component \in Components
    BY ModelBounds, DeviceIntentShape DEF Intents, Targets, Buses
  <2>2. row \in Rows /\ row.rev \in Nat /\ row.content \in Contents
    BY <1>2, <2>1 DEF ApplyDeviceCommand, CommandAdmitted, TypeOK, FileTypes, Rows
  <2>3. snap \in Snapshots /\ snap.rev \in Nat /\ snap.content \in Contents
    BY <2>1, <2>2, VisibilityType DEF Snapshots
  <2>4. FileTypes'
    <3>1. CASE outcome = "refused"
      BY <1>2, <3>1 DEF ApplyDeviceCommand, TypeOK, FileTypes
    <3>2. CASE outcome # "refused"
      <4>1. /\ AppendRows(t, snap, "component.visibility", DeviceOp(op), None)
            /\ JournalCommand(p, generation, op, intent, "applied", row.rev, snap)
            /\ UNCHANGED <<brokenCommands, commandQuarantine, credential>>
        BY <1>2, <3>2 DEF ApplyDeviceCommand
      <4>2. "component.visibility" \in Kinds /\ DeviceOp(op) \in OpIds
        BY DEF Kinds, OpIds, DeviceOp
      <4>3. /\ history' \in Seq(Records)
            /\ current' \in [Targets -> Rows \cup {None}]
            /\ quarantine' \in [Targets -> Quarantines \cup {None}]
        <5> HIDE DEF snap, t
        <5> QED BY <2>1, <2>3, <4>1, <4>2, AppendRowsType
      <4>4. commands' \in Seq(Commands)
        <5> HIDE DEF snap, row
        <5> QED BY <2>1, <2>2, <2>3, <4>1, JournalType
      <4>5. QED BY <4>1, <4>3, <4>4 DEF TypeOK, FileTypes
    <3>3. QED BY <3>1, <3>2
  <2>5. /\ globalSequence' \in Nat /\ commandSequence' \in Nat
        /\ heads' \in [Targets -> [index : Nat, rev : Nat, content : Contents]]
        /\ shows' \in [Targets -> Snapshots]
    <3>1. CASE Adopted(outcome)
      <4>1. AdoptCommit(t, snap) /\ commandSequence' = commandSequence + 1
        BY <1>2, <3>1 DEF ApplyDeviceCommand
      <4>2. commandSequence' \in Nat
        BY <4>1 DEF TypeOK, ProcessTypes
      <4>3. QED
        <5> HIDE DEF snap, t
        <5> QED BY <2>1, <2>3, <4>1, <4>2, AdoptCommitType
    <3>2. CASE ~Adopted(outcome)
      BY <1>2, <3>2 DEF ApplyDeviceCommand, TypeOK, ProcessTypes
    <3>3. QED BY <3>1, <3>2
  <2>6. PublicState(t[1], shows') \in
          [show : Shows, preview : Snapshots, program : Snapshots]
    <3>1. t[1] \in Shows
      BY <2>1 DEF Targets
    <3>2. QED BY <2>5, <3>1, PublicStateType
  <2>7. /\ PublishCommittedSnapshot(t, snap, outcome, None,
                                    PublicState(t[1], shows'))
        /\ UNCHANGED <<quarantines, operations>>
    BY <1>2 DEF ApplyDeviceCommand
  <2>8. /\ phase' \in {"down", "usable", "failed"}
        /\ published' \in [Targets -> Snapshots]
        /\ cue' \in CueRuns \cup {None}
        /\ answer' \in [show : Shows, preview : Snapshots, program : Snapshots]
                         \cup {None}
    <3> HIDE DEF snap, t
    <3> QED BY <2>1, <2>3, <2>6, <2>7, PublishType
  <2>9. QED
    BY <2>4, <2>5, <2>7, <2>8 DEF TypeOK, ProcessTypes, OperationTypes, operations
<1>3. ASSUME NEW p \in Creds, RotateCredential(p)
      PROVE TypeOK'
  <2> DEFINE c == [credential[p] EXCEPT !.generation = @ + 1]
  <2>1. credential' \in [Creds -> [generation : Nat, revoked : BOOLEAN]]
    <3>1. credential[p] \in [generation : Nat, revoked : BOOLEAN]
      BY DEF TypeOK, FileTypes
    <3>2. c \in [generation : Nat, revoked : BOOLEAN]
      BY <3>1
    <3>3. credential' = [credential EXCEPT ![p] = c]
      BY <1>3 DEF RotateCredential
    <3> HIDE DEF c
    <3>4. QED BY <3>2, <3>3 DEF TypeOK, FileTypes
  <2>2. QED BY <1>3, <2>1 DEF RotateCredential, TypeOK, FileTypes, ProcessTypes,
                   OperationTypes, volatile, operations
<1>4. ASSUME NEW p \in Creds, RevokeCredential(p)
      PROVE TypeOK'
  <2>1. credential' \in [Creds -> [generation : Nat, revoked : BOOLEAN]]
    BY <1>4 DEF RevokeCredential, TypeOK, FileTypes
  <2>2. QED BY <1>4, <2>1 DEF RevokeCredential, TypeOK, FileTypes, ProcessTypes,
                   OperationTypes, volatile, operations
<1>5. QED BY <1>1, <1>2, <1>3, <1>4 DEF DeviceStep

\* What a mount derives from the file.
LEMMA TargetHeadType ==
  ASSUME NEW h \in Seq(Records), NEW t, NEW i, IsHead(h, t, i)
  PROVE  /\ TargetHead(h, t) \in [index : Nat, rev : Nat, content : Contents]
         /\ TargetHead(h, t) =
              [index |-> i, rev |-> IF i = 0 THEN 0 ELSE h[i].rev,
               content |-> IF i = 0 THEN EmptyContent ELSE h[i].content]
<1>1. HeadIndex(h, t) = i
  BY HeadIndexIs
<1>2. i \in 0..Len(h)
  BY DEF IsHead
<1>3. CASE i = 0
  BY <1>1, <1>3 DEF TargetHead, EmptyContent, Contents
<1>4. CASE i # 0
  <2>1. h[i] \in Records
    BY <1>2, <1>4
  <2>2. h[i].rev \in Nat /\ h[i].content \in Contents
    BY <2>1 DEF Records
  <2>3. QED BY <1>1, <1>2, <1>4, <2>2 DEF TargetHead
<1>5. QED BY <1>3, <1>4

\* Death, mount and damage keep everything well typed.
LEMMA LifetimeType ==
  ASSUME TypeOK, \A t \in Targets : \E i : IsHead(history, t, i),
         Lifetime \/ SnapshotDamage \/ JournalDamage
  PROVE  TypeOK'
<1>1. ASSUME NEW t \in Targets
      PROVE /\ TargetHead(history, t) \in [index : Nat, rev : Nat, content : Contents]
            /\ HeadHash(t) \in Snapshots
  <2>1. PICK i : IsHead(history, t, i)
    OBVIOUS
  <2>2. TargetHead(history, t) \in [index : Nat, rev : Nat, content : Contents]
    BY <2>1, TargetHeadType DEF TypeOK, FileTypes
  <2>3. QED BY <2>2 DEF HeadHash, Snapshots
<1>2. ASSUME NEW t \in Targets
      PROVE MountQuarantine(t) \in Quarantines \cup {None}
  <2>1. current[t] \in Rows \cup {None} /\ quarantine[t] \in Quarantines \cup {None}
    BY DEF TypeOK, FileTypes
  <2>2. current[t] # None => RowHash(current[t]) \in Hashes
    BY <2>1 DEF RowHash, Hashes, Rows, Snapshots
  <2>3. Rejected(t) \in Hashes \cup {None}
    BY <1>1, <2>2 DEF Rejected, Hashes
  <2>4. TargetHead(history, t).rev \in Nat
    BY <1>1
  <2>5. QED BY <2>1, <2>3, <2>4 DEF MountQuarantine, Quarantines
<1>3. VerifyCommandJournal \subseteq Shows
  <2>1. ASSUME NEW i \in 1..Len(commands)
        PROVE commands[i].intent.target[1] \in Shows
    <3>1. commands[i] \in Commands
      BY SeqElement DEF TypeOK, FileTypes
    <3>2. commands[i].intent.target \in Targets
      BY <3>1 DEF Commands, Intents
    <3>3. QED BY <3>2 DEF Targets
  <2>2. QED BY <2>1 DEF VerifyCommandJournal, TypeOK, FileTypes
<1>4. EmptySnapshot \in Snapshots /\ EmptyContent \in Contents
  BY DEF EmptySnapshot, EmptyContent, Snapshots, Contents
<1>5. CASE Crash
  <2>1. FileTypes'
    BY <1>5 DEF Crash, TypeOK, FileTypes, durable
  <2>2. OperationTypes'
    BY <1>5 DEF Crash, ForgetProcess, OperationTypes, NoOperations
  <2>3. ProcessTypes'
    BY <1>4, <1>5 DEF Crash, ForgetProcess, ProcessTypes
  <2>4. QED BY <2>1, <2>2, <2>3 DEF TypeOK
<1>6. CASE MountPersistence
  <2> DEFINE next == [t \in Targets |-> MountQuarantine(t)]
             restored == [t \in Targets |->
               IF next[t] = None /\ current[t] # None
               THEN [rev |-> current[t].rev, content |-> current[t].content]
               ELSE EmptySnapshot]
  <2>1. next \in [Targets -> Quarantines \cup {None}]
    BY <1>2
  <2>2. restored \in [Targets -> Snapshots]
    <3>1. ASSUME NEW t \in Targets, current[t] # None
          PROVE [rev |-> current[t].rev, content |-> current[t].content] \in Snapshots
      <4>1. current[t] \in Rows
        BY <3>1 DEF TypeOK, FileTypes
      <4>2. QED BY <4>1 DEF Rows, Snapshots
    <3> HIDE DEF next
    <3>2. QED BY <1>4, <3>1
  <2>3. /\ quarantine' = next /\ quarantines' = next
        /\ shows' = restored /\ published' = restored
        /\ heads' = [t \in Targets |-> TargetHead(history, t)]
        /\ commandQuarantine' = VerifyCommandJournal
        /\ phase' = "usable"
        /\ globalSequence' = Len(history) /\ commandSequence' = Len(commands)
        /\ UNCHANGED <<history, current, commands, brokenCommands, credential,
                       operations, cue, answer>>
    BY <1>6 DEF MountPersistence
  <2>4. heads' \in [Targets -> [index : Nat, rev : Nat, content : Contents]]
    BY <1>1, <2>3
  <2> HIDE DEF next, restored
  <2>5. FileTypes'
    BY <1>3, <2>1, <2>3 DEF TypeOK, FileTypes
  <2>6. ProcessTypes'
    BY <2>1, <2>2, <2>3, <2>4 DEF TypeOK, FileTypes, ProcessTypes
  <2>7. QED BY <2>3, <2>5, <2>6 DEF TypeOK, OperationTypes, operations
<1>7. CASE MountInterrupted
  <2>1. quarantine' \in [Targets -> Quarantines \cup {None}]
    BY <1>2, <1>7 DEF MountInterrupted, TypeOK, FileTypes
  <2>2. commandQuarantine' \subseteq Shows
    BY <1>3, <1>7 DEF MountInterrupted, TypeOK, FileTypes
  <2>3. QED BY <1>7, <2>1, <2>2 DEF MountInterrupted, TypeOK, FileTypes, ProcessTypes,
                     OperationTypes, volatile, operations
<1>8. ASSUME NEW t \in Targets, DamageRow(t)
      PROVE TypeOK'
  <2>1. current[t] \in Rows
    BY <1>8 DEF DamageRow, TypeOK, FileTypes
  <2>2. ASSUME NEW form \in {"tampered", "unparseable"}
        PROVE [current[t] EXCEPT !.form = form] \in Rows
    BY <2>1 DEF Rows
  <2>3. ASSUME NEW i \in 1..Len(history)
        PROVE [rev |-> history[i].rev, content |-> history[i].content,
               form |-> "ok"] \in Rows
    <3>1. history[i] \in Records
      BY SeqElement DEF TypeOK, FileTypes
    <3>2. QED BY <3>1 DEF Records, Rows
  <2>4. current' \in [Targets -> Rows \cup {None}]
    BY <1>8, <2>2, <2>3 DEF DamageRow, TypeOK, FileTypes
  <2>5. QED BY <1>8, <2>4 DEF DamageRow, TypeOK, FileTypes, ProcessTypes,
                     OperationTypes, volatile, operations
<1>9. ASSUME NEW i \in 1..Len(commands), DamageCommand(i)
      PROVE TypeOK'
  <2>1. brokenCommands' \subseteq Nat
    BY <1>9 DEF DamageCommand, TypeOK, FileTypes
  <2>2. QED BY <1>9, <2>1 DEF DamageCommand, TypeOK, FileTypes, ProcessTypes,
                     OperationTypes, volatile, operations
<1>10. QED
  BY <1>5, <1>6, <1>7, <1>8, <1>9 DEF Lifetime, SnapshotDamage, JournalDamage
-----------------------------------------------------------------------------
(***************************************************************************)
(* The authority's safety.  The inductive invariant adds to the properties *)
(* that every target has a head record, without which what a mount derives *)
(* is not even typed.                                                      *)
(***************************************************************************)
HeadsExist == \A t \in Targets : \E i \in 0..Len(history) : IsHead(history, t, i)

AuthorityInv ==
  /\ TypeOK /\ HeadsExist
  /\ StartupNeverAborts /\ MemoryIsDurableTruth /\ UsableCanCommit

\* A mutation the store admits extends the file to one the next start
\* accepts, and moves the truth of its target only.
LEMMA AppendRowsKeepsFile ==
  ASSUME AuthorityInv, Usable, NEW t \in Targets, NEW snap \in Snapshots,
         NEW kind \in Kinds, NEW op \in OpIds,
         NEW rejected \in Hashes \cup {None},
         snap.rev = heads[t].rev + 1,
         AppendRows(t, snap, kind, op, rejected)
  PROVE  /\ HeadsExist' /\ StartupNeverAborts'
         /\ Len(history') = Len(history) + 1
         /\ TargetHead(history', t) =
              [index |-> Len(history) + 1, rev |-> snap.rev,
               content |-> snap.content]
         /\ \A u \in Targets \ {t} :
              TargetHead(history', u) = TargetHead(history, u)
<1> DEFINE r == [target |-> t, rev |-> snap.rev, content |-> snap.content,
                 kind |-> kind, op |-> op, prev |-> heads[t].index,
                 rejected |-> rejected]
<1>1. /\ history \in Seq(Records) /\ Len(history) \in Nat
      /\ heads[t].index \in Nat /\ TypeOK
    BY DEF AuthorityInv, TypeOK, FileTypes, ProcessTypes
<1>2. r \in Records
  BY <1>1 DEF Records, Snapshots
<1>3. history' = Append(history, r) /\ history' \in Seq(Records)
  BY <1>1, <1>2 DEF AppendRows
<1>4. Len(history') = Len(history) + 1 /\ history'[Len(history) + 1] = r
  BY <1>1, <1>3
<1>5. ASSUME NEW u \in Targets
      PROVE \E i \in 0..Len(history) :
              /\ IsHead(history, u, i)
              /\ IsHead(history', u, IF u = t THEN Len(history) + 1 ELSE i)
  <2>1. PICK i \in 0..Len(history) : IsHead(history, u, i)
    BY DEF AuthorityInv, HeadsExist
  <2>2. IsHead(history', u, IF r.target = u THEN Len(history) + 1 ELSE i)
    <3> HIDE DEF r
    <3> QED BY <1>1, <1>2, <1>3, <2>1, AppendMovesHead
  <2>3. QED BY <2>1, <2>2
<1>6. HeadsExist'
  BY <1>1, <1>4, <1>5 DEF HeadsExist
<1>7. TargetHead(history', t) =
        [index |-> Len(history) + 1, rev |-> snap.rev, content |-> snap.content]
  <2>1. IsHead(history', t, Len(history) + 1)
    BY <1>5
  <2>2. TargetHead(history', t) =
          [index |-> Len(history) + 1,
           rev |-> IF Len(history) + 1 = 0 THEN 0
                   ELSE history'[Len(history) + 1].rev,
           content |-> IF Len(history) + 1 = 0 THEN EmptyContent
                       ELSE history'[Len(history) + 1].content]
    <3> HIDE DEF r
    <3> QED BY <1>3, <2>1, TargetHeadType
  <2>3. Len(history) + 1 # 0
    BY <1>1
  <2>4. QED BY <1>4, <2>2, <2>3
<1>8. ASSUME NEW u \in Targets \ {t}
      PROVE TargetHead(history', u) = TargetHead(history, u)
  <2>1. PICK i \in 0..Len(history) :
          IsHead(history, u, i) /\ IsHead(history', u, i)
    BY <1>5
  <2>2. i # 0 => history'[i] = history[i]
    BY <1>1, <1>3, <2>1
  <2> HIDE DEF r
  <2>3. TargetHead(history, u) =
          [index |-> i, rev |-> IF i = 0 THEN 0 ELSE history[i].rev,
           content |-> IF i = 0 THEN EmptyContent ELSE history[i].content]
    BY <1>1, <2>1, TargetHeadType
  <2>4. TargetHead(history', u) =
          [index |-> i, rev |-> IF i = 0 THEN 0 ELSE history'[i].rev,
           content |-> IF i = 0 THEN EmptyContent ELSE history'[i].content]
    BY <1>3, <2>1, TargetHeadType
  <2>5. QED BY <2>2, <2>3, <2>4
<1>9. VerifyHistory(history')
  <2>1. PICK i \in 0..Len(history) : IsHead(history, t, i)
    BY DEF AuthorityInv, HeadsExist
  <2>2. heads[t] = [index |-> i, rev |-> IF i = 0 THEN 0 ELSE history[i].rev,
                    content |-> IF i = 0 THEN EmptyContent ELSE history[i].content]
    BY <1>1, <2>1, TargetHeadType DEF AuthorityInv, UsableCanCommit
  <2>3. /\ IsHead(history, r.target, r.prev)
        /\ r.rev = (IF r.prev = 0 THEN 0 ELSE history[r.prev].rev) + 1
    BY <2>1, <2>2
  <2>4. VerifyHistory(history)
    BY DEF AuthorityInv, StartupNeverAborts, LoadAccepts
  <2> HIDE DEF r
  <2>5. QED BY <1>1, <1>2, <1>3, <2>3, <2>4, AppendVerifies
<1>10. ASSUME NEW u \in Targets
       PROVE /\ quarantine'[u] # None =>
                  quarantine'[u].rev = TargetHead(history', u).rev
             /\ current'[u] # None => TargetHead(history', u).index # 0
  <2>1. CASE u = t
    <3>1. quarantine'[t] = None
      BY <1>1 DEF AppendRows, TypeOK, FileTypes
    <3>2. QED BY <1>1, <1>7, <2>1, <3>1
  <2>2. CASE u # t
    <3>1. quarantine'[u] = quarantine[u] /\ current'[u] = current[u]
      BY <1>1, <2>2 DEF AppendRows, TypeOK, FileTypes
    <3>2. QED
      BY <1>8, <2>2, <3>1 DEF AuthorityInv, StartupNeverAborts, LoadAccepts
  <2>3. QED BY <2>1, <2>2
<1>11. QED
  BY <1>4, <1>6, <1>7, <1>8, <1>9, <1>10 DEF StartupNeverAborts, LoadAccepts

\* A committed mutation leaves memory at the new truth of its target, and a
\* store that admits the next one.
LEMMA CommitKeepsMemory ==
  ASSUME AuthorityInv, Usable, NEW t \in Targets, NEW snap \in Snapshots,
         NEW kind \in Kinds, NEW op \in OpIds,
         NEW rejected \in Hashes \cup {None},
         snap.rev = heads[t].rev + 1,
         AppendRows(t, snap, kind, op, rejected), AdoptCommit(t, snap),
         quarantines' = [quarantines EXCEPT ![t] = None],
         commandSequence' = Len(commands')
  PROVE  MemoryIsDurableTruth' /\ UsableCanCommit'
<1>1. /\ StartupNeverAborts' /\ Len(history') = Len(history) + 1
      /\ TargetHead(history', t) =
              [index |-> Len(history) + 1, rev |-> snap.rev,
               content |-> snap.content]
      /\ \A u \in Targets \ {t} :
              TargetHead(history', u) = TargetHead(history, u)
  BY AppendRowsKeepsFile
<1>2. globalSequence' = Len(history') /\ globalSequence = Len(history)
  BY <1>1 DEF AdoptCommit, AuthorityInv, UsableCanCommit
<1>3. /\ snap.rev \in Nat /\ snap.content \in Contents
      /\ snap = [rev |-> snap.rev, content |-> snap.content]
  BY DEF Snapshots
<1>4. ASSUME NEW u \in Targets
      PROVE /\ heads'[u] = TargetHead(history', u)
            /\ quarantines'[u] = quarantine'[u]
            /\ quarantines'[u] = None =>
                 /\ shows'[u] = HeadHash(u)'
                 /\ IF current'[u] = None THEN HeadHash(u)'.rev = 0
                    ELSE [rev |-> current'[u].rev, content |-> current'[u].content]
                           = HeadHash(u)'
  <2>1. CASE u = t
    <3>1. heads'[t] = TargetHead(history', t)
      BY <1>1, <1>2 DEF AdoptCommit, AuthorityInv, TypeOK, ProcessTypes
    <3>2. quarantines'[t] = None /\ quarantine'[t] = None
      BY DEF AppendRows, AuthorityInv, TypeOK, FileTypes, ProcessTypes
    <3>3. /\ shows'[t] = snap
          /\ current'[t] = [rev |-> snap.rev, content |-> snap.content, form |-> "ok"]
      BY DEF AppendRows, AdoptCommit, AuthorityInv, TypeOK, FileTypes, ProcessTypes
    <3>4. HeadHash(t)' = snap
      BY <1>1, <1>3 DEF HeadHash
    <3>5. current'[t] # None
      <4>1. current'[t] \in Rows
        BY <1>3, <3>3 DEF Rows
      <4>2. QED BY <4>1, NoneDistinct
    <3>6. QED BY <1>3, <2>1, <3>1, <3>2, <3>3, <3>4, <3>5
  <2>2. CASE u # t
    <3>1. /\ heads'[u] = heads[u] /\ quarantines'[u] = quarantines[u]
          /\ quarantine'[u] = quarantine[u] /\ shows'[u] = shows[u]
          /\ current'[u] = current[u]
      BY <2>2 DEF AppendRows, AdoptCommit, AuthorityInv, TypeOK, FileTypes, ProcessTypes
    <3>2. HeadHash(u)' = HeadHash(u)
      BY <1>1, <2>2 DEF HeadHash
    <3>3. /\ heads[u] = TargetHead(history, u) /\ quarantines[u] = quarantine[u]
          /\ quarantines[u] = None =>
                 /\ shows[u] = HeadHash(u)
                 /\ IF current[u] = None THEN HeadHash(u).rev = 0
                    ELSE [rev |-> current[u].rev, content |-> current[u].content]
                           = HeadHash(u)
      BY DEF AuthorityInv, MemoryIsDurableTruth, UsableCanCommit, Available, Truth
    <3>4. QED BY <1>1, <2>2, <3>1, <3>2, <3>3
  <2>3. QED BY <2>1, <2>2
<1>5. MemoryIsDurableTruth'
  BY <1>4 DEF MemoryIsDurableTruth, Available, Truth
<1>6. ASSUME NEW u \in Targets
      PROVE IF quarantines'[u] = None THEN StoreAdmits(u, shows[u].rev, None)'
            ELSE StoreAdmits(u, quarantines[u].rev, quarantines[u].rejected)'
  <2>1. HeadHash(u)'.rev = TargetHead(history', u).rev
    BY DEF HeadHash
  <2>2. quarantine'[u] # None => quarantine'[u].rev = TargetHead(history', u).rev
    BY <1>1 DEF StartupNeverAborts, LoadAccepts
  <2>3. CASE quarantines'[u] = None
    BY <1>4, <2>1, <2>3 DEF StoreAdmits
  <2>4. CASE quarantines'[u] # None
    BY <1>4, <2>2, <2>4 DEF StoreAdmits
  <2>5. QED BY <2>3, <2>4
<1>7. QED BY <1>2, <1>4, <1>5, <1>6 DEF UsableCanCommit, Available

\* Any outcome of a commit keeps the invariant's safety part.
LEMMA CommitKeepsSafety ==
  ASSUME AuthorityInv, Usable, NEW t \in Targets, NEW snap \in Snapshots,
         NEW kind \in Kinds, NEW op \in OpIds, NEW expected,
         NEW rejected \in Hashes \cup {None}, NEW outcome, NEW nextCue,
         NEW reply,
         CommitSnapshot(t, snap, kind, op, expected, rejected, outcome),
         PublishCommittedSnapshot(t, snap, outcome, nextCue, reply)
  PROVE  /\ HeadsExist' /\ StartupNeverAborts'
         /\ MemoryIsDurableTruth' /\ UsableCanCommit'
<1>1. CASE outcome = "refused"
  <2>1. UNCHANGED <<history, current, quarantine>> /\ phase' = "failed"
    BY <1>1 DEF CommitSnapshot, PublishCommittedSnapshot
  <2>2. HeadsExist' /\ StartupNeverAborts'
    BY <2>1 DEF AuthorityInv, HeadsExist, StartupNeverAborts, LoadAccepts
  <2>3. QED BY <2>1, <2>2 DEF MemoryIsDurableTruth, UsableCanCommit, Usable
<1>2. CASE outcome # "refused"
  <2>1. /\ AppendRows(t, snap, kind, op, rejected)
        /\ snap.rev = heads[t].rev + 1
    BY <1>2 DEF CommitSnapshot, StoreAdmits
  <2>2. HeadsExist' /\ StartupNeverAborts'
    BY <2>1, AppendRowsKeepsFile
  <2>3. CASE outcome = "committed"
    <3>1. /\ AdoptCommit(t, snap)
          /\ quarantines' = [quarantines EXCEPT ![t] = None]
          /\ UNCHANGED <<commands, commandSequence>>
      BY <2>3 DEF CommitSnapshot, Adopted
    <3>2. commandSequence' = Len(commands')
      BY <3>1 DEF AuthorityInv, UsableCanCommit
    <3>3. QED BY <2>1, <2>2, <3>1, <3>2, CommitKeepsMemory
  <2>4. CASE outcome # "committed"
    <3>1. phase' = "failed"
      BY <2>4 DEF PublishCommittedSnapshot
    <3>2. QED BY <2>2, <3>1 DEF MemoryIsDurableTruth, UsableCanCommit, Usable
  <2>5. QED BY <2>2, <2>3, <2>4
<1>3. QED BY <1>1, <1>2

\* The visibility mutation, an intent's or a cue step's, keeps the safety part.
LEMMA VisibilityKeepsSafety ==
  ASSUME AuthorityInv, Usable, NEW t \in Targets, NEW c \in Components,
         NEW visible \in BOOLEAN, NEW op \in OpIds, NEW kind \in Kinds,
         NEW outcome, NEW nextCue, NEW reply,
         ApplyVisibility(t, c, visible, op, kind, outcome, nextCue, reply)
  PROVE  /\ HeadsExist' /\ StartupNeverAborts'
         /\ MemoryIsDurableTruth' /\ UsableCanCommit'
<1> DEFINE snap == [rev |-> shows[t].rev + 1,
                    content |-> WithVisibility(shows[t].content, c, visible)]
<1>1. shows[t].rev \in Nat /\ shows[t].content \in Contents
  BY DEF AuthorityInv, TypeOK, ProcessTypes, Snapshots
<1>2. snap \in Snapshots
  BY <1>1, VisibilityType DEF Snapshots
<1>3. /\ CommitSnapshot(t, snap, kind, op, shows[t].rev, None, outcome)
      /\ PublishCommittedSnapshot(t, snap, outcome, nextCue, reply)
  BY DEF ApplyVisibility
<1> HIDE DEF snap
<1>4. QED BY <1>2, <1>3, CommitKeepsSafety

\* Steps that change neither the snapshot rows nor what memory says of them.
LEMMA OtherStepsKeepSafety ==
  ASSUME AuthorityInv,
         UNCHANGED <<history, current, quarantine>>,
         Usable' => /\ Usable
                    /\ UNCHANGED <<heads, globalSequence, shows, quarantines>>
                    /\ commandSequence' = Len(commands')
  PROVE  /\ HeadsExist' /\ StartupNeverAborts'
         /\ MemoryIsDurableTruth' /\ UsableCanCommit'
<1>1. HeadsExist' /\ StartupNeverAborts'
  BY DEF AuthorityInv, HeadsExist, StartupNeverAborts, LoadAccepts
<1>2. MemoryIsDurableTruth'
  BY DEF AuthorityInv, MemoryIsDurableTruth, Available, Truth, HeadHash
<1>3. UsableCanCommit'
  <2>1. SUFFICES ASSUME Usable' PROVE UsableCanCommit'
    BY DEF UsableCanCommit
  <2>2. QED BY <2>1 DEF AuthorityInv, UsableCanCommit, Available, StoreAdmits
<1>4. QED BY <1>1, <1>2, <1>3

\* A mount derives memory that is the durable truth, and quarantines at the
\* head revision whatever it cannot restore.
LEMMA MountKeepsSafety ==
  ASSUME AuthorityInv, MountPersistence
  PROVE  /\ HeadsExist' /\ StartupNeverAborts'
         /\ MemoryIsDurableTruth' /\ UsableCanCommit'
<1>1. UNCHANGED <<history, current, commands>> /\ TypeOK /\ LoadAccepts
  BY DEF MountPersistence, AuthorityInv
<1>2. HeadsExist'
  BY <1>1 DEF AuthorityInv, HeadsExist
<1>3. ASSUME NEW t \in Targets
      PROVE /\ quarantine'[t] = MountQuarantine(t)
            /\ quarantines'[t] = quarantine'[t]
            /\ heads'[t] = TargetHead(history', t)
            /\ shows'[t] = IF MountQuarantine(t) = None /\ current[t] # None
                           THEN [rev |-> current[t].rev,
                                 content |-> current[t].content]
                           ELSE EmptySnapshot
  BY <1>1 DEF MountPersistence
<1>4. ASSUME NEW t \in Targets
      PROVE /\ TargetHead(history, t) \in [index : Nat, rev : Nat, content : Contents]
            /\ HeadHash(t) \in Snapshots
            /\ TargetHead(history, t).index = 0 => HeadHash(t) = EmptySnapshot
  <2>1. PICK i \in 0..Len(history) : IsHead(history, t, i)
    BY DEF AuthorityInv, HeadsExist
  <2>2. /\ TargetHead(history, t) \in [index : Nat, rev : Nat, content : Contents]
        /\ TargetHead(history, t) =
              [index |-> i, rev |-> IF i = 0 THEN 0 ELSE history[i].rev,
               content |-> IF i = 0 THEN EmptyContent ELSE history[i].content]
    BY <1>1, <2>1, TargetHeadType DEF TypeOK, FileTypes
  <2>3. QED BY <2>2 DEF HeadHash, Snapshots, EmptySnapshot
<1>5. ASSUME NEW t \in Targets
      PROVE quarantine'[t] # None =>
              quarantine'[t].rev = TargetHead(history', t).rev
  <2>1. quarantine[t] # None => quarantine[t].rev = TargetHead(history, t).rev
    BY <1>1 DEF LoadAccepts
  <2>2. TargetHead(history', t) = TargetHead(history, t)
    BY <1>1
  <2>3. MountQuarantine(t) # None =>
          MountQuarantine(t).rev = TargetHead(history, t).rev
    BY <2>1 DEF MountQuarantine
  <2>4. QED BY <1>3, <2>2, <2>3
<1>6. StartupNeverAborts'
  BY <1>1, <1>5 DEF StartupNeverAborts, LoadAccepts
<1>7. ASSUME NEW t \in Targets, quarantine'[t] = None
      PROVE /\ shows'[t] = HeadHash(t)
            /\ IF current[t] = None THEN HeadHash(t).rev = 0
               ELSE [rev |-> current[t].rev, content |-> current[t].content]
                      = HeadHash(t)
  <2>1. MountQuarantine(t) = None
    BY <1>3, <1>7
  <2>2. Rejected(t) = None
    <3>1. quarantine[t] = None
      BY <2>1 DEF MountQuarantine
    <3>2. SUFFICES ASSUME Rejected(t) # None PROVE FALSE
      OBVIOUS
    <3>3. current[t] \in Rows \cup {None}
      BY <1>1 DEF TypeOK, FileTypes
    <3>4. current[t] # None => RowHash(current[t]) \in Hashes
      BY <3>3 DEF RowHash, Hashes, Rows, Snapshots
    <3>5. Rejected(t) \in Hashes
      BY <1>4, <3>2, <3>4 DEF Rejected, Hashes
    <3>6. [rev |-> TargetHead(history, t).rev, rejected |-> Rejected(t)]
            \in Quarantines
      BY <1>4, <3>5 DEF Quarantines
    <3>7. QED BY <2>1, <3>1, <3>2, <3>6, NoneDistinct DEF MountQuarantine
  <2>3. CASE TargetHead(history, t).index = 0
    <3>1. current[t] = None
      BY <1>1, <2>3 DEF LoadAccepts
    <3>2. shows'[t] = EmptySnapshot
      BY <1>3, <3>1
    <3>3. EmptySnapshot.rev = 0
      BY DEF EmptySnapshot
    <3>4. QED BY <1>4, <2>3, <3>1, <3>2, <3>3
  <2>4. CASE TargetHead(history, t).index # 0
    <3>1. HeadHash(t) # None
      BY <1>4, NoneDistinct DEF Hashes
    <3>2. current[t] # None
      BY <2>2, <2>4, <3>1 DEF Rejected
    <3>3. RowHash(current[t]) = HeadHash(t)
      <4>1. current[t] \in Rows
        BY <1>1, <3>2 DEF TypeOK, FileTypes
      <4>2. RowHash(current[t]) \in Hashes
        BY <4>1 DEF RowHash, Hashes, Rows, Snapshots
      <4>3. RowHash(current[t]) # None
        BY <4>2, NoneDistinct
      <4>4. QED BY <2>2, <2>4, <3>2, <4>3 DEF Rejected
    <3>4. [rev |-> current[t].rev, content |-> current[t].content] = HeadHash(t)
      BY <1>4, <3>3, NoneDistinct DEF RowHash
    <3>5. QED BY <1>3, <2>1, <3>2, <3>4
  <2>5. QED BY <2>3, <2>4
<1>8. ASSUME NEW t \in Targets PROVE HeadHash(t)' = HeadHash(t)
  BY <1>1 DEF HeadHash
<1>9. MemoryIsDurableTruth'
  BY <1>1, <1>3, <1>7, <1>8 DEF MemoryIsDurableTruth, Available, Truth
<1>10. ASSUME NEW t \in Targets
       PROVE IF quarantines'[t] = None THEN StoreAdmits(t, shows[t].rev, None)'
             ELSE StoreAdmits(t, quarantines[t].rev, quarantines[t].rejected)'
  <2>1. HeadHash(t).rev = TargetHead(history', t).rev
    BY <1>1 DEF HeadHash
  <2>2. CASE quarantines'[t] = None
    <3>1. /\ quarantine'[t] = None /\ shows'[t] = HeadHash(t)
          /\ heads'[t].rev = shows'[t].rev /\ current'[t] = current[t]
      BY <1>1, <1>3, <1>7, <2>1, <2>2
    <3>2. IF current[t] = None THEN HeadHash(t).rev = 0
          ELSE current[t].rev = HeadHash(t).rev
      BY <1>7, <3>1
    <3>3. QED BY <2>2, <3>1, <3>2 DEF StoreAdmits
  <2>3. CASE quarantines'[t] # None
    BY <1>3, <1>5, <2>3 DEF StoreAdmits
  <2>4. QED BY <2>2, <2>3
<1>11. UsableCanCommit'
  <2>1. globalSequence' = Len(history') /\ commandSequence' = Len(commands')
    BY <1>1 DEF MountPersistence
  <2>2. QED BY <1>3, <1>10, <2>1 DEF UsableCanCommit, Available
<1>12. QED BY <1>2, <1>6, <1>9, <1>11
-----------------------------------------------------------------------------
\* The empty file and the process before its first mount satisfy the invariant.
LEMMA InitAuthority ==
  ASSUME Init PROVE AuthorityInv
<1>1. TypeOK
  <2>1. EmptySnapshot \in Snapshots /\ EmptyContent \in Contents
    BY DEF EmptySnapshot, EmptyContent, Snapshots, Contents
  <2>2. FileTypes
    BY DEF Init, FileTypes
  <2>3. ProcessTypes
    BY <2>1 DEF Init, ProcessTypes
  <2>4. OperationTypes
    BY DEF Init, OperationTypes, NoOperations
  <2>5. QED BY <2>2, <2>3, <2>4 DEF TypeOK
<1>2. history = << >> /\ Len(history) = 0
  BY DEF Init
<1>3. HeadsExist
  BY <1>2 DEF HeadsExist, IsHead
<1>4. StartupNeverAborts
  BY <1>2 DEF Init, StartupNeverAborts, LoadAccepts, VerifyHistory
<1>5. MemoryIsDurableTruth /\ UsableCanCommit
  BY DEF Init, MemoryIsDurableTruth, UsableCanCommit, Usable
<1>6. QED BY <1>1, <1>3, <1>4, <1>5 DEF AuthorityInv

\* Every operation of an operator or of the panel keeps the invariant.
LEMMA OperatorKeepsAuthority ==
  ASSUME AuthorityInv, OperatorStep PROVE AuthorityInv'
<1> USE DEF Idle
<1>0. TypeOK /\ Revisions \subseteq Nat
  BY ModelBounds DEF AuthorityInv, Revisions
<1>1. ASSUME NEW s \in Shows, NEW outcome \in Outcomes, NEW scene \in Scenes,
             NEW v \in Values, LoadPreview(s, scene, v, outcome)
      PROVE AuthorityInv'
  <2> DEFINE t == <<s, "preview">>
             snap == [rev |-> shows[t].rev + 1,
                      content |-> [scene |-> scene, hidden |-> {}, vars |-> v]]
  <2>1. t \in Targets /\ "preview.load" \in Kinds /\ None \in OpIds
    BY DEF Targets, Buses, Kinds, OpIds
  <2>2. snap \in Snapshots
    BY <1>0, <2>1 DEF Snapshots, Contents, TypeOK, ProcessTypes
  <2>3. Usable /\ Mutate(t, snap, "preview.load", None, outcome)
    BY <1>1 DEF LoadPreview
  <2>4. TypeOK'
    BY <1>0, <1>1, LoadPreviewType
  <2> HIDE DEF snap, t
  <2>5. QED BY <2>1, <2>2, <2>3, <2>4, CommitKeepsSafety DEF Mutate, AuthorityInv
<1>2. ASSUME NEW s \in Shows, NEW outcome \in Outcomes, NEW op \in Ops,
             NEW expected \in Revisions, Take(s, expected, op, outcome)
      PROVE AuthorityInv'
  <2> DEFINE preview == <<s, "preview">>
             program == <<s, "program">>
             snap == [rev |-> shows[program].rev + 1,
                      content |-> shows[preview].content]
  <2>1. /\ preview \in Targets /\ program \in Targets
        /\ "program.take" \in Kinds /\ op \in OpIds
    BY DEF Targets, Buses, Kinds, OpIds
  <2>2. snap \in Snapshots
    BY <1>0, <2>1 DEF Snapshots, TypeOK, ProcessTypes
  <2>3. Usable /\ Mutate(program, snap, "program.take", op, outcome)
    BY <1>2 DEF Take
  <2>4. TypeOK'
    BY <1>0, <1>2, TakeType
  <2> HIDE DEF snap, program
  <2>5. QED BY <2>1, <2>2, <2>3, <2>4, CommitKeepsSafety DEF Mutate, AuthorityInv
<1>3. ASSUME NEW s \in Shows, NEW outcome \in Outcomes, NEW op \in Ops,
             NEW expected \in Revisions, NEW v \in Values,
             ApplyPreviewControls(s, expected, op, v, outcome)
      PROVE AuthorityInv'
  <2> DEFINE t == <<s, "preview">>
             snap == [rev |-> shows[t].rev + 1,
                      content |-> [shows[t].content EXCEPT !.vars = v]]
  <2>1. t \in Targets /\ "preview.controls" \in Kinds /\ op \in OpIds
    BY DEF Targets, Buses, Kinds, OpIds
  <2>2. snap \in Snapshots
    <3>1. shows[t].rev + 1 \in Nat /\ shows[t].content \in Contents
      BY <1>0, <2>1 DEF TypeOK, ProcessTypes, Snapshots
    <3>2. [shows[t].content EXCEPT !.vars = v] \in Contents
      BY <3>1 DEF Contents
    <3>3. QED BY <3>1, <3>2 DEF Snapshots
  <2>3. Usable /\ Mutate(t, snap, "preview.controls", op, outcome)
    BY <1>3 DEF ApplyPreviewControls
  <2>4. TypeOK'
    BY <1>0, <1>3, ApplyPreviewControlsType
  <2> HIDE DEF snap, t
  <2>5. QED BY <2>1, <2>2, <2>3, <2>4, CommitKeepsSafety DEF Mutate, AuthorityInv
<1>4. ASSUME NEW s \in Shows, NEW outcome \in Outcomes, NEW bus \in Buses,
             NEW c \in Components, NEW visible \in BOOLEAN,
             NEW op \in ClientVisibilityOps, NEW expected \in Revisions,
             ExecuteVisibilityIntent(<<s, bus>>, c, visible, expected, op, outcome)
      PROVE AuthorityInv'
  <2> DEFINE t == <<s, bus>>
  <2>1. t \in Targets /\ "component.visibility" \in Kinds /\ op \in OpIds
    BY DEF Targets, Kinds, OpIds, ClientVisibilityOps, StepOp
  <2>2. Usable /\ ApplyVisibility(t, c, visible, op, "component.visibility",
                                  outcome, None, PublicState(t[1], shows'))
    BY <1>4 DEF ExecuteVisibilityIntent
  <2>3. TypeOK'
    BY <1>0, <1>4, <2>1, VisibilityIntentType
  <2> HIDE DEF t
  <2>4. QED BY <2>1, <2>2, <2>3, VisibilityKeepsSafety DEF AuthorityInv
<1>5. ASSUME NEW s \in Shows, NEW outcome \in Outcomes, NEW bus \in Buses,
             NEW scene \in Scenes, NEW v \in Values, NEW op \in Ops,
             NEW mode \in RecoveryKinds,
             RecoverTarget(<<s, bus>>, mode, scene, v, op, outcome)
      PROVE AuthorityInv'
  <2> DEFINE t == <<s, bus>>
             q == quarantines[t]
             content == IF mode = "quarantine.reset" THEN EmptyContent
                        ELSE [scene |-> scene, hidden |-> {}, vars |-> v]
             snap == [rev |-> q.rev + 1, content |-> content]
  <2>1. t \in Targets
    BY DEF Targets
  <2>2. q \in Quarantines
    BY <1>0, <1>5, <2>1 DEF RecoverTarget, TypeOK, ProcessTypes
  <2>3. snap \in Snapshots
    BY <2>2 DEF Quarantines, Snapshots, Contents, EmptyContent
  <2>4. q.rejected \in Hashes \cup {None} /\ mode \in Kinds /\ op \in OpIds
    BY <2>2 DEF Quarantines, RecoveryKinds, Kinds, OpIds
  <2>5. /\ Usable
        /\ CommitSnapshot(t, snap, mode, op, q.rev, q.rejected, outcome)
        /\ PublishCommittedSnapshot(t, snap, outcome, None, None)
    BY <1>5 DEF RecoverTarget
  <2>6. TypeOK'
    BY <1>0, <1>5, <2>1, RecoverTargetType
  <2> HIDE DEF snap, q, t
  <2>7. QED BY <2>1, <2>3, <2>4, <2>5, <2>6, CommitKeepsSafety DEF AuthorityInv
<1>6. QED BY <1>1, <1>2, <1>3, <1>4, <1>5 DEF OperatorStep

\* A cue's call keeps the invariant, at its start, at every step it commits
\* and at its receipt.
LEMMA CueKeepsAuthority ==
  ASSUME AuthorityInv, CueCall PROVE AuthorityInv'
<1>0. TypeOK'
  BY CueType DEF AuthorityInv
<1>1. ASSUME NEW t \in Targets, NEW steps \in Cues, NEW op \in Ops,
             NEW expected \in Revisions, ExecuteCue(t, steps, expected, op)
      PROVE AuthorityInv'
  <2>1. /\ UNCHANGED <<history, current, quarantine, commands>>
        /\ UNCHANGED <<phase, heads, globalSequence, shows, quarantines,
                       commandSequence>>
    BY <1>1 DEF ExecuteCue, durable
  <2>2. Usable' => /\ Usable
                   /\ UNCHANGED <<heads, globalSequence, shows, quarantines>>
                   /\ commandSequence' = Len(commands')
    BY <2>1 DEF AuthorityInv, UsableCanCommit, Usable
  <2>3. QED BY <1>0, <2>1, <2>2, OtherStepsKeepSafety DEF AuthorityInv
<1>2. ASSUME NEW outcome \in Outcomes, CueStep(outcome)
      PROVE AuthorityInv'
  <2> DEFINE next == [cue EXCEPT !.completed = @ + 1]
  <2>1. /\ cue \in CueRuns /\ cue.target \in Targets /\ cue.op \in Ops
        /\ cue.completed \in Nat /\ cue.steps \in Cues
        /\ cue.completed < Len(cue.steps)
    BY <1>2 DEF CueStep, AuthorityInv, TypeOK, ProcessTypes, CueRuns
  <2>2. NextStep.component \in Components /\ NextStep.visible \in BOOLEAN
    <3>1. cue.steps \in Seq([component : Components, visible : BOOLEAN])
      BY <2>1, CueShape
    <3>2. cue.completed + 1 \in 1..Len(cue.steps)
      BY <2>1, <3>1
    <3>3. cue.steps[cue.completed + 1] \in
            [component : Components, visible : BOOLEAN]
      BY <3>1, <3>2, SeqElement
    <3>4. QED BY <3>3 DEF NextStep
  <2>3. CueStepOp \in OpIds /\ "cue.step" \in Kinds
    BY <2>1 DEF CueStepOp, StepOp, OpIds, Kinds
  <2>4. /\ Usable
        /\ ApplyVisibility(cue.target, NextStep.component, NextStep.visible,
                           CueStepOp, "cue.step", outcome, next, None)
    BY <1>2 DEF CueStep
  <2> HIDE DEF next
  <2>5. QED BY <1>0, <2>1, <2>2, <2>3, <2>4, VisibilityKeepsSafety DEF AuthorityInv
<1>3. ASSUME CueFinish
      PROVE AuthorityInv'
  <2>1. /\ UNCHANGED <<history, current, quarantine, commands>>
        /\ UNCHANGED <<phase, heads, globalSequence, shows, quarantines,
                       commandSequence>>
    BY <1>3 DEF CueFinish, durable
  <2>2. Usable' => /\ Usable
                   /\ UNCHANGED <<heads, globalSequence, shows, quarantines>>
                   /\ commandSequence' = Len(commands')
    BY <2>1 DEF AuthorityInv, UsableCanCommit, Usable
  <2>3. QED BY <1>0, <2>1, <2>2, OtherStepsKeepSafety DEF AuthorityInv
<1>4. QED BY <1>1, <1>2, <1>3 DEF CueCall

\* A journalled refusal leaves the snapshot rows alone; an applied command
\* is a commit whose journal record is part of the same transaction.
LEMMA DeviceKeepsAuthority ==
  ASSUME AuthorityInv, DeviceStep PROVE AuthorityInv'
<1>0. TypeOK' /\ TypeOK
  BY DeviceType DEF AuthorityInv
<1>1. ASSUME NEW p \in Creds, NEW op \in Ops, NEW generation \in 1..MaxGeneration,
             NEW outcome \in Outcomes, NEW intent \in DeviceIntents,
             RejectDeviceCommand(p, generation, op, intent, outcome)
      PROVE AuthorityInv'
  <2>1. /\ UNCHANGED <<history, current, quarantine>>
        /\ UNCHANGED <<heads, globalSequence, shows, quarantines>>
        /\ Usable
    BY <1>1 DEF RejectDeviceCommand, CommandAdmitted, Idle
  <2>2. commandSequence = Len(commands) /\ commands \in Seq(Commands)
    BY <1>0, <2>1 DEF AuthorityInv, UsableCanCommit, TypeOK, FileTypes
  <2>3. Usable' => commandSequence' = Len(commands')
    <3>1. SUFFICES ASSUME Usable' PROVE commandSequence' = Len(commands')
      OBVIOUS
    <3>2. outcome = "committed"
      BY <1>1, <3>1 DEF RejectDeviceCommand, Usable
    <3>3. /\ commandSequence' = commandSequence + 1
          /\ \E c : commands' = Append(commands, c)
      BY <1>1, <3>2 DEF RejectDeviceCommand, JournalCommand
    <3>4. QED BY <2>2, <3>3
  <2>4. QED BY <1>0, <2>1, <2>3, OtherStepsKeepSafety DEF AuthorityInv
<1>2. ASSUME NEW p \in Creds, NEW op \in Ops, NEW generation \in 1..MaxGeneration,
             NEW outcome \in Outcomes, NEW intent \in DeviceIntents,
             ApplyDeviceCommand(p, generation, op, intent, outcome)
      PROVE AuthorityInv'
  <2> DEFINE t == intent.target
             row == current[t]
             snap == [rev |-> row.rev + 1,
                      content |-> WithVisibility(row.content,
                                    intent.component, intent.visible)]
  <2>1. t \in Targets /\ intent.component \in Components
    BY DeviceIntentShape DEF Targets, Buses
  <2>2. row \in Rows /\ row.rev \in Nat /\ row.content \in Contents
    BY <1>0, <1>2, <2>1 DEF ApplyDeviceCommand, CommandAdmitted, TypeOK, FileTypes, Rows
  <2>3. snap \in Snapshots /\ snap.rev = row.rev + 1
    BY <2>1, <2>2, VisibilityType DEF Snapshots
  <2>4. Usable /\ quarantines[t] = None /\ quarantines' = quarantines
    BY <1>2 DEF ApplyDeviceCommand, CommandAdmitted, Idle, Available
  <2>5. quarantines' = [quarantines EXCEPT ![t] = None]
    BY <1>0, <2>1, <2>4 DEF TypeOK, ProcessTypes
  <2>6. "component.visibility" \in Kinds /\ DeviceOp(op) \in OpIds
    BY DEF Kinds, OpIds, DeviceOp
  <2>7. PublishCommittedSnapshot(t, snap, outcome, None, PublicState(t[1], shows'))
    BY <1>2 DEF ApplyDeviceCommand
  <2>8. CASE outcome = "refused"
    <3>1. UNCHANGED <<history, current, quarantine>> /\ phase' = "failed"
      BY <1>2, <2>7, <2>8 DEF ApplyDeviceCommand, PublishCommittedSnapshot
    <3>2. ~Usable'
      BY <3>1 DEF Usable
    <3>3. QED BY <1>0, <3>1, <3>2, OtherStepsKeepSafety DEF AuthorityInv
  <2>9. CASE outcome # "refused"
    <3>1. /\ AppendRows(t, snap, "component.visibility", DeviceOp(op), None)
          /\ StoredSnapshot(t)
          /\ JournalCommand(p, generation, op, intent, "applied", row.rev, snap)
      BY <1>2, <2>9 DEF ApplyDeviceCommand
    <3>2. snap.rev = heads[t].rev + 1
      BY <2>3, <3>1 DEF StoredSnapshot
    <3>3. HeadsExist' /\ StartupNeverAborts'
      <4> HIDE DEF snap, t
      <4> QED BY <2>1, <2>3, <2>4, <2>6, <3>1, <3>2, AppendRowsKeepsFile
    <3>4. CASE outcome = "committed"
      <4>1. AdoptCommit(t, snap) /\ commandSequence' = commandSequence + 1
        BY <1>2, <3>4 DEF ApplyDeviceCommand, Adopted
      <4>2. commandSequence' = Len(commands')
        <5>1. commandSequence = Len(commands) /\ commands \in Seq(Commands)
          BY <1>0, <2>4 DEF AuthorityInv, UsableCanCommit, TypeOK, FileTypes
        <5>2. \E c : commands' = Append(commands, c)
          BY <3>1 DEF JournalCommand
        <5>3. QED BY <4>1, <5>1, <5>2
      <4>3. MemoryIsDurableTruth' /\ UsableCanCommit'
        <5> HIDE DEF snap, t
        <5> QED BY <2>1, <2>3, <2>4, <2>5, <2>6, <3>1, <3>2, <4>1, <4>2,
                   CommitKeepsMemory
      <4>4. QED BY <1>0, <3>3, <4>3 DEF AuthorityInv
    <3>5. CASE outcome # "committed"
      <4>1. phase' = "failed"
        BY <2>7, <3>5 DEF PublishCommittedSnapshot
      <4>2. QED BY <1>0, <3>3, <4>1 DEF AuthorityInv, MemoryIsDurableTruth,
                                       UsableCanCommit, Usable
    <3>6. QED BY <3>4, <3>5
  <2>10. QED BY <2>8, <2>9
<1>3. ASSUME NEW p \in Creds, RotateCredential(p) \/ RevokeCredential(p)
      PROVE AuthorityInv'
  <2>1. /\ UNCHANGED <<history, current, quarantine, commands>>
        /\ UNCHANGED <<phase, heads, globalSequence, shows, quarantines,
                       commandSequence>>
    BY <1>3 DEF RotateCredential, RevokeCredential, volatile
  <2>2. Usable' => /\ Usable
                   /\ UNCHANGED <<heads, globalSequence, shows, quarantines>>
                   /\ commandSequence' = Len(commands')
    BY <2>1 DEF AuthorityInv, UsableCanCommit, Usable
  <2>3. QED BY <1>0, <2>1, <2>2, OtherStepsKeepSafety DEF AuthorityInv
<1>4. QED BY <1>1, <1>2, <1>3 DEF DeviceStep

\* Death, mount, a mount cut short, and damage to rows while down.
LEMMA LifetimeKeepsAuthority ==
  ASSUME AuthorityInv, Lifetime \/ SnapshotDamage \/ JournalDamage
  PROVE  AuthorityInv'
<1>0. TypeOK' /\ TypeOK
  <2>1. \A t \in Targets : \E i : IsHead(history, t, i)
    BY DEF AuthorityInv, HeadsExist
  <2>2. QED BY <2>1, LifetimeType DEF AuthorityInv
<1>1. CASE Crash
  <2>1. UNCHANGED <<history, current, quarantine>> /\ ~Usable'
    BY <1>1 DEF Crash, ForgetProcess, durable, Usable
  <2>2. QED BY <1>0, <2>1, OtherStepsKeepSafety DEF AuthorityInv
<1>2. CASE MountPersistence
  BY <1>0, <1>2, MountKeepsSafety DEF AuthorityInv
<1>3. CASE MountInterrupted
  <2>1. UNCHANGED <<history, current>> /\ ~Usable' /\ LoadAccepts
    BY <1>3 DEF MountInterrupted, volatile, Usable
  <2>2. HeadsExist'
    BY <2>1 DEF AuthorityInv, HeadsExist
  <2>3. ASSUME NEW t \in Targets
        PROVE quarantine'[t] # None =>
                quarantine'[t].rev = TargetHead(history', t).rev
    <3>1. quarantine'[t] \in {quarantine[t], MountQuarantine(t)}
      BY <1>3 DEF MountInterrupted
    <3>2. quarantine[t] # None => quarantine[t].rev = TargetHead(history, t).rev
      BY <2>1 DEF LoadAccepts
    <3>3. MountQuarantine(t) # None =>
            MountQuarantine(t).rev = TargetHead(history, t).rev
      BY <3>2 DEF MountQuarantine
    <3>4. QED BY <2>1, <3>1, <3>2, <3>3
  <2>4. StartupNeverAborts'
    BY <2>1, <2>3 DEF StartupNeverAborts, LoadAccepts
  <2>5. QED BY <1>0, <2>1, <2>2, <2>4 DEF AuthorityInv, MemoryIsDurableTruth,
                                         UsableCanCommit
<1>4. ASSUME NEW t \in Targets, DamageRow(t) PROVE AuthorityInv'
  <2>1. UNCHANGED <<history, quarantine>> /\ ~Usable' /\ current[t] # None
    BY <1>4 DEF DamageRow, volatile, Usable
  <2>2. HeadsExist'
    BY <2>1 DEF AuthorityInv, HeadsExist
  <2>3. ASSUME NEW u \in Targets, current'[u] # None
        PROVE current[u] # None
    BY <1>0, <1>4, <2>1, <2>3 DEF DamageRow, TypeOK, FileTypes
  <2>4. StartupNeverAborts'
    BY <2>1, <2>3 DEF AuthorityInv, StartupNeverAborts, LoadAccepts
  <2>5. QED BY <1>0, <2>1, <2>2, <2>4 DEF AuthorityInv, MemoryIsDurableTruth,
                                         UsableCanCommit
<1>5. ASSUME NEW i \in 1..Len(commands), DamageCommand(i) PROVE AuthorityInv'
  <2>1. UNCHANGED <<history, current, quarantine>> /\ ~Usable'
    BY <1>5 DEF DamageCommand, volatile, Usable
  <2>2. QED BY <1>0, <2>1, OtherStepsKeepSafety DEF AuthorityInv
<1>6. QED
  BY <1>1, <1>2, <1>3, <1>4, <1>5 DEF Lifetime, SnapshotDamage, JournalDamage

\* A step that changes nothing.
LEMMA StutterKeepsAuthority ==
  ASSUME AuthorityInv, UNCHANGED vars PROVE AuthorityInv'
<1>1. /\ UNCHANGED <<history, current, quarantine, commands, brokenCommands,
                     commandQuarantine, credential>>
      /\ UNCHANGED <<phase, heads, globalSequence, commandSequence, shows,
                     quarantines, cue, published, answer>>
      /\ UNCHANGED <<takeOperations, controlOperations, visibilityOperations,
                     cueOperations>>
  BY DEF vars, durable, volatile, operations
<1>2. TypeOK'
  BY <1>1 DEF AuthorityInv, TypeOK, FileTypes, ProcessTypes, OperationTypes
<1>3. Usable' => /\ Usable
                 /\ UNCHANGED <<heads, globalSequence, shows, quarantines>>
                 /\ commandSequence' = Len(commands')
  BY <1>1 DEF AuthorityInv, UsableCanCommit, Usable
<1>4. QED BY <1>1, <1>2, <1>3, OtherStepsKeepSafety DEF AuthorityInv
-----------------------------------------------------------------------------
(***************************************************************************)
(* In every behaviour of the service over its store, with any number of    *)
(* Shows, operations, devices and restarts, the inductive invariant holds. *)
(***************************************************************************)
THEOREM AuthorityInvariant == Spec => []AuthorityInv
<1>1. AuthorityInv /\ [Next]_vars => AuthorityInv'
  <2>1. SUFFICES ASSUME AuthorityInv, [Next]_vars PROVE AuthorityInv'
    OBVIOUS
  <2>2. QED
    BY <2>1, OperatorKeepsAuthority, CueKeepsAuthority, DeviceKeepsAuthority,
       LifetimeKeepsAuthority, StutterKeepsAuthority DEF Next
<1>2. QED BY <1>1, InitAuthority, PTL DEF Spec

\* The SQLite tables and the maps of ProductionService keep their declared
\* shapes through every operation, uncertain commit, death and mount.
THEOREM TypeCorrect == Spec => []TypeOK
<1>1. AuthorityInv => TypeOK
  BY DEF AuthorityInv
<1>2. QED BY <1>1, AuthorityInvariant, PTL

\* Wherever the process died and whichever current rows were damaged, the
\* next load() accepts the file: it never aborts the start.
THEOREM StartSucceeds == Spec => []StartupNeverAborts
<1>1. AuthorityInv => StartupNeverAborts
  BY DEF AuthorityInv
<1>2. QED BY <1>1, AuthorityInvariant, PTL

\* While ProductionService is usable, what it answers from memory for an
\* available target is what history's latest record of that target says.
THEOREM MemoryIsTruth == Spec => []MemoryIsDurableTruth
<1>1. AuthorityInv => MemoryIsDurableTruth
  BY DEF AuthorityInv
<1>2. QED BY <1>1, AuthorityInvariant, PTL

\* The store never refuses the next revision of a usable authority, nor the
\* recovery of a quarantined target.
THEOREM NextCommitIsAdmitted == Spec => []UsableCanCommit
<1>1. AuthorityInv => UsableCanCommit
  BY DEF AuthorityInv
<1>2. QED BY <1>1, AuthorityInvariant, PTL

(***************************************************************************)
(* The steps of the file.                                                  *)
(***************************************************************************)

\* A commit of an operator, a cue or a recovery that became durable.
OperatorCommit(t, snap, kind, op, rejected) ==
  /\ Usable
  /\ AppendRows(t, snap, kind, op, rejected)
  /\ snap.rev = heads[t].rev + 1
  /\ rejected = IF quarantine[t] = None THEN None ELSE quarantine[t].rejected
  /\ quarantine[t] # None => kind \in RecoveryKinds
  /\ \A o \in Ops : op # DeviceOp(o)
  /\ UNCHANGED <<commands, brokenCommands, commandQuarantine, credential>>

OperatorCommits ==
  \E t \in Targets, snap \in Snapshots, kind \in Kinds, op \in OpIds,
     rejected \in Hashes \cup {None} :
    OperatorCommit(t, snap, kind, op, rejected)

\* What an applied command makes of its target.
CommandSnapshot(intent) ==
  [rev |-> current[intent.target].rev + 1,
   content |-> WithVisibility(current[intent.target].content,
                              intent.component, intent.visible)]

\* A device command that became durable as applied or as rejected.
DeviceDecision(p, generation, op, intent) ==
  LET t == intent.target IN
  /\ CommandAdmitted(p, generation, op, t)
  /\ StoredSnapshot(t)
  /\ IF current[t].rev = intent.expected
     THEN /\ AppendRows(t, CommandSnapshot(intent), "component.visibility",
                        DeviceOp(op), None)
          /\ JournalCommand(p, generation, op, intent, "applied",
                            current[t].rev, CommandSnapshot(intent))
     ELSE /\ UNCHANGED <<history, current, quarantine>>
          /\ JournalCommand(p, generation, op, intent, "rejected",
                            current[t].rev, current[t])
  /\ UNCHANGED <<brokenCommands, commandQuarantine, credential>>

DeviceDecides ==
  \E p \in Creds, generation \in 1..MaxGeneration, op \in Ops,
     intent \in DeviceIntents : DeviceDecision(p, generation, op, intent)

\* Nothing is appended, and a quarantine once persisted stands.
AppendsNothing ==
  /\ UNCHANGED <<history, commands>>
  /\ \A t \in Targets : quarantine[t] # None => quarantine'[t] = quarantine[t]
  /\ brokenCommands \subseteq brokenCommands'
  /\ brokenCommands' \subseteq brokenCommands \cup 1..Len(commands)
  /\ \A p \in Creds : credential'[p].generation >= credential[p].generation
  /\ commandQuarantine' \in {commandQuarantine, VerifyCommandJournal}

\* A commit that answers an operator appends one record or nothing.
LEMMA CommitShape ==
  ASSUME AuthorityInv, Usable,
         NEW t \in Targets, NEW snap \in Snapshots, NEW kind \in Kinds,
         NEW op \in OpIds, NEW expected, NEW rejected \in Hashes \cup {None},
         NEW outcome,
         rejected # None => kind \in RecoveryKinds,
         \A o \in Ops : op # DeviceOp(o),
         CommitSnapshot(t, snap, kind, op, expected, rejected, outcome)
  PROVE  OperatorCommits \/ AppendsNothing
<1>1. /\ credential \in [Creds -> [generation : Nat, revoked : BOOLEAN]]
      /\ quarantine \in [Targets -> Quarantines \cup {None}]
  BY DEF AuthorityInv, TypeOK, FileTypes
<1>2. UNCHANGED <<commands, brokenCommands, commandQuarantine, credential>>
  BY DEF CommitSnapshot
<1>3. CASE outcome = "refused"
  BY <1>1, <1>2, <1>3 DEF CommitSnapshot, AppendsNothing
<1>4. CASE outcome # "refused"
  <2>1. /\ AppendRows(t, snap, kind, op, rejected)
        /\ snap.rev = heads[t].rev + 1
        /\ rejected = IF quarantine[t] = None THEN None
                      ELSE quarantine[t].rejected
    BY <1>4 DEF CommitSnapshot, StoreAdmits
  <2>2. quarantine[t] # None => quarantine[t].rejected # None
    BY <1>1, NoneDistinct DEF Quarantines
  <2>3. OperatorCommit(t, snap, kind, op, rejected)
    BY <1>1, <1>2, <2>1, <2>2 DEF OperatorCommit
  <2>4. QED BY <2>3 DEF OperatorCommits
<1>5. QED BY <1>3, <1>4

\* The identifiers of operators and cue steps are no device's.
LEMMA OperatorOps ==
  /\ \A op \in Ops : op \in OpIds /\ \A o \in Ops : op # DeviceOp(o)
  /\ \A op \in Ops, i \in Nat :
       StepOp(op, i) \in OpIds /\ \A o \in Ops : StepOp(op, i) # DeviceOp(o)
  /\ None \in OpIds /\ \A o \in Ops : None # DeviceOp(o)
<1>1. \A op \in Ops, i \in Nat : StepOp(op, i) \in Ops \X Nat
  BY DEF StepOp
<1>2. QED BY <1>1, DeviceOpsDistinct DEF OpIds

\* Calls of operators and cues append a record of their target or nothing.
LEMMA OperatorSteps ==
  ASSUME AuthorityInv, OperatorStep \/ CueCall
  PROVE  OperatorCommits \/ AppendsNothing
<1>0. TypeOK /\ \A p \in Creds : credential[p].generation \in Nat
  BY DEF AuthorityInv, TypeOK, FileTypes
<1>1. ASSUME NEW s \in Shows, NEW outcome \in Outcomes, NEW scene \in Scenes,
             NEW v \in Values, LoadPreview(s, scene, v, outcome)
      PROVE OperatorCommits \/ AppendsNothing
  <2> DEFINE t == <<s, "preview">>
             snap == [rev |-> shows[t].rev + 1,
                      content |-> [scene |-> scene, hidden |-> {}, vars |-> v]]
  <2>1. t \in Targets
    BY DEF Targets, Buses
  <2>2. snap \in Snapshots
    BY <1>0, <2>1 DEF Snapshots, Contents, TypeOK, ProcessTypes
  <2>3. /\ Usable
        /\ CommitSnapshot(t, snap, "preview.load", None, shows[t].rev, None, outcome)
    BY <1>1 DEF LoadPreview, Mutate, Idle
  <2>4. "preview.load" \in Kinds
    BY DEF Kinds
  <2> HIDE DEF t, snap
  <2>5. QED BY <2>1, <2>2, <2>3, <2>4, OperatorOps, CommitShape
<1>2. ASSUME NEW s \in Shows, NEW outcome \in Outcomes, NEW op \in Ops,
             NEW expected \in Revisions, Take(s, expected, op, outcome)
      PROVE OperatorCommits \/ AppendsNothing
  <2> DEFINE t == <<s, "program">>
             snap == [rev |-> shows[t].rev + 1,
                      content |-> shows[<<s, "preview">>].content]
  <2>1. t \in Targets /\ <<s, "preview">> \in Targets
    BY DEF Targets, Buses
  <2>2. snap \in Snapshots
    BY <1>0, <2>1 DEF Snapshots, TypeOK, ProcessTypes
  <2>3. /\ Usable
        /\ CommitSnapshot(t, snap, "program.take", op, shows[t].rev, None, outcome)
    BY <1>2 DEF Take, Mutate, Idle
  <2>4. "program.take" \in Kinds
    BY DEF Kinds
  <2> HIDE DEF t, snap
  <2>5. QED BY <2>1, <2>2, <2>3, <2>4, OperatorOps, CommitShape
<1>3. ASSUME NEW s \in Shows, NEW outcome \in Outcomes, NEW op \in Ops,
             NEW expected \in Revisions, NEW v \in Values,
             ApplyPreviewControls(s, expected, op, v, outcome)
      PROVE OperatorCommits \/ AppendsNothing
  <2> DEFINE t == <<s, "preview">>
             snap == [rev |-> shows[t].rev + 1,
                      content |-> [shows[t].content EXCEPT !.vars = v]]
  <2>1. t \in Targets
    BY DEF Targets, Buses
  <2>2. snap \in Snapshots
    <3>1. shows[t] \in Snapshots
      BY <1>0, <2>1 DEF TypeOK, ProcessTypes
    <3>2. shows[t].rev + 1 \in Nat /\ shows[t].content \in Contents
      BY <3>1 DEF Snapshots
    <3>3. [shows[t].content EXCEPT !.vars = v] \in Contents
      BY <3>2 DEF Contents
    <3>4. QED BY <3>2, <3>3 DEF Snapshots
  <2>3. /\ Usable
        /\ CommitSnapshot(t, snap, "preview.controls", op, shows[t].rev, None, outcome)
    BY <1>3 DEF ApplyPreviewControls, Mutate, Idle
  <2>4. "preview.controls" \in Kinds
    BY DEF Kinds
  <2> HIDE DEF t, snap
  <2>5. QED BY <2>1, <2>2, <2>3, <2>4, OperatorOps, CommitShape
<1>4. ASSUME NEW t \in Targets, NEW c \in Components, NEW visible \in BOOLEAN,
             NEW op \in OpIds, NEW kind \in Kinds, NEW outcome, NEW nextCue,
             NEW reply, Usable, \A o \in Ops : op # DeviceOp(o),
             ApplyVisibility(t, c, visible, op, kind, outcome, nextCue, reply)
      PROVE OperatorCommits \/ AppendsNothing
  <2> DEFINE snap == [rev |-> shows[t].rev + 1,
                      content |-> WithVisibility(shows[t].content, c, visible)]
  <2>1. shows[t].rev \in Nat /\ shows[t].content \in Contents
    BY <1>0 DEF TypeOK, ProcessTypes, Snapshots
  <2>2. snap \in Snapshots
    BY <2>1, VisibilityType DEF Snapshots
  <2>3. CommitSnapshot(t, snap, kind, op, shows[t].rev, None, outcome)
    BY <1>4 DEF ApplyVisibility
  <2> HIDE DEF snap
  <2>4. QED BY <1>4, <2>2, <2>3, CommitShape
<1>5. ASSUME NEW s \in Shows, NEW outcome \in Outcomes, NEW bus \in Buses,
             NEW c \in Components, NEW visible \in BOOLEAN,
             NEW op \in ClientVisibilityOps, NEW expected \in Revisions,
             ExecuteVisibilityIntent(<<s, bus>>, c, visible, expected, op, outcome)
      PROVE OperatorCommits \/ AppendsNothing
  <2>1. <<s, bus>> \in Targets
    BY DEF Targets
  <2>2. op \in OpIds /\ \A o \in Ops : op # DeviceOp(o)
    BY OperatorOps DEF ClientVisibilityOps
  <2>3. /\ Usable
        /\ ApplyVisibility(<<s, bus>>, c, visible, op, "component.visibility",
                           outcome, None, PublicState(s, shows'))
    BY <1>5 DEF ExecuteVisibilityIntent, Idle
  <2>4. "component.visibility" \in Kinds
    BY DEF Kinds
  <2>5. QED BY <1>4, <2>1, <2>2, <2>3, <2>4
<1>6. ASSUME NEW s \in Shows, NEW outcome \in Outcomes, NEW bus \in Buses,
             NEW scene \in Scenes, NEW v \in Values, NEW op \in Ops,
             NEW mode \in RecoveryKinds,
             RecoverTarget(<<s, bus>>, mode, scene, v, op, outcome)
      PROVE OperatorCommits \/ AppendsNothing
  <2> DEFINE t == <<s, bus>>
             q == quarantines[t]
             content == IF mode = "quarantine.reset" THEN EmptyContent
                        ELSE [scene |-> scene, hidden |-> {}, vars |-> v]
             snap == [rev |-> q.rev + 1, content |-> content]
  <2>1. t \in Targets
    BY DEF Targets
  <2>2. q \in Quarantines
    BY <1>0, <1>6, <2>1 DEF RecoverTarget, TypeOK, ProcessTypes
  <2>3. snap \in Snapshots
    BY <2>2 DEF Quarantines, Snapshots, Contents, EmptyContent
  <2>4. q.rejected \in Hashes \cup {None} /\ mode \in Kinds
    BY <2>2 DEF Quarantines, RecoveryKinds, Kinds
  <2>5. /\ Usable /\ q # None
        /\ CommitSnapshot(t, snap, mode, op, q.rev, q.rejected, outcome)
    BY <1>6 DEF RecoverTarget, Idle
  <2> HIDE DEF snap, q, t
  <2>6. QED BY <2>1, <2>3, <2>4, <2>5, OperatorOps, CommitShape
<1>7. ASSUME NEW t \in Targets, NEW steps \in Cues, NEW op \in Ops,
             NEW expected \in Revisions, ExecuteCue(t, steps, expected, op)
      PROVE AppendsNothing
  BY <1>0, <1>7 DEF ExecuteCue, durable, AppendsNothing
<1>8. ASSUME CueFinish
      PROVE AppendsNothing
  BY <1>0, <1>8 DEF CueFinish, durable, AppendsNothing
<1>9. ASSUME NEW outcome \in Outcomes, CueStep(outcome)
      PROVE OperatorCommits \/ AppendsNothing
  <2> DEFINE next == [cue EXCEPT !.completed = @ + 1]
  <2>1. /\ cue \in CueRuns /\ cue.target \in Targets /\ cue.op \in Ops
        /\ cue.completed \in Nat /\ cue.steps \in Cues
        /\ cue.completed < Len(cue.steps)
    BY <1>0, <1>9 DEF CueStep, TypeOK, ProcessTypes, CueRuns
  <2>2. NextStep.component \in Components /\ NextStep.visible \in BOOLEAN
    <3>1. cue.steps \in Seq([component : Components, visible : BOOLEAN])
      BY <2>1, CueShape
    <3>2. cue.completed + 1 \in 1..Len(cue.steps)
      BY <2>1, <3>1
    <3>3. cue.steps[cue.completed + 1] \in
            [component : Components, visible : BOOLEAN]
      BY <3>1, <3>2, SeqElement
    <3>4. QED BY <3>3 DEF NextStep
  <2>3. /\ CueStepOp \in OpIds /\ "cue.step" \in Kinds
        /\ \A o \in Ops : CueStepOp # DeviceOp(o)
    BY <2>1, OperatorOps DEF CueStepOp, Kinds
  <2>4. /\ Usable
        /\ ApplyVisibility(cue.target, NextStep.component, NextStep.visible,
                           CueStepOp, "cue.step", outcome, next, None)
    BY <1>9 DEF CueStep
  <2> HIDE DEF next
  <2>5. QED BY <1>4, <2>1, <2>2, <2>3, <2>4
<1>10. QED
  BY <1>1, <1>2, <1>3, <1>5, <1>6, <1>7, <1>8, <1>9 DEF OperatorStep, CueCall

\* A device's command is decided, or nothing is appended; rotating or
\* revoking a credential never takes its generation back.
LEMMA DeviceSteps ==
  ASSUME AuthorityInv, DeviceStep PROVE DeviceDecides \/ AppendsNothing
<1>0. /\ TypeOK /\ \A p \in Creds : credential[p].generation \in Nat
      /\ credential \in [Creds -> [generation : Nat, revoked : BOOLEAN]]
  BY DEF AuthorityInv, TypeOK, FileTypes
<1>1. ASSUME NEW p \in Creds, NEW op \in Ops, NEW generation \in 1..MaxGeneration,
             NEW outcome \in Outcomes, NEW intent \in DeviceIntents,
             RejectDeviceCommand(p, generation, op, intent, outcome)
      PROVE DeviceDecides \/ AppendsNothing
  <2>1. /\ CommandAdmitted(p, generation, op, intent.target)
        /\ current[intent.target].rev # intent.expected
        /\ UNCHANGED <<history, current, quarantine, brokenCommands,
                       commandQuarantine, credential>>
    BY <1>1 DEF RejectDeviceCommand
  <2>2. CASE outcome = "refused"
    BY <1>0, <1>1, <2>1, <2>2 DEF RejectDeviceCommand, AppendsNothing
  <2>3. CASE outcome # "refused"
    <3>1. /\ StoredSnapshot(intent.target)
          /\ JournalCommand(p, generation, op, intent, "rejected",
                            current[intent.target].rev, current[intent.target])
      BY <1>1, <2>3 DEF RejectDeviceCommand
    <3>2. DeviceDecision(p, generation, op, intent)
      BY <2>1, <3>1 DEF DeviceDecision
    <3>3. QED BY <3>2 DEF DeviceDecides
  <2>4. QED BY <2>2, <2>3
<1>2. ASSUME NEW p \in Creds, NEW op \in Ops, NEW generation \in 1..MaxGeneration,
             NEW outcome \in Outcomes, NEW intent \in DeviceIntents,
             ApplyDeviceCommand(p, generation, op, intent, outcome)
      PROVE DeviceDecides \/ AppendsNothing
  <2>1. /\ CommandAdmitted(p, generation, op, intent.target)
        /\ current[intent.target].rev = intent.expected
        /\ UNCHANGED <<brokenCommands, commandQuarantine, credential>>
    BY <1>2 DEF ApplyDeviceCommand
  <2>2. CASE outcome = "refused"
    BY <1>0, <1>2, <2>1, <2>2 DEF ApplyDeviceCommand, AppendsNothing
  <2>3. CASE outcome # "refused"
    <3>1. /\ StoredSnapshot(intent.target)
          /\ AppendRows(intent.target, CommandSnapshot(intent),
                        "component.visibility", DeviceOp(op), None)
          /\ JournalCommand(p, generation, op, intent, "applied",
                            current[intent.target].rev, CommandSnapshot(intent))
      BY <1>2, <2>3 DEF ApplyDeviceCommand, CommandSnapshot
    <3>2. DeviceDecision(p, generation, op, intent)
      BY <2>1, <3>1 DEF DeviceDecision
    <3>3. QED BY <3>2 DEF DeviceDecides
  <2>4. QED BY <2>2, <2>3
<1>3. ASSUME NEW p \in Creds, RotateCredential(p) \/ RevokeCredential(p)
      PROVE AppendsNothing
  <2>1. UNCHANGED <<history, current, quarantine, commands, brokenCommands,
                    commandQuarantine>>
    BY <1>3 DEF RotateCredential, RevokeCredential
  <2>2. ASSUME NEW q \in Creds
        PROVE credential'[q].generation >= credential[q].generation
    BY <1>0, <1>3 DEF RotateCredential, RevokeCredential
  <2>3. QED BY <2>1, <2>2 DEF AppendsNothing
<1>4. QED BY <1>1, <1>2, <1>3 DEF DeviceStep

\* Deaths, mounts and damage append nothing.
LEMMA LifetimeSteps ==
  ASSUME AuthorityInv, Lifetime \/ SnapshotDamage \/ JournalDamage
  PROVE  AppendsNothing
<1>0. /\ \A p \in Creds : credential[p].generation \in Nat
      /\ UNCHANGED <<history, commands, credential>>
  BY DEF AuthorityInv, TypeOK, FileTypes, Lifetime, SnapshotDamage, JournalDamage,
         Crash, MountPersistence, MountInterrupted, DamageRow, DamageCommand, durable
<1>1. \A t \in Targets : quarantine[t] # None => quarantine'[t] = quarantine[t]
  BY DEF Lifetime, SnapshotDamage, JournalDamage, Crash, MountPersistence,
         MountInterrupted, DamageRow, DamageCommand, durable, MountQuarantine
<1>2. /\ brokenCommands \subseteq brokenCommands'
      /\ brokenCommands' \subseteq brokenCommands \cup 1..Len(commands)
      /\ commandQuarantine' \in {commandQuarantine, VerifyCommandJournal}
  BY DEF Lifetime, SnapshotDamage, JournalDamage, Crash, MountPersistence,
         MountInterrupted, DamageRow, DamageCommand, durable
<1>3. QED BY <1>0, <1>1, <1>2 DEF AppendsNothing

\* What any step of the service and its store can do to the file.
LEMMA FileSteps ==
  ASSUME AuthorityInv, [Next]_vars
  PROVE  OperatorCommits \/ DeviceDecides \/ AppendsNothing
<1>1. CASE UNCHANGED vars
  BY <1>1 DEF vars, durable, AppendsNothing, AuthorityInv, TypeOK, FileTypes
<1>2. QED BY <1>1, OperatorSteps, DeviceSteps, LifetimeSteps DEF Next
-----------------------------------------------------------------------------
(***************************************************************************)
(* The store implements the abstract journal.                              *)
(***************************************************************************)

\* The snapshot an applied command leaves is one, and its identifier one
\* history may carry.
LEMMA CommandSnapshotType ==
  ASSUME AuthorityInv, NEW intent \in DeviceIntents, NEW op \in Ops,
         current[intent.target] # None
  PROVE  /\ intent.target \in Targets /\ intent.target[1] \in Shows
         /\ CommandSnapshot(intent) \in Snapshots
         /\ CommandSnapshot(intent).rev = current[intent.target].rev + 1
         /\ current[intent.target].rev \in Nat
         /\ current[intent.target].content \in Contents
         /\ "component.visibility" \in Kinds /\ DeviceOp(op) \in OpIds
<1>1. intent.target \in Targets /\ intent.target[1] \in Shows
        /\ intent.component \in Components
  BY DeviceIntentShape DEF Targets, Buses
<1>2. current[intent.target] \in Rows
  BY <1>1 DEF AuthorityInv, TypeOK, FileTypes
<1>3. /\ current[intent.target].rev \in Nat
      /\ current[intent.target].content \in Contents
  BY <1>2 DEF Rows
<1>4. CommandSnapshot(intent) \in Snapshots
  BY <1>1, <1>3, VisibilityType DEF CommandSnapshot, Snapshots
<1>5. QED BY <1>1, <1>3, <1>4 DEF CommandSnapshot, Kinds, OpIds, DeviceOp

\* A device's command is decided against the head of its target.
LEMMA DecisionSeesHead ==
  ASSUME AuthorityInv, NEW p \in Creds, NEW generation, NEW op \in Ops,
         NEW intent \in DeviceIntents, DeviceDecision(p, generation, op, intent)
  PROVE  LET t == intent.target IN
         /\ Usable /\ current[t] # None /\ quarantine[t] = None
         /\ heads[t] = TargetHead(history, t)
         /\ current[t].rev = heads[t].rev /\ current[t].content = heads[t].content
<1>1. intent.target \in Targets
  BY DeviceIntentShape DEF Targets, Buses
<1>2. QED
  BY <1>1 DEF DeviceDecision, CommandAdmitted, StoredSnapshot, Idle, AuthorityInv,
              MemoryIsDurableTruth, UsableCanCommit, Available

\* A mutation moves its target to the next revision and no other.
LEMMA AppendAdvances ==
  ASSUME AuthorityInv, Usable, NEW t \in Targets, NEW snap \in Snapshots,
         NEW kind \in Kinds, NEW op \in OpIds,
         NEW rejected \in Hashes \cup {None},
         snap.rev = heads[t].rev + 1,
         AppendRows(t, snap, kind, op, rejected)
  PROVE  DurableRevision' = [DurableRevision EXCEPT ![t] = @ + 1]
<1>1. heads[t] = TargetHead(history, t)
  BY DEF AuthorityInv, UsableCanCommit
<1>2. TargetHead(history', t).rev = TargetHead(history, t).rev + 1
  BY <1>1, AppendRowsKeepsFile
<1>3. \A u \in Targets \ {t} :
        TargetHead(history', u).rev = TargetHead(history, u).rev
  BY AppendRowsKeepsFile
<1>4. QED BY <1>2, <1>3 DEF DurableRevision

\* What the abstract journal sees of a command record.
Decided(c) ==
  [key |-> <<c.principal, c.op>>, target |-> c.intent.target,
   expected |-> c.intent.expected, applied |-> c.status = "applied"]

\* A new command record adds its decision.
LEMMA DecisionsGrow ==
  ASSUME commands \in Seq(Commands), NEW c \in Commands,
         commands' = Append(commands, c)
  PROVE  Decisions' = Decisions \cup {Decided(c)}
<1>1. /\ Len(commands') = Len(commands) + 1 /\ Len(commands) \in Nat
      /\ commands'[Len(commands) + 1] = c
      /\ \A i \in 1..Len(commands) : commands'[i] = commands[i]
  OBVIOUS
<1>2. Decisions = {Decided(commands[i]) : i \in 1..Len(commands)}
  BY DEF Decisions, Decided
<1>3. Decisions' = {Decided(commands'[i]) : i \in 1..Len(commands')}
  BY DEF Decisions, Decided
<1>4. 1..Len(commands') = (1..Len(commands)) \cup {Len(commands) + 1}
  BY <1>1
<1> HIDE DEF Decided
<1>5. QED BY <1>1, <1>2, <1>3, <1>4

\* The record a decision appends to the command journal.
CommandRecord(p, generation, op, intent) ==
  IF current[intent.target].rev = intent.expected
  THEN [principal |-> p, op |-> op, intent |-> intent, generation |-> generation,
        status |-> "applied", previous |-> current[intent.target].rev,
        resulting |-> CommandSnapshot(intent).rev,
        content |-> CommandSnapshot(intent).content]
  ELSE [principal |-> p, op |-> op, intent |-> intent, generation |-> generation,
        status |-> "rejected", previous |-> current[intent.target].rev,
        resulting |-> current[intent.target].rev,
        content |-> current[intent.target].content]

\* A decision appends that record.
LEMMA DecisionAppends ==
  ASSUME AuthorityInv, NEW p \in Creds, NEW generation \in 1..MaxGeneration,
         NEW op \in Ops, NEW intent \in DeviceIntents,
         DeviceDecision(p, generation, op, intent)
  PROVE  LET c == CommandRecord(p, generation, op, intent) IN
         /\ c \in Commands /\ commands \in Seq(Commands)
         /\ commands' = Append(commands, c)
         /\ c.principal = p /\ c.op = op /\ c.intent = intent
         /\ c.generation = generation
         /\ c.status = "applied" <=> current[intent.target].rev = intent.expected
<1> DEFINE c == CommandRecord(p, generation, op, intent)
<1>1. current[intent.target] # None
  BY DecisionSeesHead
<1>2. intent \in Intents /\ generation \in Nat
  BY DeviceIntentShape, ModelBounds DEF Intents, Targets, Buses
<1>3. /\ CommandSnapshot(intent).rev \in Nat
      /\ CommandSnapshot(intent).content \in Contents
      /\ current[intent.target].rev \in Nat
      /\ current[intent.target].content \in Contents
  BY <1>1, CommandSnapshotType DEF Snapshots
<1>4. c \in Commands
  BY <1>2, <1>3 DEF CommandRecord, Commands
<1>5. commands' = Append(commands, c)
  BY DEF DeviceDecision, JournalCommand, CommandRecord
<1>6. commands \in Seq(Commands)
  BY DEF AuthorityInv, TypeOK, FileTypes
<1>7. QED BY <1>4, <1>5, <1>6 DEF CommandRecord

\* Every step of the service over its store, with its crashes, uncertain
\* commits, damaged rows and restarts, is a step of the abstract journal or
\* none.
LEMMA StepsOfTheJournal ==
  ASSUME AuthorityInv, [Next]_vars PROVE [Journal!Next]_(Journal!vars)
<1>1. ASSUME NEW t \in Targets, NEW snap \in Snapshots, NEW kind \in Kinds,
             NEW op \in OpIds, NEW rejected \in Hashes \cup {None},
             OperatorCommit(t, snap, kind, op, rejected)
      PROVE Journal!Next
  <2>1. DurableRevision' = [DurableRevision EXCEPT ![t] = @ + 1]
    BY <1>1, AppendAdvances DEF OperatorCommit
  <2>2. Decisions' = Decisions
    BY <1>1 DEF OperatorCommit, Decisions
  <2>3. QED BY <2>1, <2>2 DEF Journal!Next, Journal!Change, Journal!Advance
<1>2. ASSUME NEW p \in Creds, NEW generation \in 1..MaxGeneration, NEW op \in Ops,
             NEW intent \in DeviceIntents, DeviceDecision(p, generation, op, intent)
      PROVE Journal!Next
  <2> DEFINE t == intent.target
             c == CommandRecord(p, generation, op, intent)
             k == <<p, op>>
  <2>1. /\ c \in Commands /\ commands \in Seq(Commands)
        /\ commands' = Append(commands, c)
        /\ c.principal = p /\ c.op = op /\ c.intent = intent
        /\ c.status = "applied" <=> current[t].rev = intent.expected
    BY <1>2, DecisionAppends
  <2>2. /\ Usable /\ current[t] # None
        /\ heads[t] = TargetHead(history, t) /\ current[t].rev = heads[t].rev
    BY <1>2, DecisionSeesHead
  <2>3. t \in Targets /\ k \in Creds \X Ops /\ intent.expected \in NamedRevisions
    BY <2>2, CommandSnapshotType DEF NamedRevisions
  <2>4. Journal!Undecided(k)
    BY <1>2 DEF DeviceDecision, CommandAdmitted, Journalled, Journal!Undecided,
                Decisions
  <2>5. Decisions' = Decisions \cup {Decided(c)}
    <3> HIDE DEF c
    <3> QED BY <2>1, DecisionsGrow
  <2>6. Decided(c) = [key |-> k, target |-> t, expected |-> intent.expected,
                      applied |-> intent.expected = DurableRevision[t]]
    BY <2>1, <2>2, <2>3 DEF Decided, DurableRevision
  <2>7. ~Journal!Undecided(k)'
    BY <2>5, <2>6 DEF Journal!Undecided
  <2>8. IF intent.expected = DurableRevision[t]
        THEN Journal!Advance(t) ELSE UNCHANGED DurableRevision
    <3>1. CASE current[t].rev = intent.expected
      <4>1. /\ AppendRows(t, CommandSnapshot(intent), "component.visibility",
                          DeviceOp(op), None)
            /\ CommandSnapshot(intent) \in Snapshots
            /\ CommandSnapshot(intent).rev = heads[t].rev + 1
            /\ "component.visibility" \in Kinds /\ DeviceOp(op) \in OpIds
        BY <1>2, <2>2, <3>1, CommandSnapshotType DEF DeviceDecision
      <4>2. DurableRevision' = [DurableRevision EXCEPT ![t] = @ + 1]
        BY <2>2, <2>3, <4>1, AppendAdvances
      <4>3. QED BY <2>2, <2>3, <3>1, <4>2 DEF Journal!Advance, DurableRevision
    <3>2. CASE current[t].rev # intent.expected
      BY <1>2, <2>2, <2>3, <3>2 DEF DeviceDecision, DurableRevision
    <3>3. QED BY <3>1, <3>2
  <2>9. Journal!Decide(k, t, intent.expected)
    BY <2>5, <2>6, <2>8 DEF Journal!Decide
  <2>10. QED BY <2>3, <2>4, <2>7, <2>9 DEF Journal!Next
<1>3. CASE AppendsNothing
  BY <1>3 DEF AppendsNothing, Journal!vars, DurableRevision, Decisions
<1>4. QED BY <1>1, <1>2, <1>3, FileSteps DEF OperatorCommits, DeviceDecides

\* The empty file is an initial state of the abstract journal.
LEMMA InitOfTheJournal ==
  ASSUME Init PROVE Journal!Init
<1>1. history = << >> /\ commands = << >> /\ Len(history) = 0 /\ Len(commands) = 0
  BY DEF Init
<1>2. ASSUME NEW t \in Targets PROVE TargetHead(history, t).rev = 0
  <2>1. IsHead(history, t, 0) /\ Len(history) \in Nat
    BY <1>1 DEF IsHead
  <2>2. HeadIndex(history, t) = 0
    BY <2>1, HeadIndexIs
  <2>3. QED BY <2>2 DEF TargetHead
<1>3. Decisions = {}
  BY <1>1 DEF Decisions
<1>4. QED BY <1>2, <1>3 DEF Journal!Init, DurableRevision

\* ProductionService over SqliteProductionStateStore implements the abstract
\* operation journal: a device's operation is decided once and for ever, it is
\* applied exactly when the revision it expects is its target's, and no target
\* skips or repeats a revision.
THEOREM StoreImplementsJournal == Spec => ImplementsJournal
<1>1. Init => Journal!Init
  BY InitOfTheJournal
<1>2. AuthorityInv /\ [Next]_vars => [Journal!Next]_(Journal!vars)
  BY StepsOfTheJournal
<1>3. QED
  BY <1>1, <1>2, AuthorityInvariant, PTL DEF Spec, ImplementsJournal, Journal!Spec
-----------------------------------------------------------------------------
(***************************************************************************)
(* Quarantines.                                                            *)
(***************************************************************************)

\* A persisted quarantine of a target goes only with a recovery record that
\* binds the rejected hash at the next revision.
LEMMA StepsLeaveQuarantine ==
  ASSUME AuthorityInv, [Next]_vars, NEW t \in Targets, quarantine[t] # None
  PROVE  \/ quarantine'[t] = quarantine[t] /\ Truth(t)' = Truth(t)
         \/ /\ quarantine'[t] = None
            /\ LET r == history'[Len(history')] IN
               /\ r.target = t /\ r.kind \in RecoveryKinds
               /\ r.rejected = quarantine[t].rejected
               /\ r.rev = quarantine[t].rev + 1
<1>0. /\ quarantine \in [Targets -> Quarantines \cup {None}]
      /\ history \in Seq(Records) /\ Len(history) \in Nat
  BY DEF AuthorityInv, TypeOK, FileTypes
<1>1. ASSUME NEW u \in Targets, NEW snap \in Snapshots, NEW kind \in Kinds,
             NEW op \in OpIds, NEW rejected \in Hashes \cup {None},
             OperatorCommit(u, snap, kind, op, rejected)
      PROVE \/ quarantine'[t] = quarantine[t] /\ Truth(t)' = Truth(t)
            \/ /\ quarantine'[t] = None
               /\ LET r == history'[Len(history')] IN
                  /\ r.target = t /\ r.kind \in RecoveryKinds
                  /\ r.rejected = quarantine[t].rejected
                  /\ r.rev = quarantine[t].rev + 1
  <2>0. Usable /\ AppendRows(u, snap, kind, op, rejected)
          /\ snap.rev = heads[u].rev + 1
    BY <1>1 DEF OperatorCommit
  <2>1. CASE u = t
    <3>1. quarantine[t].rev = heads[t].rev
      BY <2>0 DEF AuthorityInv, StartupNeverAborts, LoadAccepts, UsableCanCommit
    <3>2. quarantine'[t] = None
      BY <1>0, <2>0, <2>1 DEF AppendRows
    <3>3. history'[Len(history')] =
            [target |-> t, rev |-> snap.rev, content |-> snap.content,
             kind |-> kind, op |-> op, prev |-> heads[t].index,
             rejected |-> rejected]
      BY <1>0, <2>0, <2>1 DEF AppendRows
    <3>4. kind \in RecoveryKinds /\ rejected = quarantine[t].rejected
      BY <1>1, <2>1 DEF OperatorCommit
    <3>5. QED BY <2>0, <2>1, <3>1, <3>2, <3>3, <3>4
  <2>2. CASE u # t
    <3>1. quarantine'[t] = quarantine[t]
      BY <1>0, <2>0, <2>2 DEF AppendRows
    <3>2. TargetHead(history', t) = TargetHead(history, t)
      BY <2>0, <2>2, AppendRowsKeepsFile
    <3>3. QED BY <3>1, <3>2 DEF Truth, HeadHash
  <2>3. QED BY <2>1, <2>2
<1>2. ASSUME NEW p \in Creds, NEW generation \in 1..MaxGeneration, NEW op \in Ops,
             NEW intent \in DeviceIntents, DeviceDecision(p, generation, op, intent)
      PROVE quarantine'[t] = quarantine[t] /\ Truth(t)' = Truth(t)
  <2> DEFINE u == intent.target
  <2>1. /\ Usable /\ current[u] # None /\ quarantine[u] = None
        /\ current[u].rev = heads[u].rev
    BY <1>2, DecisionSeesHead
  <2>2. /\ u \in Targets /\ u # t /\ CommandSnapshot(intent) \in Snapshots
        /\ CommandSnapshot(intent).rev = heads[u].rev + 1
        /\ "component.visibility" \in Kinds /\ DeviceOp(op) \in OpIds
    BY <2>1, CommandSnapshotType
  <2>3. CASE current[u].rev = intent.expected
    <3>1. AppendRows(u, CommandSnapshot(intent), "component.visibility",
                     DeviceOp(op), None)
      BY <1>2, <2>3 DEF DeviceDecision
    <3>2. quarantine'[t] = quarantine[t]
      BY <1>0, <2>2, <3>1 DEF AppendRows
    <3> HIDE DEF u
    <3>3. TargetHead(history', t) = TargetHead(history, t)
      BY <2>1, <2>2, <3>1, AppendRowsKeepsFile
    <3>4. QED BY <3>2, <3>3 DEF Truth, HeadHash
  <2>4. CASE current[u].rev # intent.expected
    BY <1>2, <2>4 DEF DeviceDecision, Truth, HeadHash
  <2>5. QED BY <2>3, <2>4
<1>3. CASE AppendsNothing
  BY <1>3 DEF AppendsNothing, Truth, HeadHash
<1>4. QED BY <1>1, <1>2, <1>3, FileSteps DEF OperatorCommits, DeviceDecides

\* A quarantined target changes only by its recovery, which binds the hash
\* load() rejected; until then its truth stays what history says.
THEOREM QuarantineEndsByRecovery == Spec => QuarantineLeavesByRecovery
<1>1. AuthorityInv /\ [Next]_vars =>
        [\A t \in Targets : quarantine[t] # None =>
           \/ quarantine'[t] = quarantine[t] /\ Truth(t)' = Truth(t)
           \/ /\ quarantine'[t] = None
              /\ LET r == history'[Len(history')] IN
                 /\ r.target = t /\ r.kind \in RecoveryKinds
                 /\ r.rejected = quarantine[t].rejected
                 /\ r.rev = quarantine[t].rev + 1]_vars
  BY StepsLeaveQuarantine
<1>2. QED BY <1>1, AuthorityInvariant, PTL DEF Spec, QuarantineLeavesByRecovery
-----------------------------------------------------------------------------
(***************************************************************************)
(* The command journal.  The inductive invariant adds to the properties    *)
(* that a target's revisions increase along history and that only rows     *)
(* that exist are damaged.                                                 *)
(***************************************************************************)
RevisionsIncrease ==
  \A i, j \in 1..Len(history) :
    i < j /\ history[i].target = history[j].target => history[i].rev < history[j].rev

JournalInv ==
  /\ AuthorityInv /\ RevisionsIncrease
  /\ brokenCommands \subseteq 1..Len(commands)
  /\ CommandGenerationsNeverGoBack /\ JournalMatchesHistory

\* What an appended record does to history: it stands last, at a revision
\* above every other of its target, and nothing before it changes.
LEMMA AppendExtendsHistory ==
  ASSUME AuthorityInv, RevisionsIncrease, Usable, NEW t \in Targets,
         NEW snap \in Snapshots, NEW kind \in Kinds, NEW op \in OpIds,
         NEW rejected \in Hashes \cup {None},
         snap.rev = heads[t].rev + 1,
         AppendRows(t, snap, kind, op, rejected)
  PROVE  /\ Len(history) \in Nat /\ Len(history') = Len(history) + 1
         /\ \A i \in 1..Len(history) : history'[i] = history[i]
         /\ history'[Len(history) + 1] =
              [target |-> t, rev |-> snap.rev, content |-> snap.content,
               kind |-> kind, op |-> op, prev |-> heads[t].index,
               rejected |-> rejected]
         /\ \A i \in 1..Len(history) :
              history[i].target = t => history[i].rev < snap.rev
         /\ RevisionsIncrease'
<1>0. /\ history \in Seq(Records) /\ Len(history) \in Nat
      /\ snap.rev \in Nat /\ heads[t] = TargetHead(history, t)
  BY DEF AuthorityInv, TypeOK, FileTypes, UsableCanCommit, Snapshots
<1>1. /\ Len(history') = Len(history) + 1
      /\ \A i \in 1..Len(history) : history'[i] = history[i]
      /\ history'[Len(history) + 1] =
           [target |-> t, rev |-> snap.rev, content |-> snap.content,
            kind |-> kind, op |-> op, prev |-> heads[t].index,
            rejected |-> rejected]
  BY <1>0 DEF AppendRows
<1>2. ASSUME NEW i \in 1..Len(history), history[i].target = t
      PROVE history[i].rev < snap.rev
  <2>1. PICK k \in 0..Len(history) : IsHead(history, t, k)
    BY DEF AuthorityInv, HeadsExist
  <2>2. i <= k /\ k # 0
    BY <1>0, <1>2, <2>1 DEF IsHead
  <2>3. heads[t].rev = history[k].rev /\ history[k].target = t
    <3>1. HeadIndex(history, t) = k
      BY <1>0, <2>1, HeadIndexIs
    <3>2. QED BY <1>0, <2>1, <2>2, <3>1 DEF TargetHead, IsHead
  <2>4. history[i].rev \in Nat /\ history[k].rev \in Nat
    <3>1. history[i] \in Records /\ history[k] \in Records
      BY <1>0, <2>1, <2>2, SeqElement
    <3>2. QED BY <3>1 DEF Records
  <2>5. history[i].rev <= history[k].rev
    BY <1>2, <2>1, <2>2, <2>3, <2>4 DEF RevisionsIncrease
  <2>6. QED BY <2>3, <2>4, <2>5
<1>3. ASSUME NEW i \in 1..Len(history'), NEW j \in 1..Len(history'), i < j,
             history'[i].target = history'[j].target
      PROVE history'[i].rev < history'[j].rev
  <2>1. CASE j = Len(history) + 1
    <3>1. i \in 1..Len(history) /\ history'[i] = history[i]
      BY <1>0, <1>1, <1>3, <2>1
    <3>2. history'[j].target = t /\ history'[j].rev = snap.rev
      BY <1>1, <2>1
    <3>3. QED BY <1>2, <1>3, <3>1, <3>2
  <2>2. CASE j # Len(history) + 1
    <3>1. i \in 1..Len(history) /\ j \in 1..Len(history)
      BY <1>0, <1>1, <1>3, <2>2
    <3>2. history'[i] = history[i] /\ history'[j] = history[j]
      BY <1>1, <3>1
    <3>3. QED BY <1>3, <3>1, <3>2 DEF RevisionsIncrease
  <2>3. QED BY <2>1, <2>2
<1>4. QED BY <1>0, <1>1, <1>2, <1>3 DEF RevisionsIncrease

\* The applied commands whose result is revision rev of target t.
AppliedAt(t, rev) ==
  {i \in 1..Len(commands) :
     /\ commands[i].status = "applied"
     /\ commands[i].intent.target = t
     /\ commands[i].resulting = rev}

\* History only grew.
HistoryGrew ==
  /\ Len(history) \in Nat /\ Len(history') \in Nat /\ Len(history) <= Len(history')
  /\ \A i \in 1..Len(history) : history'[i] = history[i]

\* A command bound to a record stays bound to it.
LEMMA BindingLasts ==
  ASSUME HistoryGrew, NEW i, commands'[i] = commands[i], CommandBound(i)
  PROVE  CommandBound(i)'
BY DEF HistoryGrew, CommandBound

\* A decided command is bound to the record of its resulting revision: the
\* one it appended, or the head that refused it.
LEMMA DecisionIsBound ==
  ASSUME AuthorityInv, RevisionsIncrease, NEW p \in Creds,
         NEW generation \in 1..MaxGeneration, NEW op \in Ops,
         NEW intent \in DeviceIntents,
         DeviceDecision(p, generation, op, intent),
         NEW n, n = Len(commands) + 1
  PROVE  /\ CommandBound(n)' /\ HistoryGrew
         /\ current[intent.target].rev # intent.expected => history' = history
         /\ current[intent.target].rev = intent.expected =>
              /\ Len(history') = Len(history) + 1
              /\ history'[Len(history) + 1].target = intent.target
              /\ history'[Len(history) + 1].rev = CommandSnapshot(intent).rev
              /\ \A i \in 1..Len(history) : history[i].target = intent.target =>
                   history[i].rev < CommandSnapshot(intent).rev
         /\ RevisionsIncrease'
<1> DEFINE t == intent.target
           c == CommandRecord(p, generation, op, intent)
<1>1. /\ c \in Commands /\ commands \in Seq(Commands)
      /\ commands' = Append(commands, c)
      /\ c.op = op /\ c.intent = intent
      /\ c.status = "applied" <=> current[t].rev = intent.expected
  BY DecisionAppends
<1>2. commands'[n] = c
  <2> HIDE DEF c
  <2> QED BY <1>1
<1>3. /\ Usable /\ current[t] # None /\ heads[t] = TargetHead(history, t)
      /\ current[t].rev = heads[t].rev /\ current[t].content = heads[t].content
  BY DecisionSeesHead
<1>4. /\ t \in Targets /\ CommandSnapshot(intent) \in Snapshots
      /\ CommandSnapshot(intent).rev = heads[t].rev + 1
      /\ "component.visibility" \in Kinds /\ DeviceOp(op) \in OpIds
  BY <1>3, CommandSnapshotType
<1>5. CASE current[t].rev = intent.expected
  <2>1. AppendRows(t, CommandSnapshot(intent), "component.visibility",
                   DeviceOp(op), None)
    BY <1>5 DEF DeviceDecision
  <2>2. /\ Len(history) \in Nat /\ Len(history') = Len(history) + 1
        /\ \A i \in 1..Len(history) : history'[i] = history[i]
        /\ history'[Len(history) + 1] =
             [target |-> t, rev |-> CommandSnapshot(intent).rev,
              content |-> CommandSnapshot(intent).content,
              kind |-> "component.visibility", op |-> DeviceOp(op),
              prev |-> heads[t].index, rejected |-> None]
        /\ \A i \in 1..Len(history) :
             history[i].target = t => history[i].rev < CommandSnapshot(intent).rev
        /\ RevisionsIncrease'
    <3> HIDE DEF t
    <3> QED BY <1>3, <1>4, <2>1, AppendExtendsHistory
  <2>3. HistoryGrew
    BY <2>2 DEF HistoryGrew
  <2>4. c.resulting = CommandSnapshot(intent).rev
          /\ c.content = CommandSnapshot(intent).content
    BY <1>5 DEF CommandRecord
  <2>5. CommandBound(n)'
    <3>1. Len(history) + 1 \in 1..Len(history')
      BY <2>2
    <3>2. LET j == Len(history) + 1 IN
          /\ history'[j].target = c.intent.target /\ history'[j].rev = c.resulting
          /\ history'[j].content = c.content
          /\ history'[j].kind = "component.visibility"
          /\ history'[j].op = DeviceOp(c.op)
      BY <1>1, <2>2, <2>4
    <3> HIDE DEF c
    <3>3. QED BY <1>2, <3>1, <3>2 DEF CommandBound, DeviceOp
  <2>6. QED BY <1>5, <2>2, <2>3, <2>5
<1>6. CASE current[t].rev # intent.expected
  <2>1. history' = history
    BY <1>6 DEF DeviceDecision
  <2>2. HistoryGrew /\ RevisionsIncrease'
    BY <2>1 DEF HistoryGrew, RevisionsIncrease, AuthorityInv, TypeOK, FileTypes
  <2>3. c.resulting = heads[t].rev /\ c.content = heads[t].content
          /\ c.status # "applied"
    BY <1>1, <1>3, <1>6 DEF CommandRecord
  <2>4. PICK k \in 0..Len(history) : IsHead(history, t, k)
    BY <1>4 DEF AuthorityInv, HeadsExist
  <2>5. HeadIndex(history, t) = k
    BY <2>2, <2>4, HeadIndexIs DEF HistoryGrew
  <2>6. k # 0
    BY <1>3, <1>4, <2>5 DEF AuthorityInv, StartupNeverAborts, LoadAccepts, TargetHead
  <2>7. k \in 1..Len(history) /\ history[k].target = t
    BY <2>2, <2>4, <2>6 DEF IsHead, HistoryGrew
  <2>8. history[k].rev = c.resulting /\ history[k].content = c.content
    BY <1>3, <2>3, <2>5, <2>6 DEF TargetHead
  <2>9. CommandBound(n)'
    <3> HIDE DEF c
    <3> QED BY <1>1, <1>2, <2>1, <2>3, <2>7, <2>8 DEF CommandBound
  <2>10. QED BY <1>6, <2>1, <2>2, <2>9
<1>7. QED BY <1>5, <1>6

\* What a decision does to the command journal.
LEMMA CommandsGrow ==
  ASSUME commands \in Seq(Commands), NEW c \in Commands,
         commands' = Append(commands, c), NEW n, n = Len(commands) + 1
  PROVE  /\ Len(commands) \in Nat /\ Len(commands') = n
         /\ commands'[n] = c /\ \A i \in 1..Len(commands) : commands'[i] = commands[i]
         /\ 1..Len(commands') = 1..Len(commands) \cup {n}
<1>1. Len(commands) \in Nat /\ Len(commands') = n
  OBVIOUS
<1>2. QED BY <1>1

\* A decision keeps every generation of a credential in order.
LEMMA DecisionKeepsGenerations ==
  ASSUME AuthorityInv, CommandGenerationsNeverGoBack, NEW p \in Creds,
         NEW generation \in 1..MaxGeneration, NEW op \in Ops,
         NEW intent \in DeviceIntents, DeviceDecision(p, generation, op, intent)
  PROVE  CommandGenerationsNeverGoBack'
<1> DEFINE c == CommandRecord(p, generation, op, intent)
<1>1. PICK n : n = Len(commands) + 1
  OBVIOUS
<1>2. /\ c \in Commands /\ commands \in Seq(Commands)
      /\ commands' = Append(commands, c)
      /\ c.principal = p /\ c.generation = generation
  BY DecisionAppends
<1> HIDE DEF c
<1>3. /\ Len(commands) \in Nat /\ Len(commands') = n
      /\ commands'[n] = c /\ \A i \in 1..Len(commands) : commands'[i] = commands[i]
      /\ 1..Len(commands') = 1..Len(commands) \cup {n}
  BY <1>1, <1>2, CommandsGrow
<1>4. credential' = credential /\ credential[p].generation = generation
  BY DEF DeviceDecision, CommandAdmitted, AuthorityIsCurrent
<1>5. SUFFICES ASSUME NEW i \in 1..Len(commands'), NEW j \in 1..Len(commands'),
                      commands'[i].principal = commands'[j].principal
      PROVE /\ i <= j => commands'[i].generation <= commands'[j].generation
            /\ commands'[i].generation <=
                 credential'[commands'[i].principal].generation
  BY DEF CommandGenerationsNeverGoBack
<1>6. ASSUME NEW k \in 1..Len(commands)
      PROVE commands[k].generation <= credential[commands[k].principal].generation
  BY DEF CommandGenerationsNeverGoBack
<1>7. generation \in Nat
  BY ModelBounds
<1>8. CASE i \in 1..Len(commands) /\ j \in 1..Len(commands)
  BY <1>3, <1>4, <1>5, <1>8 DEF CommandGenerationsNeverGoBack
<1>9. CASE i \in 1..Len(commands) /\ j = n
  BY <1>2, <1>3, <1>4, <1>5, <1>6, <1>9
<1>10. CASE i = n
  BY <1>1, <1>2, <1>3, <1>4, <1>5, <1>7, <1>10
<1>11. QED BY <1>3, <1>5, <1>8, <1>9, <1>10

\* A decision keeps the journal within its capacity.
LEMMA DecisionKeepsCapacity ==
  ASSUME AuthorityInv, JournalWithinCapacity, NEW p \in Creds,
         NEW generation \in 1..MaxGeneration, NEW op \in Ops,
         NEW intent \in DeviceIntents, DeviceDecision(p, generation, op, intent)
  PROVE  JournalWithinCapacity'
<1> DEFINE c == CommandRecord(p, generation, op, intent)
<1>1. PICK n : n = Len(commands) + 1
  OBVIOUS
<1>2. /\ c \in Commands /\ commands \in Seq(Commands)
      /\ commands' = Append(commands, c) /\ c.intent = intent
  BY DecisionAppends
<1> HIDE DEF c
<1>3. /\ Len(commands) \in Nat /\ Len(commands') = n
      /\ commands'[n] = c /\ \A i \in 1..Len(commands) : commands'[i] = commands[i]
      /\ 1..Len(commands') = 1..Len(commands) \cup {n}
  BY <1>1, <1>2, CommandsGrow
<1>4. /\ Len(commands) < MaxCommandsGlobal
      /\ Cardinality(CommandsOfShow(intent.target[1])) < MaxCommandsPerShow
  BY DecisionSeesHead DEF DeviceDecision, CommandAdmitted, CommandCapacity,
                          AuthorityInv, UsableCanCommit
<1>5. Len(commands') <= MaxCommandsGlobal
  BY <1>1, <1>3, <1>4, CommandBounds
<1>6. ASSUME NEW s \in Shows
      PROVE Cardinality(CommandsOfShow(s)') <= MaxCommandsPerShow
  <2>1. IsFiniteSet(CommandsOfShow(s)) /\ Cardinality(CommandsOfShow(s)) \in Nat
    <3>1. IsFiniteSet(1..Len(commands))
      BY <1>3, FS_Interval
    <3>2. CommandsOfShow(s) \subseteq 1..Len(commands)
      BY DEF CommandsOfShow
    <3>3. QED BY <3>1, <3>2, FS_Subset, FS_CardinalityType
  <2>2. CASE s = intent.target[1]
    <3>1. CommandsOfShow(s)' = CommandsOfShow(s) \cup {n}
      BY <1>2, <1>3, <2>2 DEF CommandsOfShow
    <3>2. Cardinality(CommandsOfShow(s) \cup {n}) <= Cardinality(CommandsOfShow(s)) + 1
      <4>1. ASSUME NEW S, IsFiniteSet(S), Cardinality(S) \in Nat
            PROVE Cardinality(S \cup {n}) <= Cardinality(S) + 1
        <5>1. Cardinality(S \cup {n}) =
                IF n \in S THEN Cardinality(S) ELSE Cardinality(S) + 1
          BY <4>1, FS_AddElement
        <5> DEFINE a == Cardinality(S \cup {n})
                   b == Cardinality(S)
        <5>2. a = IF n \in S THEN b ELSE b + 1
          BY <5>1
        <5> HIDE DEF a, b
        <5>3. b \in Nat => a <= b + 1
          BY <5>2
        <5>4. QED BY <4>1, <5>3 DEF a, b
      <4>2. QED BY <2>1, <4>1
    <3>3. Cardinality(CommandsOfShow(s)) + 1 <= MaxCommandsPerShow
      BY <1>4, <2>1, <2>2, CommandBounds
    <3>4. Cardinality(CommandsOfShow(s) \cup {n}) \in Nat
      <4>1. ASSUME NEW S, IsFiniteSet(S) PROVE Cardinality(S \cup {n}) \in Nat
        BY <4>1, FS_AddElement, FS_CardinalityType
      <4>2. QED BY <2>1, <4>1
    <3>5. QED BY <2>1, <3>1, <3>2, <3>3, <3>4, CommandBounds
  <2>3. CASE s # intent.target[1]
    <3>1. CommandsOfShow(s)' = CommandsOfShow(s)
      BY <1>2, <1>3, <2>3 DEF CommandsOfShow
    <3>2. QED BY <3>1 DEF JournalWithinCapacity
  <2>4. QED BY <2>2, <2>3
<1>7. QED BY <1>5, <1>6 DEF JournalWithinCapacity

\* A device's decision keeps the journal and history in agreement.
LEMMA DecisionKeepsJournal ==
  ASSUME JournalInv, AuthorityInv', NEW p \in Creds,
         NEW generation \in 1..MaxGeneration, NEW op \in Ops,
         NEW intent \in DeviceIntents, DeviceDecision(p, generation, op, intent)
  PROVE  JournalInv'
<1> DEFINE c == CommandRecord(p, generation, op, intent)
           t == intent.target
<1>0. /\ AuthorityInv /\ RevisionsIncrease /\ CommandGenerationsNeverGoBack
      /\ brokenCommands \subseteq 1..Len(commands)
      /\ OnlyDamageQuarantinesCommands /\ JournalWithinCapacity
      /\ \A i \in 1..Len(commands) : CommandBound(i)
      /\ \A j \in 1..Len(history) :
           history[j].op \in {DeviceOp(o) : o \in Ops} =>
             Cardinality(AppliedAt(history[j].target, history[j].rev)) = 1
  BY DEF JournalInv, JournalMatchesHistory, AppliedAt
<1>1. PICK n : n = Len(commands) + 1
  OBVIOUS
<1>2. /\ c \in Commands /\ commands \in Seq(Commands)
      /\ commands' = Append(commands, c) /\ c.intent = intent
      /\ c.status = "applied" <=> current[t].rev = intent.expected
  BY <1>0, DecisionAppends
<1>3. c.status = "applied" => c.resulting = CommandSnapshot(intent).rev
  BY <1>2 DEF CommandRecord
<1> HIDE DEF c
<1>4. /\ Len(commands) \in Nat /\ Len(commands') = n
      /\ commands'[n] = c /\ \A i \in 1..Len(commands) : commands'[i] = commands[i]
      /\ 1..Len(commands') = 1..Len(commands) \cup {n}
  BY <1>1, <1>2, CommandsGrow
<1>5. UNCHANGED <<brokenCommands, commandQuarantine, credential>>
  BY DEF DeviceDecision
<1>6. /\ CommandBound(n)' /\ HistoryGrew /\ RevisionsIncrease'
      /\ current[t].rev # intent.expected => history' = history
      /\ current[t].rev = intent.expected =>
           /\ Len(history') = Len(history) + 1
           /\ history'[Len(history) + 1].target = t
           /\ history'[Len(history) + 1].rev = CommandSnapshot(intent).rev
           /\ \A i \in 1..Len(history) : history[i].target = t =>
                history[i].rev < CommandSnapshot(intent).rev
  BY <1>0, <1>1, DecisionIsBound
<1>7. CommandGenerationsNeverGoBack' /\ JournalWithinCapacity'
  BY <1>0, DecisionKeepsGenerations, DecisionKeepsCapacity
<1>8. brokenCommands' \subseteq 1..Len(commands')
  BY <1>0, <1>4, <1>5
<1>9. OnlyDamageQuarantinesCommands'
  BY <1>0, <1>4, <1>5 DEF OnlyDamageQuarantinesCommands
<1>10. ASSUME NEW i \in 1..Len(commands') PROVE CommandBound(i)'
  <2>1. CASE i = n
    BY <1>6, <2>1
  <2>2. CASE i \in 1..Len(commands)
    BY <1>0, <1>4, <1>6, <2>2, BindingLasts
  <2>3. QED BY <1>4, <2>1, <2>2
<1>11. ASSUME NEW j \in 1..Len(history'),
              history'[j].op \in {DeviceOp(o) : o \in Ops}
       PROVE Cardinality(AppliedAt(history[j].target, history[j].rev)') = 1
  <2>0. PICK u, r : u = history'[j].target /\ r = history'[j].rev
    OBVIOUS
  <2>1. AppliedAt(u, r)' = {i \in 1..Len(commands) \cup {n} :
                              /\ commands'[i].status = "applied"
                              /\ commands'[i].intent.target = u
                              /\ commands'[i].resulting = r}
    BY <1>4 DEF AppliedAt
  <2>2. CASE c.status = "applied" /\ j = Len(history) + 1
    <3>1. u = t /\ r = CommandSnapshot(intent).rev
      BY <1>2, <1>6, <2>0, <2>2
    <3>2. ASSUME NEW i \in 1..Len(commands), commands[i].intent.target = t,
                 commands[i].resulting = CommandSnapshot(intent).rev
          PROVE FALSE
      <4>1. PICK k \in 1..Len(history) :
              history[k].target = t /\ history[k].rev = CommandSnapshot(intent).rev
        BY <1>0, <3>2 DEF CommandBound
      <4>2. history[k].rev < CommandSnapshot(intent).rev
        BY <1>2, <1>6, <2>2, <4>1
      <4>3. history[k] \in Records
        BY <1>0, <4>1, SeqElement DEF AuthorityInv, TypeOK, FileTypes
      <4>4. QED BY <4>1, <4>2, <4>3 DEF Records
    <3>3. AppliedAt(u, r)' = {n}
      BY <1>2, <1>3, <1>4, <2>1, <2>2, <3>1, <3>2
    <3>4. AppliedAt(history[j].target, history[j].rev)' = {n}
      BY <2>0, <3>3 DEF AppliedAt
    <3>5. QED BY <3>4, FS_Singleton
  <2>3. CASE ~(c.status = "applied" /\ j = Len(history) + 1)
    <3>1. j \in 1..Len(history) /\ history'[j] = history[j]
      BY <1>2, <1>6, <2>3 DEF HistoryGrew
    <3>2. c.status = "applied" => ~(u = t /\ r = c.resulting)
      <4>1. SUFFICES ASSUME c.status = "applied", u = t, r = c.resulting
            PROVE FALSE
        OBVIOUS
      <4>2. history[j].rev < CommandSnapshot(intent).rev
        BY <1>2, <1>6, <2>0, <3>1, <4>1
      <4>3. history[j] \in Records
        BY <1>0, <3>1, SeqElement DEF AuthorityInv, TypeOK, FileTypes
      <4>4. QED BY <1>3, <2>0, <3>1, <4>1, <4>2, <4>3 DEF Records
    <3>3. AppliedAt(u, r)' = AppliedAt(u, r)
      BY <1>2, <1>4, <2>1, <3>2 DEF AppliedAt
    <3>4. Cardinality(AppliedAt(u, r)) = 1
      BY <1>0, <1>11, <2>0, <3>1
    <3>5. AppliedAt(history[j].target, history[j].rev)' = AppliedAt(u, r)
      BY <2>0, <3>3 DEF AppliedAt
    <3>6. QED BY <3>4, <3>5
  <2>4. QED BY <2>2, <2>3
<1>12. JournalMatchesHistory'
  BY <1>7, <1>9, <1>10, <1>11 DEF JournalMatchesHistory, AppliedAt
<1>13. QED BY <1>6, <1>7, <1>8, <1>12 DEF JournalInv

\* An operator's commit, a take or a recovery keeps them in agreement: no
\* device's identifier is on its record.
LEMMA OperatorKeepsJournal ==
  ASSUME JournalInv, AuthorityInv', NEW t \in Targets, NEW snap \in Snapshots,
         NEW kind \in Kinds, NEW op \in OpIds, NEW rejected \in Hashes \cup {None},
         OperatorCommit(t, snap, kind, op, rejected)
  PROVE  JournalInv'
<1>0. /\ AuthorityInv /\ RevisionsIncrease /\ CommandGenerationsNeverGoBack
      /\ brokenCommands \subseteq 1..Len(commands)
      /\ OnlyDamageQuarantinesCommands /\ JournalWithinCapacity
      /\ \A i \in 1..Len(commands) : CommandBound(i)
      /\ \A j \in 1..Len(history) :
           history[j].op \in {DeviceOp(o) : o \in Ops} =>
             Cardinality(AppliedAt(history[j].target, history[j].rev)) = 1
  BY DEF JournalInv, JournalMatchesHistory, AppliedAt
<1>1. UNCHANGED <<commands, brokenCommands, commandQuarantine, credential>>
  BY DEF OperatorCommit
<1>2. /\ Len(history) \in Nat /\ Len(history') = Len(history) + 1
      /\ \A i \in 1..Len(history) : history'[i] = history[i]
      /\ history'[Len(history) + 1].op = op
      /\ RevisionsIncrease'
  <2>1. /\ Usable /\ AppendRows(t, snap, kind, op, rejected)
        /\ snap.rev = heads[t].rev + 1
    BY DEF OperatorCommit
  <2>2. /\ Len(history) \in Nat /\ Len(history') = Len(history) + 1
        /\ \A i \in 1..Len(history) : history'[i] = history[i]
        /\ history'[Len(history) + 1] =
             [target |-> t, rev |-> snap.rev, content |-> snap.content,
              kind |-> kind, op |-> op, prev |-> heads[t].index,
              rejected |-> rejected]
        /\ RevisionsIncrease'
    BY <1>0, <2>1, AppendExtendsHistory
  <2>3. QED BY <2>2
<1>3. HistoryGrew
  BY <1>2 DEF HistoryGrew
<1>4. /\ CommandGenerationsNeverGoBack' /\ JournalWithinCapacity'
      /\ OnlyDamageQuarantinesCommands' /\ brokenCommands' \subseteq 1..Len(commands')
  BY <1>0, <1>1 DEF CommandGenerationsNeverGoBack, JournalWithinCapacity,
                    CommandsOfShow, OnlyDamageQuarantinesCommands
<1>5. ASSUME NEW i \in 1..Len(commands') PROVE CommandBound(i)'
  BY <1>0, <1>1, <1>3, BindingLasts
<1>6. ASSUME NEW j \in 1..Len(history'),
             history'[j].op \in {DeviceOp(o) : o \in Ops}
      PROVE Cardinality(AppliedAt(history[j].target, history[j].rev)') = 1
  <2>1. j \in 1..Len(history) /\ history'[j] = history[j]
    BY <1>2, <1>6 DEF OperatorCommit
  <2>2. AppliedAt(history[j].target, history[j].rev)' =
          AppliedAt(history[j].target, history[j].rev)
    BY <1>1, <2>1 DEF AppliedAt
  <2>3. QED BY <1>0, <1>6, <2>1, <2>2
<1>7. JournalMatchesHistory'
  BY <1>4, <1>5, <1>6 DEF JournalMatchesHistory, AppliedAt
<1>8. QED BY <1>2, <1>4, <1>7 DEF JournalInv

\* Every other step keeps them in agreement: a mount quarantines the journal
\* of a Show only for a damaged row, for every row the store wrote is bound.
LEMMA QuietKeepsJournal ==
  ASSUME JournalInv, AuthorityInv', AppendsNothing PROVE JournalInv'
<1>0. /\ AuthorityInv /\ RevisionsIncrease /\ CommandGenerationsNeverGoBack
      /\ brokenCommands \subseteq 1..Len(commands)
      /\ OnlyDamageQuarantinesCommands /\ JournalWithinCapacity
      /\ \A i \in 1..Len(commands) : CommandBound(i)
  BY DEF JournalInv, JournalMatchesHistory
<1>1. /\ UNCHANGED <<history, commands>>
      /\ brokenCommands \subseteq brokenCommands'
      /\ brokenCommands' \subseteq 1..Len(commands')
  BY <1>0 DEF AppendsNothing
<1>2. RevisionsIncrease' /\ JournalWithinCapacity'
        /\ \A i \in 1..Len(commands') : CommandBound(i)'
  BY <1>0, <1>1 DEF RevisionsIncrease, JournalWithinCapacity, CommandsOfShow,
                    CommandBound
<1>3. CommandGenerationsNeverGoBack'
  <2>1. SUFFICES ASSUME NEW i \in 1..Len(commands), NEW j \in 1..Len(commands),
                        commands[i].principal = commands[j].principal
        PROVE /\ i <= j => commands[i].generation <= commands[j].generation
              /\ commands[i].generation <=
                   credential'[commands[i].principal].generation
    BY <1>1 DEF CommandGenerationsNeverGoBack
  <2>2. /\ i <= j => commands[i].generation <= commands[j].generation
        /\ commands[i].generation <= credential[commands[i].principal].generation
    BY <1>0, <2>1 DEF CommandGenerationsNeverGoBack
  <2>3. commands[i] \in Commands
    BY <1>0, SeqElement DEF AuthorityInv, TypeOK, FileTypes
  <2>4. commands[i].principal \in Creds /\ commands[i].generation \in Nat
    BY <2>3 DEF Commands
  <2>5. /\ credential[commands[i].principal].generation \in Nat
        /\ credential'[commands[i].principal].generation \in Nat
        /\ credential'[commands[i].principal].generation >=
             credential[commands[i].principal].generation
    BY <1>0, <2>4 DEF AppendsNothing, AuthorityInv, TypeOK, FileTypes
  <2>6. QED BY <2>2, <2>4, <2>5
<1>4. OnlyDamageQuarantinesCommands'
  <2>1. VerifyCommandJournal =
          commandQuarantine \cup {commands[i].intent.target[1] : i \in brokenCommands}
    BY <1>0 DEF VerifyCommandJournal
  <2>2. commandQuarantine' \subseteq
          {commands[i].intent.target[1] : i \in brokenCommands}
    BY <1>0, <2>1 DEF AppendsNothing, OnlyDamageQuarantinesCommands
  <2>3. QED BY <1>1, <2>2 DEF OnlyDamageQuarantinesCommands
<1>5. JournalMatchesHistory'
  BY <1>1, <1>2, <1>4 DEF JournalInv, JournalMatchesHistory
<1>6. QED BY <1>1, <1>2, <1>3, <1>5 DEF JournalInv

\* The empty file satisfies the invariant.
LEMMA InitJournal ==
  ASSUME Init PROVE JournalInv
<1>1. /\ history = << >> /\ commands = << >> /\ Len(history) = 0
      /\ Len(commands) = 0 /\ brokenCommands = {} /\ commandQuarantine = {}
  BY DEF Init
<1>2. RevisionsIncrease /\ CommandGenerationsNeverGoBack
  BY <1>1 DEF RevisionsIncrease, CommandGenerationsNeverGoBack
<1>3. JournalWithinCapacity
  <2>1. \A s \in Shows : CommandsOfShow(s) = {}
    BY <1>1 DEF CommandsOfShow
  <2>2. QED BY <1>1, <2>1, FS_EmptySet, CommandBounds DEF JournalWithinCapacity
<1>4. JournalMatchesHistory
  BY <1>1, <1>3 DEF JournalMatchesHistory, OnlyDamageQuarantinesCommands
<1>5. QED BY <1>1, <1>2, <1>4, InitAuthority DEF JournalInv

\* Every step keeps the journal's invariant.
LEMMA StepsKeepJournal ==
  ASSUME JournalInv, AuthorityInv', [Next]_vars PROVE JournalInv'
<1>1. AuthorityInv
  BY DEF JournalInv
<1>2. OperatorCommits \/ DeviceDecides \/ AppendsNothing
  BY <1>1, FileSteps
<1>3. CASE OperatorCommits
  BY <1>3, OperatorKeepsJournal DEF OperatorCommits
<1>4. CASE DeviceDecides
  BY <1>4, DecisionKeepsJournal DEF DeviceDecides
<1>5. CASE AppendsNothing
  BY <1>5, QuietKeepsJournal
<1>6. QED BY <1>2, <1>3, <1>4, <1>5

\* The inductive invariant of the command journal holds in every behaviour.
THEOREM JournalInvariant == Spec => []JournalInv
<1>1. AuthorityInv' /\ JournalInv /\ [Next]_vars => JournalInv'
  BY StepsKeepJournal
<1>2. Init => JournalInv
  BY InitJournal
<1>3. QED BY <1>1, <1>2, AuthorityInvariant, PTL DEF Spec

\* The command journal and history agree record by record, whatever commits
\* had unknown outcomes and wherever the process died.
THEOREM JournalAndHistoryAgree == Spec => []JournalMatchesHistory
<1>1. JournalInv => JournalMatchesHistory
  BY DEF JournalInv
<1>2. QED BY <1>1, JournalInvariant, PTL

\* A superseded generation of a credential never commands again: in journal
\* order a credential's generations never go back.
THEOREM GenerationsNeverGoBack == Spec => []CommandGenerationsNeverGoBack
<1>1. JournalInv => CommandGenerationsNeverGoBack
  BY DEF JournalInv
<1>2. QED BY <1>1, JournalInvariant, PTL

(***************************************************************************)
(* Records of a history.                                                   *)
(***************************************************************************)
Increasing(h) ==
  \A i, j \in 1..Len(h) :
    i < j /\ h[i].target = h[j].target => h[i].rev < h[j].rev

Extends(h, g) ==
  /\ h \in Seq(Records) /\ g \in Seq(Records) /\ Len(h) <= Len(g)
  /\ \A i \in 1..Len(h) : g[i] = h[i]

Has(h, t, rev) == \E i \in 1..Len(h) : h[i].target = t /\ h[i].rev = rev
At(h, t, rev) ==
  h[CHOOSE i \in 1..Len(h) : h[i].target = t /\ h[i].rev = rev]

\* A target has one record of a revision.
LEMMA AtIs ==
  ASSUME NEW h \in Seq(Records), Increasing(h), NEW i \in 1..Len(h)
  PROVE  Has(h, h[i].target, h[i].rev) /\ At(h, h[i].target, h[i].rev) = h[i]
<1>1. ASSUME NEW k \in 1..Len(h), h[k].target = h[i].target, h[k].rev = h[i].rev
      PROVE k = i
  <2>1. h[k] \in Records /\ h[i] \in Records
    BY SeqElement
  <2>2. h[k].rev \in Nat /\ h[i].rev \in Nat
    BY <2>1 DEF Records
  <2>3. ~(k < i) /\ ~(i < k)
    BY <1>1, <2>2 DEF Increasing
  <2>4. QED BY <2>3
<1>2. Has(h, h[i].target, h[i].rev)
  BY DEF Has
<1>3. (CHOOSE k \in 1..Len(h) : h[k].target = h[i].target /\ h[k].rev = h[i].rev) = i
  BY <1>1
<1>4. QED BY <1>2, <1>3 DEF At

\* A record outlives whatever is appended.
LEMMA RecordsLast ==
  ASSUME NEW h, NEW g, Extends(h, g), Increasing(g), NEW t, NEW rev, Has(h, t, rev)
  PROVE  Has(g, t, rev) /\ At(g, t, rev) = At(h, t, rev)
<1>1. PICK i \in 1..Len(h) : h[i].target = t /\ h[i].rev = rev
  BY DEF Has
<1>2. /\ h \in Seq(Records) /\ g \in Seq(Records) /\ Len(h) \in Nat /\ Len(g) \in Nat
      /\ Len(h) <= Len(g) /\ \A k \in 1..Len(h) : g[k] = h[k]
  BY DEF Extends
<1>3. Increasing(h)
  <2>1. SUFFICES ASSUME NEW k \in 1..Len(h), NEW j \in 1..Len(h),
                        k < j, h[k].target = h[j].target
        PROVE h[k].rev < h[j].rev
    BY DEF Increasing
  <2>2. k \in 1..Len(g) /\ j \in 1..Len(g) /\ g[k] = h[k] /\ g[j] = h[j]
    BY <1>2
  <2>3. QED BY <2>1, <2>2 DEF Increasing
<1>4. At(h, t, rev) = h[i]
  BY <1>1, <1>2, <1>3, AtIs
<1>5. i \in 1..Len(g) /\ g[i] = h[i]
  BY <1>2
<1>6. Has(g, t, rev) /\ At(g, t, rev) = g[i]
  BY <1>1, <1>2, <1>5, AtIs
<1>7. QED BY <1>4, <1>5, <1>6

\* Remembering an operation adds it to some of those remembered before.
LEMMA RememberedElements ==
  ASSUME NEW S, NEW s \in Seq(S), NEW e \in S, NEW i \in 1..Len(Remember(s, e))
  PROVE  Remember(s, e)[i] = e \/ \E k \in 1..Len(s) : Remember(s, e)[i] = s[k]
<1>1. CASE Len(s) < MaxOperations
  BY <1>1 DEF Remember
<1>2. CASE ~(Len(s) < MaxOperations)
  <2>1. s # << >> /\ Len(s) \in Nat
    BY <1>2, OperationBound
  <2>2. /\ Tail(s) \in Seq(S) /\ Len(Tail(s)) = Len(s) - 1
        /\ \A k \in 1..Len(Tail(s)) : Tail(s)[k] = s[k + 1]
    BY <2>1
  <2>3. Remember(s, e) = Append(Tail(s), e)
    BY <1>2 DEF Remember
  <2>4. CASE i = Len(Tail(s)) + 1
    BY <2>2, <2>3, <2>4
  <2>5. CASE i # Len(Tail(s)) + 1
    <3>1. Len(Remember(s, e)) = Len(Tail(s)) + 1 /\ Len(Tail(s)) \in Nat
      BY <2>2, <2>3
    <3>2. i \in 1..Len(Tail(s))
      BY <2>5, <3>1
    <3>3. Remember(s, e)[i] = Tail(s)[i]
      BY <2>2, <2>3, <3>2
    <3>4. i + 1 \in 1..Len(s) /\ Tail(s)[i] = s[i + 1]
      BY <2>1, <2>2, <3>2
    <3>5. QED BY <3>3, <3>4
  <2>6. QED BY <2>4, <2>5
<1>3. QED BY <1>1, <1>2
-----------------------------------------------------------------------------
(***************************************************************************)
(* Receipts against a history.                                             *)
(***************************************************************************)
VisibilityIsDurable(h, e) ==
  /\ e.targetRevision = e.intent.expected + 1
  /\ Has(h, e.intent.target, e.targetRevision)
  /\ LET r == At(h, e.intent.target, e.targetRevision) IN
     /\ r.op = e.op /\ r.kind = e.kind
     /\ e.intent.visible <=> e.intent.component \notin r.content.hidden

TakeIsDurable(h, s, e) ==
  /\ Has(h, <<s, "program">>, e.programRevision)
  /\ Has(h, <<s, "preview">>, e.previewRevision)
  /\ LET r == At(h, <<s, "program">>, e.programRevision) IN
     /\ r.kind = "program.take" /\ r.op = e.op
     /\ r.content = At(h, <<s, "preview">>, e.previewRevision).content
     /\ r.content.scene # None

StepsAreDurable(h, t, op, expected, completed) ==
  \A k \in 1..completed :
    Has(h, t, expected + k) /\ At(h, t, expected + k).op = StepOp(op, k - 1)

VisibilityReceiptsHold(map, h) ==
  \A s \in Shows : \A i \in 1..Len(map[s]) : VisibilityIsDurable(h, map[s][i])
TakeReceiptsHold(map, h) ==
  \A s \in Shows : \A i \in 1..Len(map[s]) : TakeIsDurable(h, s, map[s][i])
CueReceiptsHold(map, h) ==
  \A s \in Shows : \A i \in 1..Len(map[s]) : LET e == map[s][i] IN
    /\ e.targetRevision = e.expected + e.completed
    /\ StepsAreDurable(h, e.target, e.op, e.expected, e.completed)

\* A receipt that names durable records names them in every longer history.
LEMMA ReceiptsLast ==
  ASSUME NEW h, NEW g, Extends(h, g), Increasing(g)
  PROVE  /\ \A e : VisibilityIsDurable(h, e) => VisibilityIsDurable(g, e)
         /\ \A s, e : TakeIsDurable(h, s, e) => TakeIsDurable(g, s, e)
         /\ \A t, op, x, n :
              StepsAreDurable(h, t, op, x, n) => StepsAreDurable(g, t, op, x, n)
<1>1. \A t, rev : Has(h, t, rev) => Has(g, t, rev) /\ At(g, t, rev) = At(h, t, rev)
  BY RecordsLast
<1>2. QED BY <1>1 DEF VisibilityIsDurable, TakeIsDurable, StepsAreDurable

\* A map that remembers one more receipt that holds, holds.
LEMMA RememberedVisibilityHolds ==
  ASSUME NEW map \in [Shows -> Seq(VisibilityReceipts)], NEW h, NEW s \in Shows,
         NEW e \in VisibilityReceipts, NEW outcome, VisibilityReceiptsHold(map, h),
         Adopted(outcome) => VisibilityIsDurable(h, e)
  PROVE  VisibilityReceiptsHold(RememberIf(outcome, map, s, e), h)
<1>1. CASE ~Adopted(outcome)
  BY <1>1 DEF RememberIf
<1>2. CASE Adopted(outcome)
  <2>1. ASSUME NEW i \in 1..Len(Remember(map[s], e))
        PROVE VisibilityIsDurable(h, Remember(map[s], e)[i])
    BY <1>2, RememberedElements DEF VisibilityReceiptsHold
  <2>2. RememberIf(outcome, map, s, e) = [map EXCEPT ![s] = Remember(map[s], e)]
    BY <1>2 DEF RememberIf
  <2>3. QED BY <2>1, <2>2 DEF VisibilityReceiptsHold
<1>3. QED BY <1>1, <1>2

\* The same of takes.
LEMMA RememberedTakeHolds ==
  ASSUME NEW map \in [Shows -> Seq(TakeReceipts)], NEW h, NEW s \in Shows,
         NEW e \in TakeReceipts, NEW outcome, TakeReceiptsHold(map, h),
         Adopted(outcome) => TakeIsDurable(h, s, e)
  PROVE  TakeReceiptsHold(RememberIf(outcome, map, s, e), h)
<1>1. CASE ~Adopted(outcome)
  BY <1>1 DEF RememberIf
<1>2. CASE Adopted(outcome)
  <2>1. ASSUME NEW i \in 1..Len(Remember(map[s], e))
        PROVE TakeIsDurable(h, s, Remember(map[s], e)[i])
    BY <1>2, RememberedElements DEF TakeReceiptsHold
  <2>2. RememberIf(outcome, map, s, e) = [map EXCEPT ![s] = Remember(map[s], e)]
    BY <1>2 DEF RememberIf
  <2>3. QED BY <2>1, <2>2 DEF TakeReceiptsHold
<1>3. QED BY <1>1, <1>2
-----------------------------------------------------------------------------
(***************************************************************************)
(* The inductive invariant: what is published is what memory holds, an     *)
(* answer shows what memory holds, and a cue in progress has its completed *)
(* steps on record, the last of them at the head of its target.            *)
(***************************************************************************)
PublishedHolds(pub, h) ==
  \A t \in Targets : pub[t].rev > 0 =>
    \E i \in 1..Len(h) : /\ h[i].target = t /\ h[i].rev = pub[t].rev
                         /\ h[i].content = pub[t].content

AnswerHolds ==
  /\ phase = "down" => cue = None /\ answer = None
  /\ (Usable /\ answer # None) => answer = PublicState(answer.show, shows)

ContiguousAt(h, i) ==
  (h[i].kind = "cue.step" /\ h[i].op[2] > 0) =>
    /\ h[i].prev > 0
    /\ LET r == h[h[i].prev] IN
       r.kind = "cue.step" /\ r.op = StepOp(h[i].op[1], h[i].op[2] - 1)

CueInProgress ==
  (Usable /\ cue # None) =>
    /\ Available(cue.target)
    /\ shows[cue.target].rev = cue.expected + cue.completed
    /\ StepsAreDurable(history, cue.target, cue.op, cue.expected, cue.completed)
    /\ cue.completed > 0 =>
         At(history, cue.target, cue.expected + cue.completed).kind = "cue.step"

ServiceInv ==
  /\ AuthorityInv /\ Increasing(history)
  /\ Usable => published = shows
  /\ PublishedHolds(published, history)
  /\ AnswerHolds /\ CueInProgress
  /\ VisibilityReceiptsHold(visibilityOperations, history)
  /\ TakeReceiptsHold(takeOperations, history)
  /\ CueReceiptsHold(cueOperations, history)
  /\ \A i \in 1..Len(history) : ContiguousAt(history, i)

\* The head of a target that has a revision is its record.
LEMMA HeadIsRecord ==
  ASSUME AuthorityInv, Increasing(history), NEW t \in Targets,
         TargetHead(history, t).rev # 0
  PROVE  LET head == TargetHead(history, t) IN
         /\ head.index \in 1..Len(history) /\ history[head.index].target = t
         /\ history[head.index].rev = head.rev
         /\ history[head.index].content = head.content
         /\ Has(history, t, head.rev)
         /\ At(history, t, head.rev) = history[head.index]
<1>1. history \in Seq(Records) /\ Len(history) \in Nat
  BY DEF AuthorityInv, TypeOK, FileTypes
<1>2. PICK k \in 0..Len(history) : IsHead(history, t, k)
  BY DEF AuthorityInv, HeadsExist
<1>3. TargetHead(history, t) =
        [index |-> k, rev |-> IF k = 0 THEN 0 ELSE history[k].rev,
         content |-> IF k = 0 THEN EmptyContent ELSE history[k].content]
  BY <1>1, <1>2, TargetHeadType
<1>4. k \in 1..Len(history) /\ history[k].target = t
  BY <1>1, <1>2, <1>3 DEF IsHead
<1>5. Has(history, history[k].target, history[k].rev)
        /\ At(history, history[k].target, history[k].rev) = history[k]
  BY <1>1, <1>4, AtIs
<1>6. QED BY <1>3, <1>4, <1>5

\* What memory holds of an available target that has a revision is on record.
LEMMA MemoryIsRecord ==
  ASSUME AuthorityInv, Increasing(history), Usable, NEW t \in Targets,
         Available(t), shows[t].rev # 0
  PROVE  /\ Has(history, t, shows[t].rev)
         /\ At(history, t, shows[t].rev).content = shows[t].content
         /\ At(history, t, shows[t].rev) = history[heads[t].index]
         /\ heads[t].index > 0 /\ heads[t].index \in 1..Len(history)
<1>1. /\ heads[t] = TargetHead(history, t)
      /\ shows[t] = [rev |-> heads[t].rev, content |-> heads[t].content]
  BY DEF AuthorityInv, MemoryIsDurableTruth, UsableCanCommit, Truth, HeadHash
<1>2. LET head == TargetHead(history, t) IN
         /\ head.index \in 1..Len(history) /\ history[head.index].target = t
         /\ history[head.index].rev = head.rev
         /\ history[head.index].content = head.content
         /\ Has(history, t, head.rev)
         /\ At(history, t, head.rev) = history[head.index]
  BY <1>1, HeadIsRecord
<1>3. QED BY <1>1, <1>2

\* What a mutation of any outcome does to history, to what is published and
\* to what is answered.
LEMMA CommitKeepsService ==
  ASSUME ServiceInv, Usable, NEW t \in Targets, NEW snap \in Snapshots,
         NEW kind \in Kinds, NEW op \in OpIds, NEW rejected \in Hashes \cup {None},
         NEW outcome, NEW nextCue, NEW reply,
         IF outcome = "refused" THEN UNCHANGED history
         ELSE snap.rev = heads[t].rev + 1 /\ AppendRows(t, snap, kind, op, rejected),
         outcome = "committed" => AdoptCommit(t, snap),
         PublishCommittedSnapshot(t, snap, outcome, nextCue, reply),
         reply = None \/ reply = PublicState(t[1], shows'),
         kind = "cue.step" /\ op[2] > 0 =>
           /\ heads[t].index \in 1..Len(history)
           /\ history[heads[t].index].kind = "cue.step"
           /\ history[heads[t].index].op = StepOp(op[1], op[2] - 1)
  PROVE  /\ Extends(history, history') /\ Increasing(history')
         /\ Usable' => published' = shows'
         /\ PublishedHolds(published', history') /\ AnswerHolds'
         /\ \A i \in 1..Len(history') : ContiguousAt(history', i)
         /\ outcome # "refused" =>
              /\ Has(history', t, snap.rev)
              /\ At(history', t, snap.rev) =
                   [target |-> t, rev |-> snap.rev, content |-> snap.content,
                    kind |-> kind, op |-> op, prev |-> heads[t].index,
                    rejected |-> rejected]
<1>0. /\ history \in Seq(Records) /\ Len(history) \in Nat
      /\ AuthorityInv /\ Increasing(history) /\ RevisionsIncrease
      /\ published \in [Targets -> Snapshots] /\ shows \in [Targets -> Snapshots]
  <2>1. AuthorityInv /\ Increasing(history)
    BY DEF ServiceInv
  <2>2. RevisionsIncrease
    BY <2>1 DEF Increasing, RevisionsIncrease
  <2>3. QED BY <2>1, <2>2 DEF AuthorityInv, TypeOK, FileTypes, ProcessTypes
<1>1. ASSUME outcome # "refused"
      PROVE /\ Len(history') = Len(history) + 1 /\ history' \in Seq(Records)
            /\ \A i \in 1..Len(history) : history'[i] = history[i]
            /\ history'[Len(history) + 1] =
                 [target |-> t, rev |-> snap.rev, content |-> snap.content,
                  kind |-> kind, op |-> op, prev |-> heads[t].index,
                  rejected |-> rejected]
            /\ Increasing(history')
  <2>1. snap.rev = heads[t].rev + 1 /\ AppendRows(t, snap, kind, op, rejected)
    BY <1>1
  <2>2. history' \in Seq(Records)
    BY <1>0, <2>1, AppendRowsType DEF AuthorityInv
  <2>3. /\ Len(history') = Len(history) + 1
        /\ \A i \in 1..Len(history) : history'[i] = history[i]
        /\ history'[Len(history) + 1] =
             [target |-> t, rev |-> snap.rev, content |-> snap.content,
              kind |-> kind, op |-> op, prev |-> heads[t].index,
              rejected |-> rejected]
        /\ RevisionsIncrease'
    BY <1>0, <2>1, AppendExtendsHistory
  <2>4. QED BY <2>2, <2>3 DEF RevisionsIncrease, Increasing
<1>2. Extends(history, history') /\ Increasing(history')
  BY <1>0, <1>1 DEF Extends
<1>3. outcome # "refused" =>
        /\ Has(history', t, snap.rev)
        /\ At(history', t, snap.rev) =
             [target |-> t, rev |-> snap.rev, content |-> snap.content,
              kind |-> kind, op |-> op, prev |-> heads[t].index,
              rejected |-> rejected]
  <2>1. SUFFICES ASSUME outcome # "refused"
        PROVE /\ Has(history', t, snap.rev)
              /\ At(history', t, snap.rev) = history'[Len(history) + 1]
    BY <1>1
  <2>2. /\ Len(history) + 1 \in 1..Len(history') /\ history' \in Seq(Records)
        /\ history'[Len(history) + 1].target = t
        /\ history'[Len(history) + 1].rev = snap.rev
    BY <1>0, <1>1, <2>1
  <2>3. QED BY <1>2, <2>2, AtIs
<1>4. /\ Usable' => published' = shows'
      /\ PublishedHolds(published', history') /\ AnswerHolds'
  <2>1. CASE outcome = "committed"
    <3>1. /\ published' = [published EXCEPT ![t] = snap]
          /\ shows' = [shows EXCEPT ![t] = snap]
          /\ answer' = reply /\ phase' = phase
      BY <2>1 DEF PublishCommittedSnapshot, AdoptCommit
    <3>2. published' = shows'
      BY <3>1 DEF ServiceInv
    <3>3. PublishedHolds(published', history')
      <4>1. SUFFICES ASSUME NEW u \in Targets, published'[u].rev > 0
            PROVE \E i \in 1..Len(history') :
                    /\ history'[i].target = u /\ history'[i].rev = published'[u].rev
                    /\ history'[i].content = published'[u].content
        BY DEF PublishedHolds
      <4>2. CASE u = t
        <5>1. published'[t] = snap
          BY <1>0, <3>1
        <5>2. Len(history) + 1 \in 1..Len(history')
          BY <1>0, <1>1, <2>1
        <5>3. QED BY <1>1, <2>1, <4>2, <5>1, <5>2
      <4>3. CASE u # t
        <5>1. published'[u] = published[u]
          BY <1>0, <3>1, <4>3
        <5>2. PICK i \in 1..Len(history) :
                /\ history[i].target = u /\ history[i].rev = published[u].rev
                /\ history[i].content = published[u].content
          BY <4>1, <5>1 DEF ServiceInv, PublishedHolds
        <5>3. i \in 1..Len(history') /\ history'[i] = history[i]
          BY <1>0, <1>1, <2>1
        <5>4. QED BY <5>1, <5>2, <5>3
      <4>4. QED BY <4>2, <4>3
    <3>4. AnswerHolds'
      BY <3>1 DEF AnswerHolds, PublicState, Usable
    <3>5. QED BY <3>2, <3>3, <3>4
  <2>2. CASE outcome # "committed"
    <3>1. published' = published /\ phase' = "failed"
      BY <2>2 DEF PublishCommittedSnapshot
    <3>2. PublishedHolds(published', history')
      BY <1>0, <1>2, <3>1 DEF ServiceInv, PublishedHolds, Extends
    <3>3. QED BY <3>1, <3>2 DEF AnswerHolds, Usable
  <2>3. QED BY <2>1, <2>2
<1>5. ASSUME NEW i \in 1..Len(history') PROVE ContiguousAt(history', i)
  <2>1. CASE outcome # "refused" /\ i = Len(history) + 1
    <3>1. ASSUME kind = "cue.step", op[2] > 0
          PROVE /\ heads[t].index > 0 /\ history'[heads[t].index].kind = "cue.step"
                /\ history'[heads[t].index].op = StepOp(op[1], op[2] - 1)
      BY <1>0, <1>1, <2>1, <3>1
    <3>2. /\ history'[i].kind = kind /\ history'[i].op = op
          /\ history'[i].prev = heads[t].index
      BY <1>1, <2>1
    <3>3. QED BY <3>1, <3>2 DEF ContiguousAt
  <2>2. CASE ~(outcome # "refused" /\ i = Len(history) + 1)
    <3>1. i \in 1..Len(history)
      BY <1>0, <1>1, <2>2
    <3>2. history'[i] = history[i] /\ ContiguousAt(history, i)
      BY <1>2, <3>1 DEF Extends, ServiceInv
    <3>3. history[i].prev \in 0..(i - 1)
      BY <1>0, <3>1 DEF AuthorityInv, StartupNeverAborts, LoadAccepts, VerifyHistory
    <3>4. history[i].prev > 0 => history'[history[i].prev] = history[history[i].prev]
      BY <1>0, <1>2, <3>1, <3>3 DEF Extends
    <3>5. QED BY <3>2, <3>4 DEF ContiguousAt
  <2>3. QED BY <2>1, <2>2
<1>6. QED BY <1>2, <1>3, <1>4, <1>5

\* The receipts remembered before hold in the longer history.
LEMMA OldReceiptsHold ==
  ASSUME ServiceInv, Extends(history, history'), Increasing(history')
  PROVE  /\ VisibilityReceiptsHold(visibilityOperations, history')
         /\ TakeReceiptsHold(takeOperations, history')
         /\ CueReceiptsHold(cueOperations, history')
<1>1. /\ \A e : VisibilityIsDurable(history, e) => VisibilityIsDurable(history', e)
      /\ \A s, e : TakeIsDurable(history, s, e) => TakeIsDurable(history', s, e)
      /\ \A t, op, x, n : StepsAreDurable(history, t, op, x, n) =>
                            StepsAreDurable(history', t, op, x, n)
  BY ReceiptsLast
<1>2. /\ VisibilityReceiptsHold(visibilityOperations, history)
      /\ TakeReceiptsHold(takeOperations, history)
      /\ CueReceiptsHold(cueOperations, history)
  BY DEF ServiceInv
<1>3. QED
  BY <1>1, <1>2 DEF VisibilityReceiptsHold, TakeReceiptsHold, CueReceiptsHold

\* A call that commits, remembers no operation and ends.
LEMMA PlainCommitKeepsService ==
  ASSUME ServiceInv, AuthorityInv', NEW t \in Targets, NEW snap \in Snapshots,
         NEW kind \in Kinds, kind # "cue.step", NEW op \in OpIds, NEW expected,
         NEW rejected \in Hashes \cup {None}, NEW outcome, NEW reply, Usable,
         CommitSnapshot(t, snap, kind, op, expected, rejected, outcome),
         PublishCommittedSnapshot(t, snap, outcome, None, reply),
         reply = None \/ reply = PublicState(t[1], shows'),
         UNCHANGED <<takeOperations, visibilityOperations, cueOperations>>
  PROVE  ServiceInv'
<1>1. /\ IF outcome = "refused" THEN UNCHANGED history
         ELSE snap.rev = heads[t].rev + 1 /\ AppendRows(t, snap, kind, op, rejected)
      /\ outcome = "committed" => AdoptCommit(t, snap)
  BY DEF CommitSnapshot, StoreAdmits, Adopted
<1>2. /\ Extends(history, history') /\ Increasing(history')
      /\ Usable' => published' = shows'
      /\ PublishedHolds(published', history') /\ AnswerHolds'
      /\ \A i \in 1..Len(history') : ContiguousAt(history', i)
  BY <1>1, CommitKeepsService
<1>3. /\ VisibilityReceiptsHold(visibilityOperations, history')
      /\ TakeReceiptsHold(takeOperations, history')
      /\ CueReceiptsHold(cueOperations, history')
  BY <1>2, OldReceiptsHold
<1>4. CueInProgress'
  BY DEF CueInProgress, PublishCommittedSnapshot
<1>5. QED BY <1>2, <1>3, <1>4 DEF ServiceInv

\* loadPreview, applyPreviewControls and recoverTarget.
LEMMA PlainCallsKeepService ==
  ASSUME ServiceInv, AuthorityInv',
         \/ \E s \in Shows, outcome \in Outcomes, scene \in Scenes, v \in Values :
              LoadPreview(s, scene, v, outcome)
         \/ \E s \in Shows, outcome \in Outcomes, op \in Ops,
               expected \in Revisions, v \in Values :
              ApplyPreviewControls(s, expected, op, v, outcome)
         \/ \E s \in Shows, outcome \in Outcomes, bus \in Buses, scene \in Scenes,
               v \in Values, op \in Ops, mode \in RecoveryKinds :
              RecoverTarget(<<s, bus>>, mode, scene, v, op, outcome)
  PROVE  ServiceInv'
<1>0. TypeOK
  BY DEF ServiceInv, AuthorityInv
<1>1. ASSUME NEW s \in Shows, NEW outcome \in Outcomes, NEW scene \in Scenes,
             NEW v \in Values, LoadPreview(s, scene, v, outcome)
      PROVE ServiceInv'
  <2> DEFINE t == <<s, "preview">>
             snap == [rev |-> shows[t].rev + 1,
                      content |-> [scene |-> scene, hidden |-> {}, vars |-> v]]
  <2>1. t \in Targets /\ t[1] = s
    BY DEF Targets, Buses
  <2>2. snap \in Snapshots
    BY <1>0, <2>1 DEF Snapshots, Contents, TypeOK, ProcessTypes
  <2>3. /\ Usable
        /\ CommitSnapshot(t, snap, "preview.load", None, shows[t].rev, None, outcome)
        /\ PublishCommittedSnapshot(t, snap, outcome, None, PublicState(t[1], shows'))
        /\ UNCHANGED <<takeOperations, visibilityOperations, cueOperations>>
    BY <1>1 DEF LoadPreview, Mutate, Idle, operations
  <2>4. "preview.load" \in Kinds /\ None \in OpIds
    BY OperatorOps DEF Kinds
  <2> HIDE DEF t, snap
  <2>5. QED BY <2>1, <2>2, <2>3, <2>4, PlainCommitKeepsService
<1>2. ASSUME NEW s \in Shows, NEW outcome \in Outcomes, NEW op \in Ops,
             NEW expected \in Revisions, NEW v \in Values,
             ApplyPreviewControls(s, expected, op, v, outcome)
      PROVE ServiceInv'
  <2> DEFINE t == <<s, "preview">>
             snap == [rev |-> shows[t].rev + 1,
                      content |-> [shows[t].content EXCEPT !.vars = v]]
  <2>1. t \in Targets
    BY DEF Targets, Buses
  <2>2. snap \in Snapshots
    <3>1. shows[t] \in Snapshots
      BY <1>0, <2>1 DEF TypeOK, ProcessTypes
    <3>2. shows[t].rev + 1 \in Nat /\ shows[t].content \in Contents
      BY <3>1 DEF Snapshots
    <3>3. [shows[t].content EXCEPT !.vars = v] \in Contents
      BY <3>2 DEF Contents
    <3>4. QED BY <3>2, <3>3 DEF Snapshots
  <2>3. /\ Usable
        /\ CommitSnapshot(t, snap, "preview.controls", op, shows[t].rev, None, outcome)
        /\ PublishCommittedSnapshot(t, snap, outcome, None, PublicState(t[1], shows'))
        /\ UNCHANGED <<takeOperations, visibilityOperations, cueOperations>>
    BY <1>2 DEF ApplyPreviewControls, Mutate, Idle
  <2>4. "preview.controls" \in Kinds /\ op \in OpIds
    BY OperatorOps DEF Kinds
  <2> HIDE DEF t, snap
  <2>5. QED BY <2>1, <2>2, <2>3, <2>4, PlainCommitKeepsService
<1>3. ASSUME NEW s \in Shows, NEW outcome \in Outcomes, NEW bus \in Buses,
             NEW scene \in Scenes, NEW v \in Values, NEW op \in Ops,
             NEW mode \in RecoveryKinds,
             RecoverTarget(<<s, bus>>, mode, scene, v, op, outcome)
      PROVE ServiceInv'
  <2> DEFINE t == <<s, bus>>
             q == quarantines[t]
             content == IF mode = "quarantine.reset" THEN EmptyContent
                        ELSE [scene |-> scene, hidden |-> {}, vars |-> v]
             snap == [rev |-> q.rev + 1, content |-> content]
  <2>1. t \in Targets
    BY DEF Targets
  <2>2. q \in Quarantines
    BY <1>0, <1>3, <2>1 DEF RecoverTarget, TypeOK, ProcessTypes
  <2>3. snap \in Snapshots
    BY <2>2 DEF Quarantines, Snapshots, Contents, EmptyContent
  <2>4. /\ q.rejected \in Hashes \cup {None} /\ mode \in Kinds /\ op \in OpIds
        /\ mode # "cue.step"
    BY <2>2, OperatorOps DEF Quarantines, RecoveryKinds, Kinds
  <2>5. /\ Usable
        /\ CommitSnapshot(t, snap, mode, op, q.rev, q.rejected, outcome)
        /\ PublishCommittedSnapshot(t, snap, outcome, None, None)
        /\ UNCHANGED <<takeOperations, visibilityOperations, cueOperations>>
    BY <1>3 DEF RecoverTarget, Idle, operations
  <2> HIDE DEF snap, q, t
  <2>6. QED BY <2>1, <2>3, <2>4, <2>5, PlainCommitKeepsService
<1>4. QED BY <1>1, <1>2, <1>3

\* take: its receipt names the Preview record that memory held and the
\* Program record it wrote.
LEMMA TakeKeepsService ==
  ASSUME ServiceInv, AuthorityInv', NEW s \in Shows, NEW outcome \in Outcomes,
         NEW op \in Ops, NEW expected \in Revisions, Take(s, expected, op, outcome)
  PROVE  ServiceInv'
<1> DEFINE preview == <<s, "preview">>
           t == <<s, "program">>
           snap == [rev |-> shows[t].rev + 1, content |-> shows[preview].content]
           e == [op |-> op, previewRevision |-> expected, programRevision |-> snap.rev]
<1>0. TypeOK /\ AuthorityInv /\ Increasing(history) /\ expected \in Nat
  BY DEF ServiceInv, AuthorityInv, Revisions
<1>1. t \in Targets /\ preview \in Targets /\ t[1] = s
  BY DEF Targets, Buses
<1>2. snap \in Snapshots
  BY <1>0, <1>1 DEF Snapshots, TypeOK, ProcessTypes
<1>3. /\ Usable /\ Available(preview) /\ shows[preview].rev = expected
      /\ shows[preview].rev # 0 /\ shows[preview].content.scene # None
      /\ CommitSnapshot(t, snap, "program.take", op, shows[t].rev, None, outcome)
      /\ PublishCommittedSnapshot(t, snap, outcome, None, PublicState(t[1], shows'))
      /\ takeOperations' = RememberIf(outcome, takeOperations, s, e)
      /\ UNCHANGED <<visibilityOperations, cueOperations>>
  BY DEF Take, Mutate, Idle
<1>4. "program.take" \in Kinds /\ op \in OpIds
  BY OperatorOps DEF Kinds
<1>5. /\ IF outcome = "refused" THEN UNCHANGED history
         ELSE /\ snap.rev = heads[t].rev + 1
              /\ AppendRows(t, snap, "program.take", op, None)
      /\ outcome = "committed" => AdoptCommit(t, snap)
  BY <1>3 DEF CommitSnapshot, StoreAdmits, Adopted
<1>6. e \in TakeReceipts /\ snap.content = shows[preview].content
  BY <1>0, <1>2 DEF TakeReceipts, Snapshots
<1>7. e.op = op /\ e.previewRevision = expected /\ e.programRevision = snap.rev
  OBVIOUS
<1> HIDE DEF t, preview, snap, e
<1>8. /\ Extends(history, history') /\ Increasing(history')
      /\ Usable' => published' = shows'
      /\ PublishedHolds(published', history') /\ AnswerHolds'
      /\ \A i \in 1..Len(history') : ContiguousAt(history', i)
      /\ outcome # "refused" =>
           /\ Has(history', t, snap.rev)
           /\ At(history', t, snap.rev) =
                [target |-> t, rev |-> snap.rev, content |-> snap.content,
                 kind |-> "program.take", op |-> op, prev |-> heads[t].index,
                 rejected |-> None]
  BY <1>1, <1>2, <1>3, <1>4, <1>5, CommitKeepsService
<1>9. /\ VisibilityReceiptsHold(visibilityOperations, history')
      /\ TakeReceiptsHold(takeOperations, history')
      /\ CueReceiptsHold(cueOperations, history')
  BY <1>8, OldReceiptsHold
<1>10. Adopted(outcome) => TakeIsDurable(history', s, e)
  <2>1. SUFFICES ASSUME outcome # "refused" PROVE TakeIsDurable(history', s, e)
    BY DEF Adopted
  <2>2. /\ Has(history, preview, expected)
        /\ At(history, preview, expected).content = shows[preview].content
    BY <1>0, <1>1, <1>3, MemoryIsRecord
  <2>3. /\ Has(history', preview, expected)
        /\ At(history', preview, expected) = At(history, preview, expected)
    BY <1>8, <2>2, RecordsLast
  <2>4. QED
    BY <1>3, <1>6, <1>7, <1>8, <2>1, <2>2, <2>3 DEF TakeIsDurable, t, preview
<1>11. TakeReceiptsHold(takeOperations', history')
  BY <1>0, <1>3, <1>6, <1>9, <1>10, RememberedTakeHolds DEF TypeOK, OperationTypes
<1>12. CueInProgress'
  BY <1>3 DEF CueInProgress, PublishCommittedSnapshot
<1>13. QED BY <1>3, <1>8, <1>9, <1>11, <1>12 DEF ServiceInv

\* The visibility mutation, of an intent and of a cue's step: its receipt
\* names the record it wrote.
LEMMA VisibilityKeepsService ==
  ASSUME ServiceInv, Usable, NEW t \in Targets, NEW c \in Components,
         NEW visible \in BOOLEAN, NEW op \in OpIds, NEW kind \in Kinds,
         NEW outcome, NEW nextCue, NEW reply,
         reply = None \/ reply = PublicState(t[1], shows'),
         ApplyVisibility(t, c, visible, op, kind, outcome, nextCue, reply),
         UNCHANGED <<takeOperations, cueOperations>>,
         kind = "cue.step" /\ op[2] > 0 =>
           /\ heads[t].index \in 1..Len(history)
           /\ history[heads[t].index].kind = "cue.step"
           /\ history[heads[t].index].op = StepOp(op[1], op[2] - 1)
  PROVE  /\ Extends(history, history') /\ Increasing(history')
         /\ Usable' => published' = shows'
         /\ PublishedHolds(published', history') /\ AnswerHolds'
         /\ \A i \in 1..Len(history') : ContiguousAt(history', i)
         /\ VisibilityReceiptsHold(visibilityOperations', history')
         /\ TakeReceiptsHold(takeOperations', history')
         /\ CueReceiptsHold(cueOperations', history')
         /\ outcome = "committed" =>
              /\ Has(history', t, shows[t].rev + 1)
              /\ At(history', t, shows[t].rev + 1).op = op
              /\ At(history', t, shows[t].rev + 1).kind = kind
              /\ shows'[t].rev = shows[t].rev + 1 /\ quarantines'[t] = None
              /\ cue' = nextCue
         /\ outcome # "committed" => ~Usable'
<1> DEFINE snap == [rev |-> shows[t].rev + 1,
                    content |-> WithVisibility(shows[t].content, c, visible)]
           e == [op |-> op, intent |-> [target |-> t, component |-> c,
                                        visible |-> visible,
                                        expected |-> shows[t].rev],
                 kind |-> kind, targetRevision |-> snap.rev]
<1>0. TypeOK
  BY DEF ServiceInv, AuthorityInv
<1>1. shows[t].rev \in Nat /\ shows[t].content \in Contents /\ t[1] \in Shows
  BY <1>0 DEF TypeOK, ProcessTypes, Snapshots, Targets
<1>2. /\ snap \in Snapshots /\ snap.rev = shows[t].rev + 1
      /\ visible <=> c \notin snap.content.hidden
  <2>1. visible <=> c \notin WithVisibility(shows[t].content, c, visible).hidden
    BY <1>1 DEF WithVisibility, Contents
  <2>2. QED BY <1>1, <2>1, VisibilityType DEF Snapshots
<1>3. /\ CommitSnapshot(t, snap, kind, op, shows[t].rev, None, outcome)
      /\ PublishCommittedSnapshot(t, snap, outcome, nextCue, reply)
      /\ visibilityOperations' = RememberIf(outcome, visibilityOperations, t[1], e)
  BY DEF ApplyVisibility
<1>4. /\ IF outcome = "refused" THEN UNCHANGED history
         ELSE snap.rev = heads[t].rev + 1 /\ AppendRows(t, snap, kind, op, None)
      /\ outcome = "committed" =>
           AdoptCommit(t, snap) /\ quarantines' = [quarantines EXCEPT ![t] = None]
  BY <1>3 DEF CommitSnapshot, StoreAdmits, Adopted
<1>5. /\ e \in VisibilityReceipts
      /\ e.op = op /\ e.kind = kind /\ e.targetRevision = snap.rev
      /\ e.intent.target = t /\ e.intent.component = c /\ e.intent.visible = visible
      /\ e.intent.expected = shows[t].rev
  BY <1>1 DEF VisibilityReceipts, Intents
<1> HIDE DEF snap, e
<1>6. /\ Extends(history, history') /\ Increasing(history')
      /\ Usable' => published' = shows'
      /\ PublishedHolds(published', history') /\ AnswerHolds'
      /\ \A i \in 1..Len(history') : ContiguousAt(history', i)
      /\ outcome # "refused" =>
           /\ Has(history', t, snap.rev)
           /\ At(history', t, snap.rev) =
                [target |-> t, rev |-> snap.rev, content |-> snap.content,
                 kind |-> kind, op |-> op, prev |-> heads[t].index,
                 rejected |-> None]
  BY <1>2, <1>3, <1>4, CommitKeepsService
<1>7. /\ VisibilityReceiptsHold(visibilityOperations, history')
      /\ TakeReceiptsHold(takeOperations, history')
      /\ CueReceiptsHold(cueOperations, history')
  BY <1>6, OldReceiptsHold
<1>8. Adopted(outcome) => VisibilityIsDurable(history', e)
  <2>1. SUFFICES ASSUME outcome # "refused" PROVE VisibilityIsDurable(history', e)
    BY DEF Adopted
  <2>2. QED BY <1>2, <1>5, <1>6, <2>1 DEF VisibilityIsDurable
<1>9. VisibilityReceiptsHold(visibilityOperations', history')
  BY <1>0, <1>1, <1>3, <1>5, <1>7, <1>8, RememberedVisibilityHolds
  DEF TypeOK, OperationTypes
<1>10. outcome = "committed" =>
         /\ shows'[t].rev = shows[t].rev + 1 /\ quarantines'[t] = None
         /\ cue' = nextCue
  BY <1>0, <1>2, <1>3, <1>4 DEF AdoptCommit, PublishCommittedSnapshot, TypeOK,
                                ProcessTypes
<1>11. outcome # "committed" => ~Usable'
  BY <1>3 DEF PublishCommittedSnapshot, Usable
<1>12. QED BY <1>2, <1>6, <1>7, <1>9, <1>10, <1>11

\* executeVisibilityIntent.
LEMMA IntentKeepsService ==
  ASSUME ServiceInv, AuthorityInv', NEW s \in Shows, NEW outcome \in Outcomes,
         NEW bus \in Buses, NEW c \in Components, NEW visible \in BOOLEAN,
         NEW op \in ClientVisibilityOps, NEW expected \in Revisions,
         ExecuteVisibilityIntent(<<s, bus>>, c, visible, expected, op, outcome)
  PROVE  ServiceInv'
<1>1. PICK t \in Targets : t = <<s, bus>>
  BY DEF Targets
<1>2. op \in OpIds /\ "component.visibility" \in Kinds
  BY OperatorOps DEF ClientVisibilityOps, Kinds
<1>3. /\ Usable
      /\ ApplyVisibility(t, c, visible, op, "component.visibility", outcome, None,
                         PublicState(t[1], shows'))
      /\ UNCHANGED <<takeOperations, cueOperations>>
  BY <1>1 DEF ExecuteVisibilityIntent, Idle
<1>4. /\ Increasing(history')
      /\ Usable' => published' = shows'
      /\ PublishedHolds(published', history') /\ AnswerHolds'
      /\ \A i \in 1..Len(history') : ContiguousAt(history', i)
      /\ VisibilityReceiptsHold(visibilityOperations', history')
      /\ TakeReceiptsHold(takeOperations', history')
      /\ CueReceiptsHold(cueOperations', history')
      /\ outcome = "committed" => cue' = None
      /\ outcome # "committed" => ~Usable'
  BY <1>2, <1>3, VisibilityKeepsService
<1>5. CueInProgress'
  BY <1>4 DEF CueInProgress
<1>6. QED BY <1>4, <1>5 DEF ServiceInv

\* A cue's step: the one before it is the head it follows.
LEMMA CueStepKeepsService ==
  ASSUME ServiceInv, AuthorityInv', NEW outcome \in Outcomes, CueStep(outcome)
  PROVE  ServiceInv'
<1> DEFINE next == [cue EXCEPT !.completed = @ + 1]
<1>0. TypeOK /\ AuthorityInv /\ Increasing(history)
  BY DEF ServiceInv, AuthorityInv
<1>1. /\ cue \in CueRuns /\ cue.target \in Targets /\ cue.op \in Ops
      /\ cue.completed \in Nat /\ cue.steps \in Cues /\ cue.expected \in Nat
      /\ cue.completed < Len(cue.steps) /\ Usable /\ cue # None
  BY <1>0 DEF CueStep, TypeOK, ProcessTypes, CueRuns
<1>2. NextStep.component \in Components /\ NextStep.visible \in BOOLEAN
  <2>1. cue.steps \in Seq([component : Components, visible : BOOLEAN])
    BY <1>1, CueShape
  <2>2. cue.completed + 1 \in 1..Len(cue.steps)
    BY <1>1, <2>1
  <2>3. cue.steps[cue.completed + 1] \in [component : Components, visible : BOOLEAN]
    BY <2>1, <2>2, SeqElement
  <2>4. QED BY <2>3 DEF NextStep
<1>3. /\ CueStepOp \in OpIds /\ "cue.step" \in Kinds
      /\ CueStepOp = <<cue.op, cue.completed>>
  BY <1>1, OperatorOps DEF CueStepOp, Kinds, StepOp
<1>4. /\ ApplyVisibility(cue.target, NextStep.component, NextStep.visible,
                         CueStepOp, "cue.step", outcome, next, None)
      /\ UNCHANGED <<takeOperations, cueOperations>>
  BY DEF CueStep
<1>5. /\ Available(cue.target)
      /\ shows[cue.target].rev = cue.expected + cue.completed
      /\ StepsAreDurable(history, cue.target, cue.op, cue.expected, cue.completed)
      /\ cue.completed > 0 =>
           At(history, cue.target, cue.expected + cue.completed).kind = "cue.step"
  BY <1>1 DEF ServiceInv, CueInProgress
<1>6. CueStepOp[2] > 0 =>
        /\ heads[cue.target].index \in 1..Len(history)
        /\ history[heads[cue.target].index].kind = "cue.step"
        /\ history[heads[cue.target].index].op =
             StepOp(CueStepOp[1], CueStepOp[2] - 1)
  <2>1. SUFFICES ASSUME cue.completed > 0
        PROVE /\ heads[cue.target].index \in 1..Len(history)
              /\ history[heads[cue.target].index].kind = "cue.step"
              /\ history[heads[cue.target].index].op =
                   StepOp(cue.op, cue.completed - 1)
    BY <1>3
  <2>2. shows[cue.target].rev # 0
    BY <1>1, <1>5, <2>1
  <2>3. /\ heads[cue.target].index \in 1..Len(history)
        /\ At(history, cue.target, cue.expected + cue.completed) =
             history[heads[cue.target].index]
    BY <1>0, <1>1, <1>5, <2>2, MemoryIsRecord
  <2>4. cue.completed \in 1..cue.completed
    BY <1>1, <2>1
  <2>5. At(history, cue.target, cue.expected + cue.completed).op =
          StepOp(cue.op, cue.completed - 1)
    BY <1>5, <2>4 DEF StepsAreDurable
  <2>6. QED BY <1>5, <2>1, <2>3, <2>5
<1>7. PICK t \in Targets, op \in OpIds, c \in Components, visible \in BOOLEAN :
        /\ t = cue.target /\ op = CueStepOp
        /\ c = NextStep.component /\ visible = NextStep.visible
  BY <1>1, <1>2, <1>3
<1>8. /\ Extends(history, history') /\ Increasing(history')
      /\ Usable' => published' = shows'
      /\ PublishedHolds(published', history') /\ AnswerHolds'
      /\ \A i \in 1..Len(history') : ContiguousAt(history', i)
      /\ VisibilityReceiptsHold(visibilityOperations', history')
      /\ TakeReceiptsHold(takeOperations', history')
      /\ CueReceiptsHold(cueOperations', history')
      /\ outcome = "committed" =>
           /\ Has(history', t, shows[t].rev + 1)
           /\ At(history', t, shows[t].rev + 1).op = op
           /\ At(history', t, shows[t].rev + 1).kind = "cue.step"
           /\ shows'[t].rev = shows[t].rev + 1 /\ quarantines'[t] = None
           /\ cue' = next
      /\ outcome # "committed" => ~Usable'
  <2> HIDE DEF next
  <2>1. ApplyVisibility(t, c, visible, op, "cue.step", outcome, next, None)
    BY <1>4, <1>7
  <2>2. op[2] > 0 =>
          /\ heads[t].index \in 1..Len(history)
          /\ history[heads[t].index].kind = "cue.step"
          /\ history[heads[t].index].op = StepOp(op[1], op[2] - 1)
    BY <1>6, <1>7
  <2>3. Usable /\ "cue.step" \in Kinds /\ UNCHANGED <<takeOperations, cueOperations>>
    BY <1>1, <1>3, <1>4
  <2> QED BY <2>1, <2>2, <2>3, VisibilityKeepsService
<1>9. CueInProgress'
  <2>1. CASE outcome = "committed"
    <3>1. /\ cue'.target = t /\ cue'.op = cue.op /\ cue'.expected = cue.expected
          /\ cue'.completed = cue.completed + 1
      BY <1>1, <1>7, <1>8, <2>1 DEF CueRuns
    <3>2. StepsAreDurable(history', t, cue.op, cue.expected, cue.completed)
      BY <1>5, <1>7, <1>8, ReceiptsLast
    <3>3. shows[t].rev + 1 = cue.expected + (cue.completed + 1)
      BY <1>1, <1>5, <1>7
    <3>4. ASSUME NEW k \in 1..(cue.completed + 1)
          PROVE /\ Has(history', t, cue.expected + k)
                /\ At(history', t, cue.expected + k).op = StepOp(cue.op, k - 1)
      <4>1. CASE k = cue.completed + 1
        <5>1. Has(history', t, cue.expected + k)
          BY <1>8, <2>1, <3>3, <4>1
        <5>2. At(history', t, cue.expected + k).op = CueStepOp
          BY <1>7, <1>8, <2>1, <3>3, <4>1
        <5>3. k - 1 = cue.completed
          BY <1>1, <4>1
        <5>4. QED BY <5>1, <5>2, <5>3 DEF CueStepOp
      <4>2. CASE k # cue.completed + 1
        <5>1. k \in 1..cue.completed
          BY <1>1, <4>2
        <5>2. QED BY <3>2, <5>1 DEF StepsAreDurable
      <4>3. QED BY <4>1, <4>2
    <3>5. StepsAreDurable(history', t, cue.op, cue.expected, cue.completed + 1)
      BY <3>4 DEF StepsAreDurable
    <3>6. /\ quarantines'[t] = None /\ shows'[t].rev = cue.expected + (cue.completed + 1)
          /\ At(history', t, cue.expected + (cue.completed + 1)).kind = "cue.step"
      BY <1>8, <2>1, <3>3
    <3>7. QED BY <3>1, <3>5, <3>6 DEF CueInProgress, Available
  <2>2. CASE outcome # "committed"
    BY <1>8, <2>2 DEF CueInProgress
  <2>3. QED BY <2>1, <2>2
<1>10. QED BY <1>8, <1>9 DEF ServiceInv

\* A cue's receipt that counts its recorded steps is remembered with those
\* that hold.
LEMMA RememberedCueHolds ==
  ASSUME NEW map \in [Shows -> Seq(CueReceipts)], NEW h, NEW s \in Shows,
         NEW e \in CueReceipts, CueReceiptsHold(map, h),
         e.targetRevision = e.expected + e.completed,
         StepsAreDurable(h, e.target, e.op, e.expected, e.completed)
  PROVE  CueReceiptsHold([map EXCEPT ![s] = Remember(map[s], e)], h)
<1> DEFINE Holds(x) == /\ x.targetRevision = x.expected + x.completed
                       /\ StepsAreDurable(h, x.target, x.op, x.expected, x.completed)
<1>1. \A u \in Shows : \A i \in 1..Len(map[u]) : Holds(map[u][i])
  BY DEF CueReceiptsHold
<1>2. Holds(e)
  OBVIOUS
<1> HIDE DEF Holds
<1>3. ASSUME NEW i \in 1..Len(Remember(map[s], e))
      PROVE Holds(Remember(map[s], e)[i])
  BY <1>1, <1>2, RememberedElements
<1>4. ASSUME NEW u \in Shows,
             NEW i \in 1..Len([map EXCEPT ![s] = Remember(map[s], e)][u])
      PROVE Holds([map EXCEPT ![s] = Remember(map[s], e)][u][i])
  BY <1>1, <1>3
<1>5. QED BY <1>4 DEF CueReceiptsHold, Holds

\* Steps that leave history alone and forget at most all the receipts.
LEMMA QuietKeepsService ==
  ASSUME ServiceInv, AuthorityInv', history' = history,
         Usable' => published' = shows', PublishedHolds(published', history),
         AnswerHolds', CueInProgress',
         \/ UNCHANGED <<takeOperations, visibilityOperations, cueOperations>>
         \/ /\ takeOperations' = NoOperations
            /\ visibilityOperations' = NoOperations
            /\ cueOperations' = NoOperations
  PROVE  ServiceInv'
<1>1. /\ VisibilityReceiptsHold(NoOperations, history)
      /\ TakeReceiptsHold(NoOperations, history)
      /\ CueReceiptsHold(NoOperations, history)
  BY DEF NoOperations, VisibilityReceiptsHold, TakeReceiptsHold, CueReceiptsHold
<1>2. /\ VisibilityReceiptsHold(visibilityOperations', history)
      /\ TakeReceiptsHold(takeOperations', history)
      /\ CueReceiptsHold(cueOperations', history)
  BY <1>1 DEF ServiceInv
<1>3. Increasing(history') /\ \A i \in 1..Len(history') : ContiguousAt(history', i)
  BY DEF ServiceInv
<1>4. QED BY <1>2, <1>3 DEF ServiceInv

\* Steps that leave the process as it is, or stop it.
LEMMA StillKeepsService ==
  ASSUME ServiceInv, AuthorityInv', history' = history,
         UNCHANGED volatile \/ ForgetProcess
  PROVE  ServiceInv'
<1>1. CASE UNCHANGED volatile
  <2>1. UNCHANGED <<phase, shows, quarantines, cue, published, answer,
                    takeOperations, visibilityOperations, cueOperations>>
    BY <1>1 DEF volatile, operations
  <2>2. (Usable' => published' = shows') /\ AnswerHolds' /\ CueInProgress'
    BY <2>1 DEF ServiceInv, AnswerHolds, CueInProgress, Usable, Available
  <2>3. PublishedHolds(published', history)
    BY <2>1 DEF ServiceInv
  <2>4. QED BY <2>1, <2>2, <2>3, QuietKeepsService
<1>2. CASE ForgetProcess
  <2>1. (Usable' => published' = shows') /\ AnswerHolds' /\ CueInProgress'
    BY <1>2 DEF ForgetProcess, AnswerHolds, CueInProgress, Usable
  <2>2. PublishedHolds(published', history)
    BY <1>2 DEF ForgetProcess, PublishedHolds, EmptySnapshot
  <2>3. QED BY <1>2, <2>1, <2>2, QuietKeepsService DEF ForgetProcess
<1>3. QED BY <1>1, <1>2

\* executeCue and its receipt.
LEMMA CueCallKeepsService ==
  ASSUME ServiceInv, AuthorityInv', CueCall
  PROVE  ServiceInv'
<1>0. TypeOK
  BY DEF ServiceInv, AuthorityInv
<1>1. ASSUME NEW t \in Targets, NEW steps \in Cues, NEW op \in Ops,
             NEW expected \in Revisions, ExecuteCue(t, steps, expected, op)
      PROVE ServiceInv'
  <2>1. /\ history' = history /\ shows' = shows /\ published' = published
        /\ quarantines' = quarantines /\ answer' = None /\ phase = "usable"
        /\ phase' = phase /\ Available(t) /\ shows[t].rev = expected
        /\ UNCHANGED <<takeOperations, visibilityOperations, cueOperations>>
        /\ cue'.target = t /\ cue'.op = op /\ cue'.expected = expected
        /\ cue'.completed = 0
    BY <1>1 DEF ExecuteCue, Idle, Usable, durable, operations
  <2>2. (Usable' => published' = shows') /\ PublishedHolds(published', history)
    BY <2>1 DEF ServiceInv, Usable
  <2>3. AnswerHolds'
    BY <2>1 DEF AnswerHolds
  <2>4. StepsAreDurable(history', t, op, expected, 0)
    BY DEF StepsAreDurable
  <2>5. shows'[t].rev = expected + 0
    BY <2>1, ModelBounds DEF Revisions
  <2>6. CueInProgress'
    BY <2>1, <2>4, <2>5 DEF CueInProgress, Available
  <2>7. QED BY <2>1, <2>2, <2>3, <2>6, QuietKeepsService
<1>2. ASSUME NEW outcome \in Outcomes, CueStep(outcome) PROVE ServiceInv'
  BY <1>2, CueStepKeepsService
<1>3. ASSUME CueFinish PROVE ServiceInv'
  <2> DEFINE s == cue.target[1]
             e == [op |-> cue.op, target |-> cue.target, steps |-> cue.steps,
                   expected |-> cue.expected, completed |-> cue.completed,
                   targetRevision |-> shows[cue.target].rev]
  <2>1. /\ Usable /\ cue # None /\ cue \in CueRuns /\ cue.target \in Targets
        /\ history' = history /\ shows' = shows /\ published' = published
        /\ phase' = phase /\ cue' = None /\ answer' = PublicState(s, shows)
        /\ UNCHANGED <<takeOperations, visibilityOperations>>
        /\ cueOperations' = [cueOperations EXCEPT ![s] = Remember(cueOperations[s], e)]
    BY <1>0, <1>3 DEF CueFinish, durable, TypeOK, ProcessTypes, CueRuns
  <2>2. s \in Shows /\ shows[cue.target].rev \in Nat
    BY <1>0, <2>1 DEF Targets, TypeOK, ProcessTypes, Snapshots
  <2>3. e \in CueReceipts
    BY <2>1, <2>2 DEF CueRuns, CueReceipts
  <2>4. /\ e.targetRevision = e.expected + e.completed
        /\ StepsAreDurable(history, e.target, e.op, e.expected, e.completed)
    BY <2>1 DEF ServiceInv, CueInProgress
  <2>5. CueReceiptsHold(cueOperations, history)
          /\ cueOperations \in [Shows -> Seq(CueReceipts)]
    BY <1>0 DEF ServiceInv, TypeOK, OperationTypes
  <2>6. answer'.show = s
    BY <2>1 DEF PublicState
  <2> HIDE DEF e, s
  <2>7. CueReceiptsHold(cueOperations', history')
    BY <2>1, <2>2, <2>3, <2>4, <2>5, RememberedCueHolds
  <2>8. /\ Usable' => published' = shows'
        /\ PublishedHolds(published', history') /\ Increasing(history')
        /\ VisibilityReceiptsHold(visibilityOperations', history')
        /\ TakeReceiptsHold(takeOperations', history')
        /\ \A i \in 1..Len(history') : ContiguousAt(history', i)
    BY <2>1 DEF ServiceInv, Usable
  <2>9. AnswerHolds' /\ CueInProgress'
    BY <2>1, <2>6 DEF AnswerHolds, CueInProgress, Usable
  <2>10. QED BY <2>7, <2>8, <2>9 DEF ServiceInv
<1>4. QED BY <1>1, <1>2, <1>3 DEF CueCall

\* Commands of devices and the lifecycle of their credentials.
LEMMA DeviceKeepsService ==
  ASSUME ServiceInv, AuthorityInv', DeviceStep
  PROVE  ServiceInv'
<1>0. TypeOK
  BY DEF ServiceInv, AuthorityInv
<1>1. ASSUME NEW p \in Creds, NEW op \in Ops, NEW generation \in 1..MaxGeneration,
             NEW outcome \in Outcomes, NEW intent \in DeviceIntents,
             RejectDeviceCommand(p, generation, op, intent, outcome)
      PROVE ServiceInv'
  <2>1. /\ Idle /\ answer' = None
        /\ UNCHANGED <<history, shows, published, cue, takeOperations,
                       visibilityOperations, cueOperations>>
        /\ phase' = phase \/ phase' = "failed"
    BY <1>1 DEF RejectDeviceCommand, CommandAdmitted, operations
  <2>2. PublishedHolds(published', history)
    BY <2>1 DEF ServiceInv
  <2>3. (Usable' => published' = shows') /\ AnswerHolds' /\ CueInProgress'
    BY <2>1 DEF ServiceInv, AnswerHolds, CueInProgress, Usable, Idle
  <2>4. QED BY <2>1, <2>2, <2>3, QuietKeepsService
<1>2. ASSUME NEW p \in Creds, NEW op \in Ops, NEW generation \in 1..MaxGeneration,
             NEW outcome \in Outcomes, NEW intent \in DeviceIntents,
             ApplyDeviceCommand(p, generation, op, intent, outcome)
      PROVE ServiceInv'
  <2>1. intent.target \in Targets /\ intent.component \in Components
    BY DeviceIntentShape DEF Targets, Buses
  <2>2. PICK t \in Targets : t = intent.target
    BY <2>1
  <2> DEFINE snap == [rev |-> current[t].rev + 1,
                      content |-> WithVisibility(current[t].content,
                                    intent.component, intent.visible)]
  <2>3. current[t] \in Rows /\ current[t].rev \in Nat /\ current[t].content \in Contents
    BY <1>0, <1>2, <2>2 DEF ApplyDeviceCommand, CommandAdmitted, TypeOK, FileTypes, Rows
  <2>4. snap \in Snapshots
    BY <2>1, <2>3, VisibilityType DEF Snapshots
  <2>5. /\ Usable /\ current[t].rev = intent.expected
        /\ outcome # "refused" =>
             /\ StoreAdmits(t, intent.expected, None)
             /\ AppendRows(t, snap, "component.visibility", DeviceOp(op), None)
        /\ outcome = "refused" => UNCHANGED history
        /\ outcome = "committed" => AdoptCommit(t, snap)
        /\ PublishCommittedSnapshot(t, snap, outcome, None, PublicState(t[1], shows'))
        /\ UNCHANGED <<takeOperations, visibilityOperations, cueOperations>>
    BY <1>2, <2>2 DEF ApplyDeviceCommand, CommandAdmitted, Idle, Adopted, operations
  <2>6. snap.rev = intent.expected + 1
    BY <2>5
  <2> HIDE DEF snap
  <2>7. IF outcome = "refused" THEN UNCHANGED history
        ELSE /\ snap.rev = heads[t].rev + 1
             /\ AppendRows(t, snap, "component.visibility", DeviceOp(op), None)
    BY <2>5, <2>6 DEF StoreAdmits
  <2>8. DeviceOp(op) \in OpIds /\ "component.visibility" \in Kinds
    BY DEF DeviceOp, OpIds, Kinds
  <2>9. /\ Extends(history, history') /\ Increasing(history')
        /\ Usable' => published' = shows'
        /\ PublishedHolds(published', history') /\ AnswerHolds'
        /\ \A i \in 1..Len(history') : ContiguousAt(history', i)
    BY <2>4, <2>5, <2>7, <2>8, CommitKeepsService
  <2>10. /\ VisibilityReceiptsHold(visibilityOperations', history')
         /\ TakeReceiptsHold(takeOperations', history')
         /\ CueReceiptsHold(cueOperations', history')
    BY <2>5, <2>9, OldReceiptsHold
  <2>11. CueInProgress'
    BY <2>5 DEF CueInProgress, PublishCommittedSnapshot
  <2>12. QED BY <2>9, <2>10, <2>11 DEF ServiceInv
<1>3. ASSUME NEW p \in Creds, RotateCredential(p) \/ RevokeCredential(p)
      PROVE ServiceInv'
  BY <1>3, StillKeepsService DEF RotateCredential, RevokeCredential
<1>4. QED BY <1>1, <1>2, <1>3 DEF DeviceStep

\* A mount publishes what it restored, and it restores what is on record.
LEMMA MountKeepsService ==
  ASSUME ServiceInv, AuthorityInv', MountPersistence
  PROVE  ServiceInv'
<1>1. /\ history' = history /\ published' = shows' /\ phase = "down"
      /\ phase' = "usable" /\ quarantines' = quarantine'
      /\ UNCHANGED <<cue, answer, takeOperations, visibilityOperations, cueOperations>>
      /\ \A t \in Targets : quarantine'[t] = MountQuarantine(t)
      /\ \A t \in Targets : shows'[t].rev > 0 => MountQuarantine(t) = None
  BY DEF MountPersistence, operations, EmptySnapshot
<1>2. AuthorityInv /\ Increasing(history) /\ cue = None /\ answer = None
  BY <1>1 DEF ServiceInv, AnswerHolds
<1>3. ASSUME NEW t \in Targets, published'[t].rev > 0
      PROVE \E i \in 1..Len(history) :
              /\ history[i].target = t /\ history[i].rev = published'[t].rev
              /\ history[i].content = published'[t].content
  <2>1. quarantines'[t] = None
    BY <1>1, <1>3
  <2>2. shows'[t] = [rev |-> TargetHead(history, t).rev,
                     content |-> TargetHead(history, t).content]
    BY <1>1, <2>1 DEF AuthorityInv, MemoryIsDurableTruth, Usable, Available, Truth, HeadHash
  <2>3. TargetHead(history, t).rev # 0
    BY <1>1, <1>3, <2>2
  <2>4. LET head == TargetHead(history, t) IN
         /\ head.index \in 1..Len(history) /\ history[head.index].target = t
         /\ history[head.index].rev = head.rev
         /\ history[head.index].content = head.content
    BY <1>2, <2>3, HeadIsRecord
  <2>5. QED BY <1>1, <2>2, <2>4
<1>4. PublishedHolds(published', history)
  BY <1>3 DEF PublishedHolds
<1>5. AnswerHolds' /\ CueInProgress'
  BY <1>1, <1>2 DEF AnswerHolds, CueInProgress
<1>6. QED BY <1>1, <1>4, <1>5, QuietKeepsService

LEMMA StepsKeepService ==
  ASSUME ServiceInv, AuthorityInv', [Next]_vars
  PROVE  ServiceInv'
<1>1. ASSUME OperatorStep PROVE ServiceInv'
  BY <1>1, PlainCallsKeepService, TakeKeepsService, IntentKeepsService DEF OperatorStep
<1>2. ASSUME Lifetime PROVE ServiceInv'
  BY <1>2, MountKeepsService, StillKeepsService
  DEF Lifetime, Crash, MountInterrupted, durable
<1>3. ASSUME SnapshotDamage \/ JournalDamage PROVE ServiceInv'
  BY <1>3, StillKeepsService DEF SnapshotDamage, JournalDamage, DamageRow, DamageCommand
<1>4. ASSUME UNCHANGED vars PROVE ServiceInv'
  BY <1>4, StillKeepsService DEF vars, durable
<1>5. QED BY <1>1, <1>2, <1>3, <1>4, CueCallKeepsService, DeviceKeepsService DEF Next

LEMMA InitService ==
  ASSUME Init, AuthorityInv
  PROVE  ServiceInv
<1>1. Len(history) = 0 /\ history = << >>
  BY DEF Init
<1>2. Increasing(history) /\ \A i \in 1..Len(history) : ContiguousAt(history, i)
  BY <1>1 DEF Increasing
<1>3. /\ VisibilityReceiptsHold(visibilityOperations, history)
      /\ TakeReceiptsHold(takeOperations, history)
      /\ CueReceiptsHold(cueOperations, history)
  BY DEF Init, NoOperations, VisibilityReceiptsHold, TakeReceiptsHold, CueReceiptsHold
<1>4. PublishedHolds(published, history)
  BY DEF Init, PublishedHolds, EmptySnapshot
<1>5. (Usable => published = shows) /\ AnswerHolds /\ CueInProgress
  BY DEF Init, Usable, AnswerHolds, CueInProgress
<1>6. QED BY <1>2, <1>3, <1>4, <1>5 DEF ServiceInv
-----------------------------------------------------------------------------
\* The invariant holds in every state the authority reaches.
THEOREM ServiceInvariant == Spec => []ServiceInv
<1>1. AuthorityInv' /\ ServiceInv /\ [Next]_vars => ServiceInv'
  BY StepsKeepService
<1>2. Init /\ AuthorityInv => ServiceInv
  BY InitService
<1>3. QED BY <1>1, <1>2, AuthorityInvariant, PTL DEF Spec

LEMMA PublishedWhileUsable ==
  ASSUME ServiceInv PROVE PublishedIsCommitted
<1>1. Usable => \A t \in Targets : Available(t) => published[t] = Truth(t)
  BY DEF ServiceInv, AuthorityInv, MemoryIsDurableTruth
<1>2. QED BY <1>1 DEF ServiceInv, PublishedHolds, PublishedIsCommitted

\* Commit before publication: the channels never receive a snapshot that is
\* not on record, whatever outcome a commit has and wherever the process
\* dies, and of an available target they hold the current truth.
THEOREM PublicationFollowsCommit == Spec => []PublishedIsCommitted
<1>1. ServiceInv => PublishedIsCommitted
  BY PublishedWhileUsable
<1>2. QED BY <1>1, ServiceInvariant, PTL

LEMMA ServiceIsExact ==
  ASSUME ServiceInv PROVE ReceiptsAreExact
<1>1. \A t, rev : /\ HasRecord(t, rev) <=> Has(history, t, rev)
                  /\ RecordAt(t, rev) = At(history, t, rev)
  BY DEF HasRecord, Has, RecordAt, At
<1>2. VisibilityReceiptsAreDurable
  BY <1>1 DEF ServiceInv, VisibilityReceiptsHold, VisibilityIsDurable,
              VisibilityReceiptsAreDurable
<1>3. TakeReceiptsNameWhatWasTaken
  BY <1>1 DEF ServiceInv, TakeReceiptsHold, TakeIsDurable, TakeReceiptsNameWhatWasTaken
<1>4. CueReceiptsAreExact
  BY <1>1 DEF ServiceInv, CueReceiptsHold, StepsAreDurable, CueReceiptsAreExact
<1>5. CueStepsAreContiguous
  BY DEF ServiceInv, ContiguousAt, CueStepsAreContiguous
<1>6. AnswersAreDurableTruth
  <2>1. SUFFICES ASSUME Usable, answer # None
        PROVE /\ Available(<<answer.show, "preview">>) =>
                   answer.preview = Truth(<<answer.show, "preview">>)
              /\ Available(<<answer.show, "program">>) =>
                   answer.program = Truth(<<answer.show, "program">>)
    BY DEF AnswersAreDurableTruth
  <2>2. answer.show \in Shows
    BY <2>1 DEF ServiceInv, AuthorityInv, TypeOK, ProcessTypes
  <2>3. <<answer.show, "preview">> \in Targets /\ <<answer.show, "program">> \in Targets
    BY <2>2 DEF Targets, Buses
  <2>4. \A t \in Targets : Available(t) => shows[t] = Truth(t)
    BY <2>1 DEF ServiceInv, AuthorityInv, MemoryIsDurableTruth
  <2>5. /\ answer.preview = shows[<<answer.show, "preview">>]
        /\ answer.program = shows[<<answer.show, "program">>]
    BY <2>1 DEF ServiceInv, AnswerHolds, PublicState
  <2>6. QED BY <2>3, <2>4, <2>5
<1>7. QED BY <1>2, <1>3, <1>4, <1>5, <1>6 DEF ReceiptsAreExact

\* Every receipt the service would replay names durable records with the
\* operation and effect it reports, a cue's steps directly follow one another
\* and answers show history, however commits end and wherever a cue is cut.
THEOREM ReplaysAreExact == Spec => []ReceiptsAreExact
<1>1. ServiceInv => ReceiptsAreExact
  BY ServiceIsExact
<1>2. QED BY <1>1, ServiceInvariant, PTL
===============================================================================
