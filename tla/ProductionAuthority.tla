------------------------ MODULE ProductionAuthority ------------------------
(***************************************************************************)
(* The durable production authority: ProductionService (the in-memory      *)
(* truth of every Show's Preview and Program) over                         *)
(* SqliteProductionStateStore (history, current rows, quarantines and the  *)
(* command journal in one SQLite file).                                    *)
(*                                                                         *)
(* Every method of the two classes is synchronous, so on the one           *)
(* JavaScript thread an operation is one action.  What makes the protocol  *)
(* hard is what can happen between and inside operations: a commit whose   *)
(* outcome is unknown, a process death at any point (also between the      *)
(* steps of a cue and between the rows a mount quarantines), rows damaged  *)
(* while the process is down, identifiers replayed after their volatile    *)
(* memory is gone, and devices that present a superseded authority.        *)
(*                                                                         *)
(* A hash is modelled as the identity of what it hashes.  Operations that  *)
(* are refused leave no trace and are therefore not actions.               *)
(***************************************************************************)
EXTENDS Integers, Sequences, FiniteSets

CONSTANTS
  Shows,              \* Show identifiers
  Scenes,             \* scenes an operator can load
  Components,         \* component identifiers
  ComponentsOf,       \* [Scenes -> SUBSET Components], each id unique in its scene
  Values,             \* what the scene variables can hold
  Ops,                \* operation identifiers a client may send
  Cues,               \* step lists: sequences of [component, visible]
  Creds,              \* device credentials
  DeviceIntents,      \* visibility intents a device may send
  None,               \* "null"
  Tampered,           \* the hash of a payload that matches no snapshot
  MaxOperations,      \* receipts remembered per Show and kind (100 in the code)
  MaxCommandsPerShow, \* maxCommandsPerShow
  MaxCommandsGlobal,  \* maxCommandsGlobal
  MaxHistory,         \* bound: history records
  MaxGeneration       \* bound: credential generations

ASSUME OperationBound == MaxOperations \in Nat \ {0}
ASSUME CommandBounds == /\ MaxCommandsPerShow \in Nat \ {0}
                        /\ MaxCommandsGlobal \in Nat \ {0}
                        /\ MaxCommandsPerShow <= MaxCommandsGlobal
ASSUME ModelBounds == MaxHistory \in Nat /\ MaxGeneration \in Nat
ASSUME SceneShape == ComponentsOf \in [Scenes -> SUBSET Components]
ASSUME CueShape ==
  Cues \subseteq Seq([component : Components, visible : BOOLEAN])
ASSUME DeviceIntentShape ==
  DeviceIntents \subseteq [target : Shows \X {"preview", "program"},
                           component : Components, visible : BOOLEAN,
                           expected : Nat]

Buses == {"preview", "program"}
Targets == Shows \X Buses

(***************************************************************************)
(* A snapshot's content: the scene, which components runtime visibility    *)
(* hides, and the variables its controls write.                            *)
(***************************************************************************)
Contents == [scene : Scenes \cup {None}, hidden : SUBSET Components,
             vars : Values \cup {None}]
Snapshots == [rev : Nat, content : Contents]
EmptyContent == [scene |-> None, hidden |-> {}, vars |-> None]
EmptySnapshot == [rev |-> 0, content |-> EmptyContent]

\* The operation identifiers history may carry: a client's, a cue step's
\* (`${operationId}:step:${index}`) or the domain-separated hash of a
\* device's.
StepOp(op, i) == <<op, i>>
DeviceOp(op) == <<"device", op>>
OpIds == Ops \cup (Ops \X Nat) \cup ({"device"} \X Ops) \cup {None}

Kinds == {"preview.load", "preview.controls", "program.take",
          "component.visibility", "cue.step",
          "quarantine.restore", "quarantine.reset"}
RecoveryKinds == {"quarantine.restore", "quarantine.reset"}

Hashes == Snapshots \cup {Tampered}
Records == [target : Targets, rev : Nat, content : Contents, kind : Kinds,
            op : OpIds, prev : Nat, rejected : Hashes \cup {None}]
Rows == [rev : Nat, content : Contents, form : {"ok", "tampered", "unparseable"}]
Quarantines == [rev : Nat, rejected : Hashes]
Intents == [target : Targets, component : Components, visible : BOOLEAN,
            expected : Nat]
Commands == [principal : Creds, op : Ops, intent : Intents, generation : Nat,
             status : {"applied", "rejected"}, previous : Nat,
             resulting : Nat, content : Contents]

TakeReceipts == [op : Ops, previewRevision : Nat, programRevision : Nat]
ControlReceipts == [op : Ops, expected : Nat, value : Values]
VisibilityReceipts == [op : OpIds, intent : Intents, kind : Kinds,
                       targetRevision : Nat]
CueReceipts == [op : Ops, target : Targets, steps : Cues, expected : Nat,
                completed : Nat, targetRevision : Nat]
CueRuns == [op : Ops, target : Targets, steps : Cues, expected : Nat,
            completed : Nat]

\* null is no value of any kind, and no snapshot hashes to a tampered payload.
ASSUME NoneDistinct ==
  /\ None \notin Scenes /\ None \notin Values /\ None \notin Ops
  /\ None \notin Hashes /\ None \notin Rows /\ None \notin Quarantines
  /\ None \notin CueRuns /\ Tampered \notin Snapshots

\* The hash of a device's operation has a domain of its own.
ASSUME DeviceOpsDistinct ==
  \A op \in Ops : DeviceOp(op) \notin Ops \cup (Ops \X Nat) \cup {None}

VARIABLES
  \* the SQLite file
  history,            \* production_history in globalSequence order
  current,            \* production_current_snapshots: target -> row or None
  quarantine,         \* production_quarantines: target -> row or None
  commands,           \* production_commands in globalSequence order
  brokenCommands,     \* indices of command rows damaged behind our back
  commandQuarantine,  \* production_command_quarantines: Shows
  credential,         \* device_credentials: credential -> [generation, revoked]
  \* the process
  phase,              \* "down" | "usable" | "failed" (authorityFailure set)
  heads,              \* targetHeads: target -> [index, rev, content]
  globalSequence,     \* the store's own idea of Len(history)
  commandSequence,    \* the store's own idea of Len(commands)
  shows,              \* in-memory truth: target -> snapshot
  quarantines,        \* the service's map: target -> quarantine or None
  takeOperations, controlOperations, visibilityOperations, cueOperations,
                      \* Show -> remembered operations, oldest first
  cue,                \* the executeCue call in progress, or None
  published,          \* target -> snapshot the channels last received
  answer              \* the ProductionState the last call returned, or None

durable == <<history, current, quarantine, commands, brokenCommands,
             commandQuarantine, credential>>
operations == <<takeOperations, controlOperations, visibilityOperations,
                cueOperations>>
volatile == <<phase, heads, globalSequence, commandSequence, shows,
              quarantines, operations, cue, published, answer>>
vars == <<durable, volatile>>
-----------------------------------------------------------------------------
(***************************************************************************)
(* History.  Each record names the record it follows on its target: prev   *)
(* stands for previousTargetHash, the position for globalSequence and      *)
(* previousGlobalHash.                                                     *)
(***************************************************************************)
IsHead(h, t, i) ==
  /\ i \in 0..Len(h)
  /\ i > 0 => h[i].target = t
  /\ \A j \in 1..Len(h) : j > i => h[j].target # t

HeadIndex(h, t) == CHOOSE i \in 0..Len(h) : IsHead(h, t, i)

\* The head of target t as verifyHistory derives it from the rows.
TargetHead(h, t) ==
  LET i == HeadIndex(h, t)
  IN  [index |-> i,
       rev |-> IF i = 0 THEN 0 ELSE h[i].rev,
       content |-> IF i = 0 THEN EmptyContent ELSE h[i].content]

\* The checks of verifyHistory: every record follows the latest earlier
\* record of its target and advances its revision by one.
VerifyHistory(h) ==
  \A i \in 1..Len(h) :
    /\ h[i].prev \in 0..(i - 1)
    /\ h[i].prev > 0 => h[h[i].prev].target = h[i].target
    /\ \A j \in 1..(i - 1) : j > h[i].prev => h[j].target # h[i].target
    /\ h[i].rev = (IF h[i].prev = 0 THEN 0 ELSE h[h[i].prev].rev) + 1

(***************************************************************************)
(* Remembered operations: a Map of bounded size that forgets its oldest.   *)
(***************************************************************************)
Remembered(s, op) == \E i \in 1..Len(s) : s[i].op = op

Remember(s, entry) ==
  IF Len(s) < MaxOperations THEN Append(s, entry) ELSE Append(Tail(s), entry)

NoOperations == [s \in Shows |-> << >>]
-----------------------------------------------------------------------------
Usable == phase = "usable"
Idle == Usable /\ cue = None
Available(t) == quarantines[t] = None

\* elementsWithVisibility succeeds when the component is in the snapshot.
HasComponent(content, c) ==
  content.scene # None /\ c \in ComponentsOf[content.scene]

WithVisibility(content, c, visible) ==
  [content EXCEPT !.hidden = IF visible THEN @ \ {c} ELSE @ \cup {c}]

\* The combined ProductionState an operation answers with.
PublicState(s, mem) ==
  [show |-> s, preview |-> mem[<<s, "preview">>],
   program |-> mem[<<s, "program">>]]

(***************************************************************************)
(* The checks SqliteProductionStateStore.commit makes before it writes,    *)
(* against its own heads and against the rows.                             *)
(***************************************************************************)
StoreAdmits(t, expected, rejected) ==
  /\ heads[t].rev = expected
  /\ IF quarantine[t] = None
     THEN /\ rejected = None
          /\ IF current[t] = None THEN expected = 0
                                  ELSE current[t].rev = expected
     ELSE rejected = quarantine[t].rejected

\* The rows one mutation writes, in one transaction.
AppendRows(t, snap, kind, op, rejected) ==
  /\ history' = Append(history,
       [target |-> t, rev |-> snap.rev, content |-> snap.content,
        kind |-> kind, op |-> op, prev |-> heads[t].index,
        rejected |-> rejected])
  /\ current' = [current EXCEPT ![t] =
       [rev |-> snap.rev, content |-> snap.content, form |-> "ok"]]
  /\ quarantine' = [quarantine EXCEPT ![t] = None]

\* Fault: the store's target head is not advanced.
AdoptCommitKeepingHead(t, snap) ==
  /\ globalSequence' = globalSequence + 1
  /\ shows' = [shows EXCEPT ![t] = snap]
  /\ UNCHANGED heads

\* What the store and the service remember once COMMIT has returned.
AdoptCommit(t, snap) ==
  /\ globalSequence' = globalSequence + 1
  /\ heads' = [heads EXCEPT ![t] = [index |-> globalSequence + 1,
                                    rev |-> snap.rev,
                                    content |-> snap.content]]
  /\ shows' = [shows EXCEPT ![t] = snap]

(***************************************************************************)
(* How a commit can end.  "refused": the transaction rolled back (the only *)
(* end when the store does not admit it).  "uncertain": it is durable but  *)
(* COMMIT, or what follows it, threw.  "unpublished": committed and        *)
(* adopted, but publishing it threw.  All three run failAuthority: the     *)
(* authority is unusable for good and the call throws.                     *)
(***************************************************************************)
Outcomes == {"committed", "refused", "uncertain", "unpublished"}
Adopted(outcome) == outcome \in {"committed", "unpublished"}

CommitSnapshot(t, snap, kind, op, expected, rejected, outcome) ==
  /\ Len(history) < MaxHistory
  /\ IF outcome = "refused"
     THEN UNCHANGED <<history, current, quarantine>>
     ELSE /\ snap.rev = expected + 1
          /\ StoreAdmits(t, expected, rejected)
          /\ AppendRows(t, snap, kind, op, rejected)
  /\ IF Adopted(outcome)
     THEN /\ AdoptCommit(t, snap)
          /\ quarantines' = [quarantines EXCEPT ![t] = None]
     ELSE UNCHANGED <<heads, globalSequence, shows, quarantines>>
  /\ UNCHANGED <<commands, brokenCommands, commandQuarantine, credential,
                 commandSequence>>

\* Fault: a commit of unknown outcome is answered as if it had failed cleanly.
PublishIgnoringUncertainty(t, snap, outcome, nextCue, reply) ==
  /\ published' = IF outcome = "committed" THEN [published EXCEPT ![t] = snap]
                                           ELSE published
  /\ phase' = IF outcome = "unpublished" THEN "failed" ELSE phase
  /\ cue' = IF outcome = "committed" THEN nextCue ELSE None
  /\ answer' = IF outcome = "committed" THEN reply ELSE None

\* Fault: publication does not wait for the commit.
PublishBeforeCommit(t, snap, outcome, nextCue, reply) ==
  /\ published' = [published EXCEPT ![t] = snap]
  /\ phase' = IF outcome = "committed" THEN phase ELSE "failed"
  /\ cue' = IF outcome = "committed" THEN nextCue ELSE None
  /\ answer' = IF outcome = "committed" THEN reply ELSE None

\* publishCommittedSnapshot, and how the call ends: with a reply, or by
\* throwing.
PublishCommittedSnapshot(t, snap, outcome, nextCue, reply) ==
  IF outcome = "committed"
  THEN /\ published' = [published EXCEPT ![t] = snap]
       /\ phase' = phase /\ cue' = nextCue /\ answer' = reply
  ELSE /\ phase' = "failed" /\ cue' = None /\ answer' = None
       /\ UNCHANGED published

\* A mutation of Show t[1] that answers with its combined state.
Mutate(t, snap, kind, op, outcome) ==
  /\ CommitSnapshot(t, snap, kind, op, shows[t].rev, None, outcome)
  /\ PublishCommittedSnapshot(t, snap, outcome, None, PublicState(t[1], shows'))

\* The in-memory map of a Show after a commit that may not have been adopted.
RememberIf(outcome, map, s, entry) ==
  IF Adopted(outcome) THEN [map EXCEPT ![s] = Remember(@, entry)] ELSE map
-----------------------------------------------------------------------------
(***************************************************************************)
(* Operations of ProductionService.                                        *)
(***************************************************************************)
LoadPreview(s, scene, v, outcome) ==
  LET t == <<s, "preview">> IN
  /\ Idle /\ Available(t)
  /\ Mutate(t, [rev |-> shows[t].rev + 1,
                content |-> [scene |-> scene, hidden |-> {}, vars |-> v]],
            "preview.load", None, outcome)
  /\ UNCHANGED operations

\* The operation is new, and its expected revision is Preview's.
Take(s, expected, op, outcome) ==
  LET preview == <<s, "preview">>
      program == <<s, "program">>
      snap == [rev |-> shows[program].rev + 1,
               content |-> shows[preview].content] IN
  /\ Idle /\ Available(preview) /\ Available(program)
  /\ ~Remembered(takeOperations[s], op)
  /\ shows[preview].rev # 0 /\ shows[preview].content.scene # None
  /\ shows[preview].rev = expected
  /\ Mutate(program, snap, "program.take", op, outcome)
  /\ takeOperations' = RememberIf(outcome, takeOperations, s,
       [op |-> op, previewRevision |-> expected,
        programRevision |-> snap.rev])
  /\ UNCHANGED <<controlOperations, visibilityOperations, cueOperations>>

ApplyPreviewControls(s, expected, op, v, outcome) ==
  LET t == <<s, "preview">>
      snap == [rev |-> shows[t].rev + 1,
               content |-> [shows[t].content EXCEPT !.vars = v]] IN
  /\ Idle /\ Available(t)
  /\ ~Remembered(controlOperations[s], op)
  /\ shows[t].rev # 0 /\ shows[t].content.scene # None
  /\ shows[t].rev = expected
  /\ ComponentsOf[shows[t].content.scene] # {}  \* a control is declared
  /\ Mutate(t, snap, "preview.controls", op, outcome)
  /\ controlOperations' = RememberIf(outcome, controlOperations, s,
       [op |-> op, expected |-> expected, value |-> v])
  /\ UNCHANGED <<takeOperations, visibilityOperations, cueOperations>>

\* The part of executeVisibilityIntent a cue step shares.
ApplyVisibility(t, c, visible, op, kind, outcome, nextCue, reply) ==
  LET snap == [rev |-> shows[t].rev + 1,
               content |-> WithVisibility(shows[t].content, c, visible)] IN
  /\ CommitSnapshot(t, snap, kind, op, shows[t].rev, None, outcome)
  /\ PublishCommittedSnapshot(t, snap, outcome, nextCue, reply)
  /\ visibilityOperations' = RememberIf(outcome, visibilityOperations, t[1],
       [op |-> op, intent |-> [target |-> t, component |-> c,
                               visible |-> visible,
                               expected |-> shows[t].rev],
        kind |-> kind, targetRevision |-> snap.rev])

ExecuteVisibilityIntent(t, c, visible, expected, op, outcome) ==
  /\ Idle /\ Available(t)
  /\ ~Remembered(visibilityOperations[t[1]], op)
  /\ shows[t].rev # 0 /\ shows[t].rev = expected
  /\ HasComponent(shows[t].content, c)
  /\ ApplyVisibility(t, c, visible, op, "component.visibility", outcome,
                     None, PublicState(t[1], shows'))
  /\ UNCHANGED <<takeOperations, controlOperations, cueOperations>>

(***************************************************************************)
(* executeCue: the call holds the thread while it runs its steps, but      *)
(* every step commits on its own, so the process can die between two.      *)
(***************************************************************************)
ExecuteCue(t, steps, expected, op) ==
  /\ Idle /\ Available(t)
  /\ ~Remembered(cueOperations[t[1]], op)
  /\ shows[t].rev # 0 /\ shows[t].content.scene # None
  /\ shows[t].rev = expected
  /\ cue' = [target |-> t, steps |-> steps, expected |-> expected,
             op |-> op, completed |-> 0]
  /\ answer' = None
  /\ UNCHANGED <<durable, phase, heads, globalSequence, commandSequence,
                 shows, quarantines, operations, published>>

\* Fault: steps counted from one.
CueStepOpFromOne == StepOp(cue.op, cue.completed + 1)
CueStepOp == StepOp(cue.op, cue.completed)
NextStep == cue.steps[cue.completed + 1]

\* A step the visibility intent refuses: the identifier is taken or the
\* component is missing.
StepRefused ==
  \/ Remembered(visibilityOperations[cue.target[1]], CueStepOp)
  \/ ~HasComponent(shows[cue.target].content, NextStep.component)

CueStep(outcome) ==
  /\ Usable /\ cue # None
  /\ cue.completed < Len(cue.steps)
  /\ ~StepRefused
  /\ ApplyVisibility(cue.target, NextStep.component, NextStep.visible,
       CueStepOp, "cue.step", outcome, [cue EXCEPT !.completed = @ + 1], None)
  /\ UNCHANGED <<takeOperations, controlOperations, cueOperations>>

\* The receipt, after the last step or at the first refused one.
CueFinish ==
  /\ Usable /\ cue # None
  /\ cue.completed < Len(cue.steps) => StepRefused
  /\ cueOperations' = [cueOperations EXCEPT ![cue.target[1]] = Remember(@,
       [op |-> cue.op, target |-> cue.target, steps |-> cue.steps,
        expected |-> cue.expected, completed |-> cue.completed,
        targetRevision |-> shows[cue.target].rev])]
  /\ cue' = None
  /\ answer' = PublicState(cue.target[1], shows)
  /\ UNCHANGED <<durable, phase, heads, globalSequence, commandSequence,
                 shows, quarantines, takeOperations, controlOperations,
                 visibilityOperations, published>>

\* recoverTarget: the successor of the quarantined revision, bound to the
\* rejected hash.  It answers with the one recovered snapshot.
RecoverTarget(t, mode, scene, v, op, outcome) ==
  LET q == quarantines[t]
      content == IF mode = "quarantine.reset" THEN EmptyContent
                 ELSE [scene |-> scene, hidden |-> {}, vars |-> v]
      snap == [rev |-> q.rev + 1, content |-> content] IN
  /\ Idle /\ q # None
  /\ CommitSnapshot(t, snap, mode, op, q.rev, q.rejected, outcome)
  /\ PublishCommittedSnapshot(t, snap, outcome, None, None)
  /\ UNCHANGED operations
-----------------------------------------------------------------------------
(***************************************************************************)
(* executeDeviceVisibilityCommand over the durable journal.  The device    *)
(* presents the authority (generation) it was bound to earlier, which may  *)
(* have been superseded.                                                   *)
(***************************************************************************)
\* Fault: a generation the credential once had is still good.
AuthorityWasCurrent(p, generation) ==
  credential[p].generation >= generation /\ ~credential[p].revoked

\* assertCurrentDeviceAuthority: revoked also stands for expired.
AuthorityIsCurrent(p, generation) ==
  credential[p].generation = generation /\ ~credential[p].revoked

Journalled(p, op) ==
  \E i \in 1..Len(commands) : commands[i].principal = p /\ commands[i].op = op

CommandsOfShow(s) == {i \in 1..Len(commands) : commands[i].intent.target[1] = s}

\* assertCommandCapacity
CommandCapacity(s) ==
  /\ commandSequence < MaxCommandsGlobal
  /\ Cardinality(CommandsOfShow(s)) < MaxCommandsPerShow

\* What must hold for a command to reach the journal as a new record.
CommandAdmitted(p, generation, op, t) ==
  /\ Idle /\ Available(t)
  /\ AuthorityIsCurrent(p, generation)
  /\ t[1] \notin commandQuarantine
  /\ ~Journalled(p, op)
  /\ CommandCapacity(t[1])
  /\ current[t] # None

\* storedSnapshot: the row is intact and is the head's.
StoredSnapshot(t) ==
  /\ current[t].form # "tampered"
  /\ heads[t].rev = current[t].rev /\ heads[t].content = current[t].content

\* Fault: the record names the revision the command found, not its result.
JournalPrevious(p, generation, op, intent, status, previous, snap) ==
  commands' = Append(commands,
    [principal |-> p, op |-> op, intent |-> intent,
     generation |-> generation, status |-> status, previous |-> previous,
     resulting |-> previous, content |-> snap.content])

JournalCommand(p, generation, op, intent, status, previous, snap) ==
  commands' = Append(commands,
    [principal |-> p, op |-> op, intent |-> intent,
     generation |-> generation, status |-> status, previous |-> previous,
     resulting |-> snap.rev, content |-> snap.content])

\* The command expected another revision: the refusal itself is journalled.
RejectDeviceCommand(p, generation, op, intent, outcome) ==
  LET row == current[intent.target] IN
  /\ outcome # "unpublished"
  /\ CommandAdmitted(p, generation, op, intent.target)
  /\ row.rev # intent.expected
  /\ IF outcome = "refused" THEN UNCHANGED commands
     ELSE /\ StoredSnapshot(intent.target)
          /\ JournalCommand(p, generation, op, intent, "rejected", row.rev, row)
  /\ commandSequence' = IF outcome = "committed" THEN commandSequence + 1
                                                 ELSE commandSequence
  /\ phase' = IF outcome = "committed" THEN phase ELSE "failed"
  /\ answer' = None
  /\ UNCHANGED <<history, current, quarantine, brokenCommands,
                 commandQuarantine, credential, heads, globalSequence,
                 shows, quarantines, operations, cue, published>>

ApplyDeviceCommand(p, generation, op, intent, outcome) ==
  LET t == intent.target
      row == current[t]
      snap == [rev |-> row.rev + 1,
               content |-> WithVisibility(row.content, intent.component,
                                          intent.visible)] IN
  /\ CommandAdmitted(p, generation, op, t)
  /\ row.rev = intent.expected
  /\ Len(history) < MaxHistory
  /\ HasComponent(row.content, intent.component)
  /\ IF outcome = "refused"
     THEN UNCHANGED <<history, current, quarantine, commands>>
     ELSE \* memory and durable truth agree, or the candidate fails the
          \* authority; then the snapshot rows and the command record
          \* are one transaction
          /\ StoredSnapshot(t)
          /\ shows[t] = [rev |-> row.rev, content |-> row.content]
          /\ StoreAdmits(t, intent.expected, None)
          /\ AppendRows(t, snap, "component.visibility", DeviceOp(op), None)
          /\ JournalCommand(p, generation, op, intent, "applied", row.rev, snap)
  /\ IF Adopted(outcome)
     THEN AdoptCommit(t, snap) /\ commandSequence' = commandSequence + 1
     ELSE UNCHANGED <<heads, globalSequence, shows, commandSequence>>
  /\ PublishCommittedSnapshot(t, snap, outcome, None, PublicState(t[1], shows'))
  /\ UNCHANGED <<brokenCommands, commandQuarantine, credential, quarantines,
                 operations>>

\* The credential lifecycle, on the same database connection.
RotateCredential(p) ==
  /\ phase # "down" /\ cue = None
  /\ ~credential[p].revoked /\ credential[p].generation < MaxGeneration
  /\ credential' = [credential EXCEPT ![p].generation = @ + 1]
  /\ UNCHANGED <<history, current, quarantine, commands, brokenCommands,
                 commandQuarantine, volatile>>

RevokeCredential(p) ==
  /\ phase # "down" /\ cue = None
  /\ ~credential[p].revoked
  /\ credential' = [credential EXCEPT ![p].revoked = TRUE]
  /\ UNCHANGED <<history, current, quarantine, commands, brokenCommands,
                 commandQuarantine, volatile>>
-----------------------------------------------------------------------------
(***************************************************************************)
(* Process death, damage to rows while the process is down, and mount.     *)
(***************************************************************************)
ForgetProcess ==
  /\ phase' = "down"
  /\ heads' = [t \in Targets |-> [index |-> 0, rev |-> 0,
                                  content |-> EmptyContent]]
  /\ globalSequence' = 0 /\ commandSequence' = 0
  /\ shows' = [t \in Targets |-> EmptySnapshot]
  /\ quarantines' = [t \in Targets |-> None]
  /\ takeOperations' = NoOperations /\ controlOperations' = NoOperations
  /\ visibilityOperations' = NoOperations /\ cueOperations' = NoOperations
  /\ cue' = None /\ answer' = None
  /\ published' = [t \in Targets |-> EmptySnapshot]

Crash == phase # "down" /\ ForgetProcess /\ UNCHANGED durable

\* A row is lost, damaged, no longer accepted by the parser, or an older one.
DamageRow(t) ==
  /\ phase = "down" /\ current[t] # None
  /\ \/ current' = [current EXCEPT ![t] = None]
     \/ \E form \in {"tampered", "unparseable"} :
          current' = [current EXCEPT ![t].form = form]
     \/ \E i \in 1..Len(history) :
          /\ history[i].target = t
          /\ current' = [current EXCEPT ![t] =
               [rev |-> history[i].rev, content |-> history[i].content,
                form |-> "ok"]]
  /\ UNCHANGED <<history, quarantine, commands, brokenCommands,
                 commandQuarantine, credential, volatile>>

DamageCommand(i) ==
  /\ phase = "down" /\ i \in 1..Len(commands)
  /\ brokenCommands' = brokenCommands \cup {i}
  /\ UNCHANGED <<history, current, quarantine, commands, commandQuarantine,
                 credential, volatile>>

\* The hash of a row as it is read, and the issue load() finds with it.
RowHash(row) == IF row.form = "tampered" THEN Tampered
                ELSE [rev |-> row.rev, content |-> row.content]
HeadHash(t) == LET head == TargetHead(history, t)
               IN  [rev |-> head.rev, content |-> head.content]

\* The rejected hash with which a mount quarantines a target it cannot use:
\* no current row, a row that is not the head's, or one parseStoredSnapshot
\* rejects.
Rejected(t) ==
  IF TargetHead(history, t).index = 0 THEN None
  ELSE IF current[t] = None THEN HeadHash(t)
  ELSE IF RowHash(current[t]) # HeadHash(t) THEN RowHash(current[t])
  ELSE IF current[t].form = "unparseable" THEN RowHash(current[t])
  ELSE None

\* Fault: the quarantine takes the rejected row's revision, not the head's.
MountQuarantineAtRowRevision(t) ==
  IF quarantine[t] # None THEN quarantine[t]
  ELSE IF Rejected(t) = None THEN None
  ELSE [rev |-> IF current[t] = None THEN TargetHead(history, t).rev
                                     ELSE current[t].rev,
        rejected |-> Rejected(t)]

\* Fault: quarantines are derived anew at every start.
MountQuarantineAfresh(t) ==
  IF Rejected(t) = None THEN None
  ELSE [rev |-> TargetHead(history, t).rev, rejected |-> Rejected(t)]

\* Every quarantine a mount ends with; persisted ones stand.
MountQuarantine(t) ==
  IF quarantine[t] # None THEN quarantine[t]
  ELSE IF Rejected(t) # None
  THEN [rev |-> TargetHead(history, t).rev, rejected |-> Rejected(t)]
  ELSE None

\* A command is bound to the history record of its resulting revision.
CommandBound(i) ==
  LET c == commands[i] IN
  \E j \in 1..Len(history) :
    /\ history[j].target = c.intent.target
    /\ history[j].rev = c.resulting
    /\ history[j].content = c.content
    /\ c.status = "applied" =>
         /\ history[j].kind = "component.visibility"
         /\ history[j].op = DeviceOp(c.op)

\* verifyCommandJournal: the Shows of damaged or unbound commands.
VerifyCommandJournal ==
  commandQuarantine \cup
  {commands[i].intent.target[1] : i \in
     {k \in 1..Len(commands) : k \in brokenCommands \/ ~CommandBound(k)}}

\* The checks of load() whose failure aborts startup.
LoadAccepts ==
  /\ VerifyHistory(history)
  /\ \A t \in Targets :
       /\ quarantine[t] # None =>
            quarantine[t].rev = TargetHead(history, t).rev
       /\ current[t] # None => TargetHead(history, t).index # 0

\* Fault: rejected commands are not restored at startup.
MountPruningRejected ==
  LET next == [t \in Targets |-> MountQuarantine(t)]
      restored == [t \in Targets |->
        IF next[t] = None /\ current[t] # None
        THEN [rev |-> current[t].rev, content |-> current[t].content]
        ELSE EmptySnapshot] IN
  /\ phase = "down" /\ LoadAccepts
  /\ phase' = "usable"
  /\ quarantine' = next /\ quarantines' = next
  /\ commandQuarantine' = VerifyCommandJournal
  /\ heads' = [t \in Targets |-> TargetHead(history, t)]
  /\ globalSequence' = Len(history)
  /\ shows' = restored /\ published' = restored
  /\ commands' = SelectSeq(commands, LAMBDA c : c.status = "applied")
  /\ commandSequence' = Len(commands')
  /\ UNCHANGED <<history, current, brokenCommands, credential, operations, cue, answer>>

MountPersistence ==
  LET next == [t \in Targets |-> MountQuarantine(t)]
      restored == [t \in Targets |->
        IF next[t] = None /\ current[t] # None
        THEN [rev |-> current[t].rev, content |-> current[t].content]
        ELSE EmptySnapshot] IN
  /\ phase = "down" /\ LoadAccepts
  /\ phase' = "usable"
  /\ quarantine' = next /\ quarantines' = next
  /\ commandQuarantine' = VerifyCommandJournal
  /\ heads' = [t \in Targets |-> TargetHead(history, t)]
  /\ globalSequence' = Len(history) /\ commandSequence' = Len(commands)
  /\ shows' = restored /\ published' = restored
  /\ UNCHANGED <<history, current, commands, brokenCommands, credential,
                 operations, cue, answer>>

\* The process dies while it mounts: quarantine rows are written one by one.
MountInterrupted ==
  /\ phase = "down" /\ LoadAccepts
  /\ \E T \in SUBSET Targets :
       quarantine' = [t \in Targets |-> IF t \in T THEN MountQuarantine(t)
                                                   ELSE quarantine[t]]
  /\ commandQuarantine' \in {commandQuarantine, VerifyCommandJournal}
  /\ UNCHANGED <<history, current, commands, brokenCommands, credential,
                 volatile>>
-----------------------------------------------------------------------------
Init ==
  /\ history = << >> /\ commands = << >>
  /\ current = [t \in Targets |-> None]
  /\ quarantine = [t \in Targets |-> None]
  /\ brokenCommands = {} /\ commandQuarantine = {}
  /\ credential = [p \in Creds |-> [generation |-> 1, revoked |-> FALSE]]
  /\ phase = "down"
  /\ heads = [t \in Targets |-> [index |-> 0, rev |-> 0,
                                 content |-> EmptyContent]]
  /\ globalSequence = 0 /\ commandSequence = 0
  /\ shows = [t \in Targets |-> EmptySnapshot]
  /\ quarantines = [t \in Targets |-> None]
  /\ takeOperations = NoOperations /\ controlOperations = NoOperations
  /\ visibilityOperations = NoOperations /\ cueOperations = NoOperations
  /\ cue = None /\ answer = None
  /\ published = [t \in Targets |-> EmptySnapshot]

Revisions == 0..MaxHistory

\* A client's own identifier may read like that of a cue step.
ClientVisibilityOps == Ops \cup {StepOp(op, 1) : op \in Ops}

\* The calls of operators and of the panel.
OperatorStep ==
  \E s \in Shows, outcome \in Outcomes :
    \/ \E scene \in Scenes, v \in Values : LoadPreview(s, scene, v, outcome)
    \/ \E op \in Ops, expected \in Revisions : Take(s, expected, op, outcome)
    \/ \E op \in Ops, expected \in Revisions, v \in Values :
         ApplyPreviewControls(s, expected, op, v, outcome)
    \/ \E bus \in Buses, c \in Components, visible \in BOOLEAN,
          op \in ClientVisibilityOps, expected \in Revisions :
         ExecuteVisibilityIntent(<<s, bus>>, c, visible, expected, op, outcome)
    \/ \E bus \in Buses, scene \in Scenes, v \in Values, op \in Ops,
          mode \in RecoveryKinds :
         RecoverTarget(<<s, bus>>, mode, scene, v, op, outcome)

CueCall ==
  \/ \E t \in Targets, steps \in Cues, op \in Ops, expected \in Revisions :
       ExecuteCue(t, steps, expected, op)
  \/ \E outcome \in Outcomes : CueStep(outcome)
  \/ CueFinish

DeviceStep ==
  \/ \E p \in Creds, op \in Ops, generation \in 1..MaxGeneration,
        outcome \in Outcomes, intent \in DeviceIntents :
       \/ RejectDeviceCommand(p, generation, op, intent, outcome)
       \/ ApplyDeviceCommand(p, generation, op, intent, outcome)
  \/ \E p \in Creds : RotateCredential(p) \/ RevokeCredential(p)

Lifetime == Crash \/ MountPersistence \/ MountInterrupted
SnapshotDamage == \E t \in Targets : DamageRow(t)
JournalDamage == \E i \in 1..Len(commands) : DamageCommand(i)

Next == OperatorStep \/ CueCall \/ DeviceStep \/ Lifetime
          \/ SnapshotDamage \/ JournalDamage

Spec == Init /\ [][Next]_vars
-----------------------------------------------------------------------------
FileTypes ==
  /\ history \in Seq(Records)
  /\ current \in [Targets -> Rows \cup {None}]
  /\ quarantine \in [Targets -> Quarantines \cup {None}]
  /\ commands \in Seq(Commands)
  /\ brokenCommands \subseteq Nat
  /\ commandQuarantine \subseteq Shows
  /\ credential \in [Creds -> [generation : Nat, revoked : BOOLEAN]]

ProcessTypes ==
  /\ phase \in {"down", "usable", "failed"}
  /\ heads \in [Targets -> [index : Nat, rev : Nat, content : Contents]]
  /\ globalSequence \in Nat /\ commandSequence \in Nat
  /\ shows \in [Targets -> Snapshots]
  /\ quarantines \in [Targets -> Quarantines \cup {None}]
  /\ cue \in CueRuns \cup {None}
  /\ published \in [Targets -> Snapshots]
  /\ answer \in [show : Shows, preview : Snapshots, program : Snapshots]
                 \cup {None}

OperationTypes ==
  /\ takeOperations \in [Shows -> Seq(TakeReceipts)]
  /\ controlOperations \in [Shows -> Seq(ControlReceipts)]
  /\ visibilityOperations \in [Shows -> Seq(VisibilityReceipts)]
  /\ cueOperations \in [Shows -> Seq(CueReceipts)]

\* The tables and maps hold what their declarations in the code say.
TypeOK == FileTypes /\ ProcessTypes /\ OperationTypes

\* The durable truth of a target: the snapshot its latest record names.
Truth(t) == HeadHash(t)

(***************************************************************************)
(* A start never aborts: whatever commit, mount or cue the process died    *)
(* in, and whichever current rows were damaged, load() finds a contiguous  *)
(* history, and every persisted quarantine still at its target's head      *)
(* revision.                                                               *)
(***************************************************************************)
StartupNeverAborts == LoadAccepts

(***************************************************************************)
(* While the authority is usable, what it holds in memory for an available *)
(* target is the durable truth, the current row says the same, and the     *)
(* service's quarantine map is the table's.                                *)
(***************************************************************************)
MemoryIsDurableTruth ==
  Usable => \A t \in Targets :
    /\ quarantines[t] = quarantine[t]
    /\ Available(t) =>
         /\ shows[t] = Truth(t)
         /\ IF current[t] = None THEN Truth(t).rev = 0
            ELSE [rev |-> current[t].rev, content |-> current[t].content]
                   = Truth(t)

(***************************************************************************)
(* A usable authority never refuses itself: the next revision of every     *)
(* target (for a quarantined one, the recovery) passes the store's checks  *)
(* and would extend a history the next start accepts.                      *)
(***************************************************************************)
UsableCanCommit ==
  Usable =>
    /\ globalSequence = Len(history) /\ commandSequence = Len(commands)
    /\ \A t \in Targets :
         /\ heads[t] = TargetHead(history, t)
         /\ IF Available(t) THEN StoreAdmits(t, shows[t].rev, None)
            ELSE StoreAdmits(t, quarantines[t].rev, quarantines[t].rejected)

(***************************************************************************)
(* Commit before publication: what the channels last received for a target *)
(* is a snapshot history holds, never one ahead of it, and it is the       *)
(* current truth as long as the authority is usable and the target is      *)
(* available.                                                              *)
(***************************************************************************)
PublishedIsCommitted ==
  \A t \in Targets :
    /\ published[t].rev > 0 =>
         \E i \in 1..Len(history) :
           /\ history[i].target = t /\ history[i].rev = published[t].rev
           /\ history[i].content = published[t].content
    /\ Usable /\ Available(t) => published[t] = Truth(t)

(* The durable record of a target at a revision. *)
RecordAt(t, rev) ==
  history[CHOOSE i \in 1..Len(history) :
            history[i].target = t /\ history[i].rev = rev]
HasRecord(t, rev) ==
  \E i \in 1..Len(history) : history[i].target = t /\ history[i].rev = rev

(***************************************************************************)
(* A receipt the service would replay is backed by a durable record: the   *)
(* record at the receipt's target revision carries that operation, kind    *)
(* and effect.                                                             *)
(***************************************************************************)
VisibilityReceiptsAreDurable ==
  \A s \in Shows : \A i \in 1..Len(visibilityOperations[s]) :
    LET e == visibilityOperations[s][i] IN
    /\ e.targetRevision = e.intent.expected + 1
    /\ HasRecord(e.intent.target, e.targetRevision)
    /\ LET r == RecordAt(e.intent.target, e.targetRevision) IN
       /\ r.op = e.op /\ r.kind = e.kind
       /\ e.intent.visible <=> e.intent.component \notin r.content.hidden

(***************************************************************************)
(* A take receipt names what was promoted: the Program record it names     *)
(* carries the operation and exactly the content the named Preview         *)
(* revision had, whatever happened to Preview since.                       *)
(***************************************************************************)
TakeReceiptsNameWhatWasTaken ==
  \A s \in Shows : \A i \in 1..Len(takeOperations[s]) :
    LET e == takeOperations[s][i] IN
    /\ HasRecord(<<s, "program">>, e.programRevision)
    /\ HasRecord(<<s, "preview">>, e.previewRevision)
    /\ LET r == RecordAt(<<s, "program">>, e.programRevision) IN
       /\ r.kind = "program.take" /\ r.op = e.op
       /\ r.content = RecordAt(<<s, "preview">>, e.previewRevision).content
       /\ r.content.scene # None

(***************************************************************************)
(* A cue is never interleaved: in every history, also one cut short by a   *)
(* crash, step i of a cue directly follows step i - 1 of the same          *)
(* operation on its target.                                                *)
(***************************************************************************)
CueStepsAreContiguous ==
  \A i \in 1..Len(history) :
    (history[i].kind = "cue.step" /\ history[i].op[2] > 0) =>
      /\ history[i].prev > 0
      /\ LET r == history[history[i].prev] IN
         r.kind = "cue.step"
           /\ r.op = StepOp(history[i].op[1], history[i].op[2] - 1)

(***************************************************************************)
(* A cue's receipt counts what became durable: its target revision is the  *)
(* expected revision plus the completed steps, and each completed step is  *)
(* the record of that revision.                                            *)
(***************************************************************************)
CueReceiptsAreExact ==
  \A s \in Shows : \A i \in 1..Len(cueOperations[s]) :
    LET e == cueOperations[s][i] IN
    /\ e.targetRevision = e.expected + e.completed
    /\ \A k \in 1..e.completed :
         /\ HasRecord(e.target, e.expected + k)
         /\ RecordAt(e.target, e.expected + k).op = StepOp(e.op, k - 1)

\* Only damage quarantines a Show's journal: what the store itself wrote is
\* always accepted by verifyCommandJournal.
OnlyDamageQuarantinesCommands ==
  commandQuarantine \subseteq
    {commands[i].intent.target[1] : i \in brokenCommands}

\* The journal never outgrows its limits, also when the process restarts
\* between commands.
JournalWithinCapacity ==
  /\ Len(commands) <= MaxCommandsGlobal
  /\ \A s \in Shows : Cardinality(CommandsOfShow(s)) <= MaxCommandsPerShow

(***************************************************************************)
(* The command journal and history agree record by record, also after a    *)
(* commit of unknown outcome: every applied command has its mutation, and  *)
(* every device mutation has exactly one applied command.  The journal     *)
(* stays within its limits, and nothing but damage quarantines it.         *)
(***************************************************************************)
JournalMatchesHistory ==
  /\ OnlyDamageQuarantinesCommands /\ JournalWithinCapacity
  /\ \A i \in 1..Len(commands) : CommandBound(i)
  /\ \A j \in 1..Len(history) :
       history[j].op \in {DeviceOp(op) : op \in Ops} =>
         Cardinality({i \in 1..Len(commands) :
           /\ commands[i].status = "applied"
           /\ commands[i].intent.target = history[j].target
           /\ commands[i].resulting = history[j].rev}) = 1

(***************************************************************************)
(* A superseded authority never commands: in journal order a credential's  *)
(* generations never go back, and none is newer than the credential's.     *)
(***************************************************************************)
CommandGenerationsNeverGoBack ==
  \A i, j \in 1..Len(commands) :
    commands[i].principal = commands[j].principal =>
      /\ i <= j => commands[i].generation <= commands[j].generation
      /\ commands[i].generation <= credential[commands[i].principal].generation

(***************************************************************************)
(* A quarantined target changes only by its recovery: a durable quarantine *)
(* goes away only together with a recovery record that binds its rejected  *)
(* hash at the next revision, and until then the target's truth stays.     *)
(***************************************************************************)
QuarantineLeavesByRecovery ==
  [][\A t \in Targets : quarantine[t] # None =>
       \/ quarantine'[t] = quarantine[t] /\ Truth(t)' = Truth(t)
       \/ /\ quarantine'[t] = None
          /\ LET r == history'[Len(history')] IN
             /\ r.target = t /\ r.kind \in RecoveryKinds
             /\ r.rejected = quarantine[t].rejected
             /\ r.rev = quarantine[t].rev + 1]_vars

(***************************************************************************)
(* ADR-0005: replaying one operation identifier with the same intent does  *)
(* not apply twice.  For take the intent is the Preview revision.          *)
(***************************************************************************)
TakeAppliesOnce ==
  \A i, j \in 1..Len(history) :
    (/\ i < j /\ history[i].target = history[j].target
     /\ history[i].kind = "program.take" /\ history[j].kind = "program.take"
     /\ history[i].op = history[j].op) =>
      \E k \in i..j : history[k].target = <<history[i].target[1], "preview">>

(***************************************************************************)
(* ADR-0029: combined projections fail closed if any required target is    *)
(* unavailable.  A ProductionState that was answered shows no quarantined  *)
(* target.                                                                 *)
(***************************************************************************)
CombinedAnswersFailClosed ==
  answer # None => /\ quarantines[<<answer.show, "preview">>] = None
                   /\ quarantines[<<answer.show, "program">>] = None

\* An answer never shows an available target at a state that is not durable.
AnswersAreDurableTruth ==
  (Usable /\ answer # None) =>
    /\ Available(<<answer.show, "preview">>) =>
         answer.preview = Truth(<<answer.show, "preview">>)
    /\ Available(<<answer.show, "program">>) =>
         answer.program = Truth(<<answer.show, "program">>)

(***************************************************************************)
(* What the service tells and would tell again is exact: every receipt it  *)
(* would replay names durable records with the operation and effect it     *)
(* reports, a cue's steps directly follow one another, and an answer shows *)
(* an available target as history has it.                                  *)
(***************************************************************************)
ReceiptsAreExact ==
  /\ VisibilityReceiptsAreDurable /\ TakeReceiptsNameWhatWasTaken
  /\ CueStepsAreContiguous /\ CueReceiptsAreExact
  /\ AnswersAreDurableTruth
=============================================================================
