--------------------------- MODULE CommandSession ---------------------------
(***************************************************************************)
(* A device's visibility commands: DeviceWebSocketCommandSession (one lane *)
(* per target, the admission of a new command inside the store's           *)
(* transaction, signed answers with a send timeout), the lease every       *)
(* command runs under, the HTTP route to the same journal, and a device    *)
(* that repeats commands whose answer it did not get, also on a later      *)
(* connection.                                                             *)
(*                                                                         *)
(* The store's transaction is one step (ProductionAuthority models what is *)
(* in it).  A confirmed base, an issuer key and a revision are numbers.    *)
(* Budget bounds what the environment does.                                *)
(***************************************************************************)
EXTENDS Integers, Sequences, FiniteSets

CONSTANTS Targets,   \* the targets of the Show
          Granted,   \* those the credential may command
          Ops,       \* operation identifiers
          Frames,    \* bound: frames a connection handles at once
          Capacity,  \* commands the journal admits
          Budget     \* bound: events of the environment

ASSUME TargetsAssumption == Granted \subseteq Targets /\ Granted # {}
ASSUME BoundsAssumption == Frames \in Nat \ {0} /\ Capacity \in Nat /\ Budget \in Nat

VARIABLES
  revision,   \* production's revision of each target
  journal,    \* production_commands
  evidence,   \* commandEvidence: what the device confirmed for each target
  confirmed,  \* confirmedIssuerKeyId
  issuer,     \* the key the signing authority holds
  lease,      \* the coordinator admits operations of this connection
  closed,     \* the session
  lanes,      \* the frame whose task holds each target's lane
  frames,     \* the frames being handled
  http,       \* an HTTP command between its checks and its execution
  known,      \* answers the device received
  budget

vars == <<revision, journal, evidence, confirmed, issuer, lease, closed, lanes, frames,
          http, known, budget>>

NoFrame == [pc |-> "free"]
Slots == 1 .. Frames

Init ==
  /\ revision = [t \in Targets |-> 1]
  /\ journal = <<>>
  /\ evidence = [t \in Targets |-> [ready |-> TRUE, base |-> 1, issuer |-> 1]]
  /\ confirmed = 1 /\ issuer = 1
  /\ lease = TRUE /\ closed = FALSE
  /\ lanes = [t \in Targets |-> 0]
  /\ frames = [s \in Slots |-> NoFrame]
  /\ http = NoFrame
  /\ known = {}
  /\ budget = Budget

Spend == budget > 0 /\ budget' = budget - 1

-----------------------------------------------------------------------------
(* the store's transaction: what it answers and what it leaves behind *)

Recorded(op) == {journal[i] : i \in {j \in DOMAIN journal : journal[j].op = op}}

(* the UNIQUE operation of production_commands: at most one row *)
Existing(op) == CHOOSE c \in Recorded(op) : TRUE

(* Fault: inside the transaction readiness is taken from the frame's arrival. *)
AdmissionOnArrival(f) ==
  IF ~f.allowNew THEN "not_ready"
  ELSE IF f.base # evidence[f.target].base THEN "base_mismatch"
  ELSE IF issuer # confirmed THEN "issuer_rotated"
  ELSE "admitted"

(* assertNewAdmission *)
Admission(f) ==
  LET e == evidence[f.target]
  IN  IF ~f.allowNew \/ ~e.ready THEN "not_ready"
      ELSE IF f.base # e.base THEN "base_mismatch"
      ELSE IF issuer # e.issuer \/ issuer # confirmed THEN "issuer_rotated"
      ELSE "admitted"

Command(f) ==
  LET fits == f.revision = revision[f.target]
  IN  [op |-> f.op, target |-> f.target, intent |-> f.revision,
       status |-> IF fits THEN "applied" ELSE "rejected"]

(* Fault: a known operation answers for any intent. *)
ExecutedAnyIntent(f, admission) ==
  IF Recorded(f.op) # {} THEN [new |-> FALSE, answer |-> Existing(f.op).status]
  ELSE IF admission # "admitted" THEN [new |-> FALSE, answer |-> admission]
  ELSE IF Len(journal) >= Capacity THEN [new |-> FALSE, answer |-> "capacity_exhausted"]
  ELSE [new |-> TRUE, answer |-> Command(f).status]

(* executeDeviceVisibilityCommand, with the admission its caller asks for *)
Executed(f, admission) ==
  IF Recorded(f.op) # {}
  THEN LET c == Existing(f.op)
       IN  IF c.target = f.target /\ c.intent = f.revision
           THEN [new |-> FALSE, answer |-> c.status] ELSE [new |-> FALSE, answer |-> "operation_conflict"]
  ELSE IF admission # "admitted" THEN [new |-> FALSE, answer |-> admission]
  ELSE IF Len(journal) >= Capacity THEN [new |-> FALSE, answer |-> "capacity_exhausted"]
  ELSE [new |-> TRUE, answer |-> Command(f).status]

(* Fault: a rejected command advances its target as well. *)
CommitAnyway(f, new) ==
  /\ journal' = IF new THEN Append(journal, Command(f)) ELSE journal
  /\ revision' = IF new THEN [revision EXCEPT ![f.target] = @ + 1] ELSE revision
  /\ evidence' = IF new THEN [evidence EXCEPT ![f.target].ready = FALSE] ELSE evidence

(* a committed command; an applied one publishes a snapshot, which ends the
   target's readiness until the device confirms the new state *)
Commit(f, new) ==
  /\ journal' = IF new THEN Append(journal, Command(f)) ELSE journal
  /\ LET applied == new /\ Command(f).status = "applied"
     IN  /\ revision' = IF applied THEN [revision EXCEPT ![f.target] = @ + 1] ELSE revision
         /\ evidence' = IF applied THEN [evidence EXCEPT ![f.target].ready = FALSE] ELSE evidence

-----------------------------------------------------------------------------
(* the WebSocket session *)

Results == {"applied", "rejected"}

CloseSession == closed' = TRUE

(* receiveJson: a lane of its own, behind the same command, or beside another *)
Receive(s, op, t, r, base) ==
  LET holder == IF lanes[t] = 0 THEN NoFrame ELSE frames[lanes[t]]
      frame(pc, new) == [pc |-> pc, op |-> op, target |-> t, revision |-> r, base |-> base,
                         allowNew |-> new, new |-> FALSE, answer |-> "none"]
  IN  /\ ~closed /\ frames[s] = NoFrame
      /\ \A q \in Slots : q < s => frames[q] # NoFrame
      /\ Spend
      /\ \/ /\ t \notin Granted
            /\ frames' = [frames EXCEPT ![s] = [frame("sign", FALSE) EXCEPT !.answer = "not_authorized"]]
            /\ UNCHANGED lanes
         \/ /\ t \in Granted /\ lanes[t] = 0
            /\ frames' = [frames EXCEPT ![s] = frame("run", TRUE)]
            /\ lanes' = [lanes EXCEPT ![t] = s]
         \/ /\ t \in Granted /\ lanes[t] # 0
            /\ frames' = [frames EXCEPT ![s] =
                 IF holder.op # op THEN frame("run", FALSE)
                 ELSE IF holder.revision = r THEN frame("joined", FALSE)
                 ELSE [frame("sign", FALSE) EXCEPT !.answer = "operation_conflict"]]
            /\ UNCHANGED lanes
      /\ UNCHANGED <<revision, journal, evidence, confirmed, issuer, lease, closed, http, known>>

ReceiveMalformed ==
  /\ ~closed /\ Spend
  /\ CloseSession
  /\ UNCHANGED <<revision, journal, evidence, confirmed, issuer, lease, lanes, frames, http, known>>

(* a frame's task is over: its lane, when it holds one, and those behind it *)
Ends(s) ==
  /\ lanes' = [t \in Targets |-> IF lanes[t] = s THEN 0 ELSE lanes[t]]
  /\ frames' = [q \in Slots |->
       IF q = s THEN NoFrame
       ELSE IF /\ frames[q].pc = "joined"
               /\ lanes[frames[q].target] = s THEN NoFrame ELSE frames[q]]

Answers(s, f, result) ==
  /\ UNCHANGED lanes
  /\ frames' = [frames EXCEPT ![s] = [f EXCEPT !.pc = "sign", !.new = result.new,
                                               !.answer = result.answer]]

(* run(): the lease, the store, and what handleExecutionError makes of it *)
Run(s) ==
  LET f == frames[s]
      result == Executed(f, Admission(f))
  IN  /\ f.pc = "run"
      /\ \/ /\ closed
            /\ Ends(s)
            /\ UNCHANGED <<closed, revision, journal, evidence>>
         \/ /\ ~closed /\ (~lease \/ result.answer = "issuer_rotated")
            /\ CloseSession
            /\ Ends(s)
            /\ UNCHANGED <<revision, journal, evidence>>
         \/ /\ ~closed /\ lease /\ result.answer # "issuer_rotated"
            /\ Commit(f, result.new)
            /\ Answers(s, f, result)
            /\ UNCHANGED closed
  /\ UNCHANGED <<confirmed, issuer, lease, http, known, budget>>

(* requiredCurrentIssuer and signAndSend up to the transport *)
Sign(s) ==
  /\ frames[s].pc = "sign"
  /\ \/ /\ closed
        /\ Ends(s)
        /\ UNCHANGED closed
     \/ /\ ~closed /\ issuer # confirmed
        /\ CloseSession
        /\ Ends(s)
     \/ /\ ~closed /\ issuer = confirmed
        /\ frames' = [frames EXCEPT ![s].pc = "sending"]
        /\ UNCHANGED <<closed, lanes>>
  /\ UNCHANGED <<revision, journal, evidence, confirmed, issuer, lease, http, known, budget>>

Answer(f) == [op |-> f.op, target |-> f.target, intent |-> f.revision, says |-> f.answer]

(* the transport accepted the message: the device has it, unless the
   connection was already closing *)
Sent(s) ==
  /\ frames[s].pc = "sending"
  /\ known' = IF closed THEN known ELSE known \cup {Answer(frames[s])}
  /\ Ends(s)
  /\ UNCHANGED <<revision, journal, evidence, confirmed, issuer, lease, closed, http, budget>>

(* the send fails, or its timeout fires: the message may have left or not *)
SendTimesOut(s) ==
  /\ frames[s].pc = "sending"
  /\ CloseSession
  /\ Ends(s)
  /\ \E lost \in BOOLEAN :
       known' = IF lost THEN known ELSE known \cup {Answer(frames[s])}
  /\ UNCHANGED <<revision, journal, evidence, confirmed, issuer, lease, http, budget>>

-----------------------------------------------------------------------------
(* the HTTP route to the same command: authorize and readiness, then the
   Show is looked up, then the store *)

HttpBegin ==
  /\ http = NoFrame /\ lease /\ Spend
  /\ \E op \in Ops, t \in Granted : \E r \in {revision[t], revision[t] - 1} :
       /\ evidence[t].ready
       /\ http' = [pc |-> "looked_up", op |-> op, target |-> t, revision |-> r]
  /\ UNCHANGED <<revision, journal, evidence, confirmed, issuer, lease, closed, lanes, frames, known>>

(* the store finds the authority current, or the command is refused *)
HttpExecute ==
  /\ http # NoFrame
  /\ http' = NoFrame
  /\ IF lease
     THEN LET result == Executed(http, "admitted")
          IN  /\ Commit(http, result.new)
              /\ known' = known \cup {[op |-> http.op, target |-> http.target,
                                       intent |-> http.revision, says |-> result.answer]}
     ELSE UNCHANGED <<revision, journal, evidence, known>>
  /\ UNCHANGED <<confirmed, issuer, lease, closed, lanes, frames, budget>>

-----------------------------------------------------------------------------
(* the environment *)

(* the device sends a command based on what it confirmed, now or before *)
DeviceSends ==
  \E s \in Slots, op \in Ops, t \in Targets :
    \E r \in {revision[t], revision[t] - 1}, base \in {evidence[t].base, evidence[t].base - 1} :
      Receive(s, op, t, r, base)

(* production changes a target from elsewhere *)
ProductionChanges ==
  /\ Spend
  /\ \E t \in Granted :
       /\ revision' = [revision EXCEPT ![t] = @ + 1]
       /\ evidence' = [evidence EXCEPT ![t].ready = FALSE]
  /\ UNCHANGED <<journal, confirmed, issuer, lease, closed, lanes, frames, http, known>>

(* the device confirms the state it was sent *)
Confirms ==
  /\ \E t \in Granted :
       /\ ~evidence[t].ready /\ issuer = confirmed
       /\ evidence' = [evidence EXCEPT ![t] = [ready |-> TRUE, base |-> @.base + 1, issuer |-> issuer]]
  /\ UNCHANGED <<revision, journal, confirmed, issuer, lease, closed, lanes, frames, http, known, budget>>

RotateIssuer ==
  /\ Spend
  /\ issuer' = issuer + 1
  /\ UNCHANGED <<revision, journal, evidence, confirmed, lease, closed, lanes, frames, http, known>>

(* the credential is rotated or revoked, or the connection replaced *)
LeaseEnds ==
  /\ lease /\ Spend
  /\ lease' = FALSE
  /\ UNCHANGED <<revision, journal, evidence, confirmed, issuer, closed, lanes, frames, http, known>>

Dispose ==
  /\ ~closed /\ Spend
  /\ CloseSession
  /\ UNCHANGED <<revision, journal, evidence, confirmed, issuer, lease, lanes, frames, http, known>>

(* the device connects again and bootstraps; what was running has drained *)
Reconnect ==
  /\ closed
  /\ \A s \in Slots : frames[s] = NoFrame
  /\ closed' = FALSE /\ lease' = TRUE
  /\ confirmed' = issuer
  /\ evidence' = [t \in Targets |-> [ready |-> TRUE, base |-> evidence[t].base + 1, issuer |-> issuer]]
  /\ UNCHANGED <<revision, journal, issuer, lanes, frames, http, known, budget>>

SessionStep ==
  \E s \in Slots : Run(s) \/ Sign(s) \/ Sent(s) \/ SendTimesOut(s)

Next == \/ SessionStep \/ DeviceSends \/ ReceiveMalformed
        \/ HttpBegin \/ HttpExecute
        \/ ProductionChanges \/ Confirms \/ RotateIssuer \/ LeaseEnds \/ Dispose \/ Reconnect

Spec == Init /\ [][Next]_vars

-----------------------------------------------------------------------------
(* The session and the HTTP route implement the abstract journal. *)
Decided(c) == [key |-> c.op, target |-> c.target, expected |-> c.intent,
               applied |-> c.status = "applied"]
Decisions == {Decided(journal[i]) : i \in DOMAIN journal}

Journal == INSTANCE OperationJournal
  WITH Keys <- Ops, Expected <- 0 .. (Budget + 2), decided <- Decisions

(* Frames repeated on later connections, lanes and HTTP commands beside them:
   each step leaves the journal's promise intact. *)
ImplementsJournal == Journal!Spec

(* sendResult and the lanes: whatever the device was ever told of a command,
   over either transport and on any connection, is what the journal holds of
   it; and while the answer to a newly recorded command is not out, the
   session records no other new command for that target. *)
AnswersAreJournalled ==
  /\ \A a \in known : a.says \in Results =>
       \E i \in DOMAIN journal : /\ journal[i].op = a.op
                                 /\ journal[i].target = a.target
                                 /\ journal[i].intent = a.intent
                                 /\ journal[i].status = a.says
  /\ \A s, q \in Slots :
       /\ s # q /\ frames[s].pc \in {"sign", "sending"} /\ frames[q].pc \in {"sign", "sending"}
       /\ frames[s].new /\ frames[q].new
       => frames[s].target # frames[q].target

(* assertNewAdmission runs inside the transaction: a command the session
   records names the base the device has confirmed at that moment, of a target
   that is ready, under the key that signed it and a lease still in force. *)
AdmissionIsCurrent ==
  [][\A s \in Slots :
       frames[s].pc = "run" /\ frames'[s].pc = "sign" /\ frames'[s].new =>
         /\ evidence[frames[s].target].ready
         /\ evidence[frames[s].target].base = frames[s].base
         /\ evidence[frames[s].target].issuer = issuer
         /\ lease /\ ~closed]_vars
=============================================================================
