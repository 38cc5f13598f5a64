--------------------------- MODULE ControlFeedback ---------------------------
(***************************************************************************)
(* The feedback of one control: the server's signed observations, failures *)
(* and acknowledgements, their admission by a consumer that verifies       *)
(* signatures asynchronously (admitControlFeedback), the reducer that      *)
(* folds them into one state, and the two projections of that state: the   *)
(* protocol's own and the Companion button's.                              *)
(*                                                                         *)
(* Envelopes are lost, repeated and verified out of order: any envelope    *)
(* ever sent may be handed to the consumer at any time.  An envelope's     *)
(* `flaw' is the one thing that is wrong with it.  The consumer's clock is *)
(* the server's plus `skew'.  The server's clock never goes back.          *)
(***************************************************************************)
EXTENDS Integers, Sequences, SequencesExt, FiniteSets

CONSTANTS Flaws,        \* what may be wrong with a foreign envelope
          Skews,        \* consumer clock minus server clock
          Timeout,      \* DEFAULT_CONTROL_FEEDBACK_TIMEOUT_MS
          MaxClock,     \* bound: the server's clock
          MaxRevision,  \* bound: changes of the control
          MaxSent,      \* bound: envelopes issued
          MaxChecks,    \* bound: verifications at once
          MaxAdmitted   \* bound: admissions

ASSUME SkewsAssumption == Skews \subseteq Int /\ Skews # {}
ASSUME FlawsAssumption ==
  Flaws \subseteq {"event", "issuer", "signature", "audience", "show", "target", "control"}
ASSUME TimeoutAssumption == Timeout \in Nat \ {0}
ASSUME BoundsAssumption == {MaxClock, MaxRevision, MaxSent, MaxChecks, MaxAdmitted} \subseteq Nat

VARIABLES
  clock,     \* the server's
  skew,      \* what the consumer's clock is ahead of it
  readable,  \* the credential holds feedback:read
  truth,     \* the control's value at each revision
  lastAt,    \* the last time each revision was the server's
  sent,      \* envelopes issued; the sequence number is the position
  checking,  \* envelopes whose signature is being verified
  floor,     \* lastAcceptedSequence
  state,     \* ControlFeedbackState
  admitted   \* the events reduced, in order

vars == <<clock, skew, readable, truth, lastAt, sent, checking, floor, state, admitted>>

Values == {"active", "inactive"}
EarlyFlaws == {"event", "issuer"}
LateFlaws == {"signature", "audience", "show", "target", "control"}
None == [kind |-> "none"]

Observation(v, r, t) == [kind |-> "observed", value |-> v, revision |-> r, at |-> t]
Failure(t) == [kind |-> "failed", at |-> t]
Acknowledgement(t) == [kind |-> "acknowledged", at |-> t]

createControlFeedbackState == [observation |-> None, delivery |-> None, failure |-> None]

Init ==
  /\ clock = 0 /\ skew \in Skews /\ readable \in BOOLEAN
  /\ truth = <<"inactive">> /\ lastAt = <<0>>
  /\ sent = <<>> /\ checking = {} /\ floor = 0
  /\ state = createControlFeedbackState
  /\ admitted = <<>>

-----------------------------------------------------------------------------
(* the reducer *)

ReduceAcknowledgement(s, e) ==
  IF s.delivery # None /\ s.delivery.at > e.at THEN s ELSE [s EXCEPT !.delivery = e]

ReduceFailure(s, e) ==
  IF \/ s.observation # None /\ s.observation.at > e.at
     \/ s.failure # None /\ s.failure.at > e.at
  THEN s ELSE [s EXCEPT !.failure = e]

(* the held observation is newer than the event, or contradicts it *)
Superseded(o, e) ==
  /\ o # None
  /\ \/ e.revision < o.revision
     \/ e.revision = o.revision /\ e.at < o.at
     \/ e.revision = o.revision /\ e.at = o.at /\ e.value # o.value

ReduceObservation(s, e) ==
  IF Superseded(s.observation, e) THEN s
  ELSE [s EXCEPT !.observation = e,
                 !.failure = IF @ # None /\ @.at >= e.at THEN @ ELSE None]

reduceControlFeedback(s, e) ==
  CASE e.kind = "acknowledged" -> ReduceAcknowledgement(s, e)
    [] e.kind = "failed" -> ReduceFailure(s, e)
    [] e.kind = "observed" -> ReduceObservation(s, e)

-----------------------------------------------------------------------------
(* the projections *)

(* Fault: an observation does not age. *)
AgelessView(s, now) ==
  IF s.failure # None THEN "failed"
  ELSE IF s.observation = None \/ now < s.observation.at THEN "unknown"
  ELSE s.observation.value

(* projectControlFeedback: the button's state *)
projectControlFeedback(s, now) ==
  IF s.failure # None /\ (s.observation = None \/ s.failure.at >= s.observation.at) THEN "failed"
  ELSE IF s.observation = None THEN "unknown"
  ELSE IF now < s.observation.at THEN "unknown"
  ELSE IF now - s.observation.at >= Timeout THEN "unknown"
  ELSE s.observation.value

Observations(events) == {i \in DOMAIN events : events[i].kind = "observed"}

(* no later one in the list has as high a revision, no earlier one a higher *)
Outlives(events, i, j) ==
  events[j].revision < events[i].revision \/ (events[j].revision = events[i].revision /\ j <= i)

(* the observation a Companion button keeps of those in a list of events *)
CompanionLatest(events) ==
  LET all == Observations(events)
  IN  IF all = {} THEN None
      ELSE events[CHOOSE i \in all : \A j \in all : Outlives(events, i, j)]

projectCompanionFeedback(events, now) ==
  LET o == CompanionLatest(events)
  IN  projectControlFeedback(IF o = None THEN createControlFeedbackState
                             ELSE reduceControlFeedback(createControlFeedbackState, o), now)

-----------------------------------------------------------------------------
(* the server *)

Tick ==
  /\ clock < MaxClock
  /\ clock' = clock + 1
  /\ lastAt' = [lastAt EXCEPT ![Len(truth)] = clock + 1]
  /\ UNCHANGED <<skew, readable, truth, sent, checking, floor, state, admitted>>

Change ==
  /\ Len(truth) <= MaxRevision
  /\ truth' = Append(truth, CHOOSE v \in Values : v # Last(truth))
  /\ lastAt' = Append(lastAt, clock)
  /\ UNCHANGED <<clock, skew, readable, sent, checking, floor, state, admitted>>

Issue(event, flaw) ==
  /\ Len(sent) < MaxSent
  /\ sent' = Append(sent, [event |-> event, flaw |-> flaw])
  /\ UNCHANGED <<clock, skew, readable, truth, lastAt, checking, floor, state, admitted>>

IssueObservation == Issue(Observation(Last(truth), Len(truth), clock), "none")
IssueFailure == Issue(Failure(clock), "none")
IssueAcknowledgement == Issue(Acknowledgement(clock), "none")

(* an envelope this consumer must not take as its control's feedback: the
   flaw is the field that makes it another's, or malformed, or forged *)
Foreign ==
  \E flaw \in Flaws :
    Issue(Observation(CHOOSE v \in Values : v # Last(truth), Len(truth), clock), flaw)

-----------------------------------------------------------------------------
(* the consumer *)

Check(n, accepted) == [sequence |-> n, floor |-> accepted]

(* admitControlFeedback up to the await: a malformed envelope or an issuer
   that is not pinned is refused at once *)
BeginAdmission(n) ==
  /\ n \in DOMAIN sent /\ sent[n].flaw \notin EarlyFlaws
  /\ Cardinality(checking) < MaxChecks
  /\ checking' = checking \union {Check(n, floor)}
  /\ UNCHANGED <<clock, skew, readable, truth, lastAt, sent, floor, state, admitted>>

(* the checks after the await *)
Admissible(c) ==
  /\ sent[c.sequence].flaw \notin LateFlaws
  /\ readable
  /\ c.sequence > c.floor

Admit(c) ==
  /\ c \in checking /\ Admissible(c) /\ Len(admitted) < MaxAdmitted
  /\ checking' = checking \ {c}
  /\ floor' = IF c.sequence > floor THEN c.sequence ELSE floor
  /\ state' = reduceControlFeedback(state, sent[c.sequence].event)
  /\ admitted' = Append(admitted, sent[c.sequence].event)
  /\ UNCHANGED <<clock, skew, readable, truth, lastAt, sent>>

Refuse(c) ==
  /\ c \in checking /\ ~Admissible(c)
  /\ checking' = checking \ {c}
  /\ UNCHANGED <<clock, skew, readable, truth, lastAt, sent, floor, state, admitted>>

Next ==
  \/ Tick \/ Change \/ IssueObservation \/ IssueFailure \/ IssueAcknowledgement \/ Foreign
  \/ \E n \in 1 .. MaxSent : BeginAdmission(n)
  \/ \E c \in checking : Admit(c) \/ Refuse(c)

Spec == Init /\ [][Next]_vars

-----------------------------------------------------------------------------
(* the properties *)

Admitted(kind) == {admitted[i] : i \in {j \in DOMAIN admitted : admitted[j].kind = kind}}

(* Feedback is reduced only when it was issued to this consumer, for its
   control, to a credential that may read it; and every part of the state is
   an event of its own kind as it was issued: an acknowledgement of delivery
   never stands for an observation of the server, nor refreshes one. *)
OnlyOwnFeedback ==
  /\ \A i \in DOMAIN admitted :
       readable /\ \E n \in DOMAIN sent : sent[n] = [event |-> admitted[i], flaw |-> "none"]
  /\ state.observation \in {None} \union Admitted("observed")
  /\ state.failure \in {None} \union Admitted("failed")
  /\ state.delivery \in {None} \union Admitted("acknowledged")

(* However verification reorders them, the state holds the admitted
   observation of the highest revision, and of those the latest
   (reduceControlFeedback). *)
NewestObservationWins ==
  LET seen == Admitted("observed")
  IN  /\ (state.observation = None) <=> (seen = {})
      /\ \A e \in seen : \/ e.revision < state.observation.revision
                         \/ e.revision = state.observation.revision /\ e.at <= state.observation.at

(* A failed operation is shown until the server is observed after it: the
   button says `failed' exactly when an admitted failure is no older than
   every admitted observation, in whatever order they came. *)
FailureIsShown ==
  (projectControlFeedback(state, clock + skew) = "failed")
    <=> \E f \in Admitted("failed") : \A e \in Admitted("observed") : f.at >= e.at

(* A button that shows a value shows one the server held, and still held
   less than the timeout ago, give or take the consumer's clock: this
   consumer's projection and the Companion's, nothing foreign included. *)
ShownIsRecentTruth ==
  LET recent(v) == \E r \in DOMAIN truth : truth[r] = v /\ clock - lastAt[r] < Timeout - skew
      now == clock + skew
  IN  /\ projectControlFeedback(state, now) \in Values => recent(projectControlFeedback(state, now))
      /\ LET b == projectCompanionFeedback(admitted, now)
         IN  b \in Values => recent(b)

(* What a button shows is what the server observed, for this consumer, last
   and recently: nothing foreign, nothing older than what was admitted. *)
FeedbackIsFaithful ==
  OnlyOwnFeedback /\ NewestObservationWins /\ FailureIsShown /\ ShownIsRecentTruth
=============================================================================
