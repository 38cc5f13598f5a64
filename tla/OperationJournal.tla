--------------------------- MODULE OperationJournal ---------------------------
(***************************************************************************)
(* What the production authority promises the devices that command it,     *)
(* whatever crashes, retries, sessions and routes lie in between: an       *)
(* operation identifier is decided once and for ever; it is applied        *)
(* exactly when the revision it expects is its target's at that moment;    *)
(* and a target's revision moves one step at a time, never back.           *)
(*                                                                         *)
(* ProductionJournal (over ProductionAuthority) and CommandSession         *)
(* implement it.                                                           *)
(***************************************************************************)
EXTENDS Integers

CONSTANTS Keys,     \* operation identifiers, of each principal
          Targets,
          Expected  \* revisions a command may name

VARIABLES revision, \* of each target
          decided   \* the decisions so far

vars == <<revision, decided>>

Init == revision \in [Targets -> {0, 1}] /\ decided = {}

Undecided(k) == \A d \in decided : d.key # k

Advance(t) == revision' = [revision EXCEPT ![t] = @ + 1]

Decide(k, t, e) ==
  LET applied == e = revision[t]
  IN  /\ decided' = decided \union {[key |-> k, target |-> t, expected |-> e, applied |-> applied]}
      /\ IF applied THEN Advance(t) ELSE UNCHANGED revision

(* an operator's change, a take, a recovery *)
Change(t) == Advance(t) /\ UNCHANGED decided

Next ==
  \/ \E t \in Targets : Change(t)
  \/ \E k \in Keys : /\ Undecided(k) /\ ~Undecided(k)'
                     /\ \E t \in Targets, e \in Expected : Decide(k, t, e)

Spec == Init /\ [][Next]_vars
=============================================================================
