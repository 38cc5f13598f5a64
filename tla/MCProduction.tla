---------------------------- MODULE MCProduction ----------------------------
(* One Show.  In the behaviours of operators, loads, takes, controls,         *)
(* visibility intents and cues meet process deaths; in those of damage, loads *)
(* and takes meet damaged snapshot rows, starts that die half-way and         *)
(* recoveries (a start forgets every receipt, so what else an operator does   *)
(* there is as in the first); in those of devices, two credentials command    *)
(* against an operator who loads a scene, with process deaths and a damaged   *)
(* journal.  `part' says which.                                               *)
EXTENDS ProductionJournal, TLC
CONSTANTS sh1, s1, s2, c1, c2

VARIABLE part

(* s1 holds both components, s2 only the first. *)
MCComponentsOf == (s1 :> {c1, c2}) @@ (s2 :> {c1})

(* Two cues: on scene s2 one fails at its second step, the other at once. *)
Hide(c) == [component |-> c, visible |-> FALSE]
MCCues == {<<Hide(c1), Hide(c2)>>, <<Hide(c2)>>}

MCIntents == [target : {<<sh1, "preview">>}, component : {c1}, visible : BOOLEAN,
              expected : 1 .. 2]

OperatorNext == OperatorStep \/ CueCall \/ Lifetime

DamageNext ==
  \/ \E outcome \in Outcomes, scene \in Scenes, v \in Values :
       \/ LoadPreview(sh1, scene, v, outcome)
       \/ \E bus \in Buses, op \in Ops, mode \in RecoveryKinds :
            RecoverTarget(<<sh1, bus>>, mode, scene, v, op, outcome)
  \/ \E outcome \in Outcomes, op \in Ops, expected \in Revisions :
       Take(sh1, expected, op, outcome)
  \/ Lifetime \/ SnapshotDamage

DeviceNext ==
  \/ \E outcome \in Outcomes, v \in Values : LoadPreview(sh1, s1, v, outcome)
  \/ DeviceStep \/ Lifetime \/ JournalDamage

MCInit == Init /\ part \in {"operators", "damage", "devices"}

MCNext ==
  /\ UNCHANGED part
  /\ \/ part = "operators" /\ OperatorNext
     \/ part = "damage" /\ DamageNext
     \/ part = "devices" /\ DeviceNext

MCSpec == MCInit /\ [][MCNext]_<<part, vars>>

Symmetry == Permutations(Ops) \cup Permutations(Creds)
=============================================================================
