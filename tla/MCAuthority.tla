----------------------------- MODULE MCAuthority -----------------------------
(* The audit over three hosts (so that one can die while it seals what        *)
(* another left), the credential file with one legacy credential, the monitor *)
(* of one session with two operations of the owner against it, and the        *)
(* owner's own file with two people racing for the seat.  `part' says which   *)
(* moves.                                                                     *)
EXTENDS Authorities, TLC

VARIABLE part

store == <<db, legacy, touched, proc, wallClock, shown, budget>>
monitor == <<now, cred, available, queue, op, timer, answered, m, reads, requests>>

studio == <<running, mem, busy, sessions, expired, minted, jobs, tmp, file, ino, archived,
            conns, setupAnswered, crashes, failures>>

MCInit ==
  /\ part \in {"ledger", "store", "monitor", "studio"}
  /\ Init /\ Store!Init /\ Monitor!Init /\ Studio!Init
  /\ part # "store" => legacy = "original"
  /\ part # "studio" => file = 0

MCNext ==
  /\ UNCHANGED part
  /\ \/ part = "ledger" /\ Next /\ UNCHANGED <<store, monitor, studio>>
     \/ part = "store" /\ Store!Next /\ UNCHANGED <<vars, monitor, studio>>
     \/ part = "monitor" /\ Monitor!Next /\ UNCHANGED <<vars, store, studio>>
     \/ part = "studio" /\ Studio!Next /\ UNCHANGED <<vars, store, monitor>>

MCSpec == MCInit /\ [][MCNext]_<<part, vars, store, monitor, studio>>

Symmetry == Permutations(Conns) \cup Permutations(Callers)
=============================================================================
