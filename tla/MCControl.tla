------------------------------ MODULE MCControl ------------------------------
(* The two routes of a device's commands, side by side: the WebSocket session *)
(* with two operations, a target the credential may command and one it may    *)
(* not and two frames in hand; and the HTTP routes with a Companion module    *)
(* and another device, two calls at a time.  `part' says which moves.         *)
EXTENDS Routes

VARIABLE part

routes == <<show, generation, revoked, token, revisions, commands, receipts, actions, calls, entry,
           leases, suspended, answers, effects, events>>

MCInit ==
  /\ part \in {"session", "routes"}
  /\ Init /\ Control!Init
  /\ part # "routes" => show = "live"

MCNext ==
  /\ UNCHANGED part
  /\ \/ part = "session" /\ Next /\ UNCHANGED routes
     \/ part = "routes" /\ Control!Next /\ UNCHANGED vars

MCSpec == MCInit /\ [][MCNext]_<<part, vars, routes>>
=============================================================================
