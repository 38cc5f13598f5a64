------------------------------- MODULE MCViews -------------------------------
(* The overlay page's socket, with the five reconnect attempts of the code    *)
(* and three dropped connections, so that the budget is exhausted, reset and  *)
(* used again; beside it the channels, once with a page on a channel that     *)
(* every route changes (nested variables whose siblings come from different   *)
(* requests, two scenes), once with an output page and a socket that sends    *)
(* any frame, two Shows and a rotation.  `part' says which moves.             *)
EXTENDS Views, TLC

CONSTANTS page1, page2, main, dark

VARIABLE part

browser == <<ch, snap, subs, conn, access, mine, outputs, cred, live, job, view, inbox, first,
            ops, connects, rotations>>

Element(v) == [v |-> v, hidden |-> FALSE]
Name == [user |-> [name |-> 1]]
Role == [user |-> [role |-> 1]]
Wide == [els |-> [e1 |-> Element(0)], vars |-> [x \in {} |-> x], orient |-> "landscape"]
Tall == [els |-> [e2 |-> Element(0)], vars |-> Name, orient |-> "portrait"]

MCPageKey == [p \in {page1, page2} |-> IF p = page1 THEN main ELSE <<"s1", "program">>]
MCPresets == {Tall}

(* The part `changed', with the page on the channel. *)
Changed == INSTANCE Channels
             WITH Elements <- {"e1"}, NewElements <- {Element(1)}, Updates <- {[v |-> 2]},
                  Bags <- {Role}, Presets <- {Wide, Tall}, Themes <- {dark},
                  Ops <- {"create", "update", "toggle", "delete", "variables", "design",
                          "activate"},
                  MaxRotations <- 0

ASSUME Changed!ChannelAssumption

(* Two Shows are for the part `shared': in `changed' nobody looks at the second. *)
OneShow == cred = "s1" /\ \A b \in Browser!Buses : subs[<<"s2", b>>] = {}

(* Each of these parts has one of the two pages. *)
Absent(p) == conn[p] = "none"

MCInit ==
  /\ part \in {"socket", "changed", "shared"}
  /\ Init
  /\ Browser!Init /\ (part # "shared" => cred = "s1")

MCNext ==
  /\ UNCHANGED part
  /\ \/ part = "socket" /\ Next /\ UNCHANGED browser
     \/ part = "changed" /\ Changed!Next /\ OneShow' /\ Absent(page2)' /\ UNCHANGED vars
     \/ part = "shared" /\ Browser!Next /\ Absent(page1)' /\ UNCHANGED vars

MCSpec == MCInit /\ [][MCNext]_<<part, vars, browser>>
=============================================================================
