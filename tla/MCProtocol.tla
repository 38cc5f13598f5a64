----------------------------- MODULE MCProtocol -----------------------------
(* The feedback of one control, with a consumer whose clock is behind or      *)
(* ahead of the server's; beside it the device frames, once with a parent, a  *)
(* child and a component the credential may not control while frames are      *)
(* lost, repeated and reordered, once with a single component while time      *)
(* passes, once while the signing key rotates.  `part' says which moves.      *)
EXTENDS Protocol, TLC

VARIABLE part

frames == <<prod, past, since, gen, cat, key, seq, build, pend, base, net, now, offset, pin, dev,
           last, accepted>>

MCSkews == {-1, 1}

Tree == [a |-> NoComponent, b |-> "a", c |-> NoComponent]
Of(shown, label) == [shown |-> shown, label |-> label]

(* A panel with a child; the same panel relabelled, hidden and without its    *)
(* child, next to a component of no concern.                                  *)
Panels == {[a |-> Of(TRUE, "l1"), b |-> Of(TRUE, "l1")],
           [a |-> Of(FALSE, "l2"), c |-> Of(TRUE, "l1")]}
Single == {[a |-> Of(TRUE, "l1")]}

Timed == INSTANCE DeviceFrames
           WITH Labels <- {"l1"}, Scenes <- Single, None <- NoFrame, Timeout <- FrameTimeout,
                MaxRevision <- 2, MaxSequence <- 2, MaxTime <- 3, MaxKey <- 1, MaxSkew <- 1

Rotated == INSTANCE DeviceFrames
             WITH Labels <- {"l1"}, Scenes <- Single, None <- NoFrame, Timeout <- FrameTimeout,
                  MaxRevision <- 2, MaxSequence <- 2, MaxTime <- 2, MaxKey <- 2, MaxSkew <- 0

ASSUME Timed!FramesAssumption /\ Rotated!FramesAssumption

MCInit ==
  /\ part \in {"feedback", "lossy", "timed", "rotated"}
  /\ Init /\ (part # "feedback" => skew = 1 /\ readable)
  /\ CASE part = "timed" -> Timed!Init
       [] part = "rotated" -> Rotated!Init
       [] OTHER -> Frames!Init

MCNext ==
  /\ UNCHANGED part
  /\ \/ part = "feedback" /\ Next /\ UNCHANGED frames
     \/ part = "lossy" /\ Frames!Next /\ UNCHANGED vars
     \/ part = "timed" /\ Timed!Next /\ UNCHANGED vars
     \/ part = "rotated" /\ Rotated!Next /\ UNCHANGED vars

MCSpec == MCInit /\ [][MCNext]_<<part, vars, frames>>
=============================================================================
