---------------------------- MODULE MCConnections ----------------------------
(***************************************************************************)
(* One credential of two generations: the first expires, the second does   *)
(* not.                                                                    *)
(***************************************************************************)
EXTENDS DeviceConnectionAuthority
CONSTANTS c1, s1

MCAuthorities ==
  {[credential |-> c1, generation |-> 1, show |-> s1, expires |-> 1],
   [credential |-> c1, generation |-> 2, show |-> s1, expires |-> 2]}
=============================================================================
