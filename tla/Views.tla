-------------------------------- MODULE Views --------------------------------
(* What an audience sees: the overlay page's socket and, beside it, the       *)
(* channels and pages of the server it connects to.  The two share neither a  *)
(* variable nor a constant.                                                   *)
EXTENDS OverlaySocket

CONSTANTS
    Conns, Pages, PageKey, Channels, Shows, Elements, NewElements, Updates, Bags, Presets,
    NoScene, Themes, NoTheme, Ops, MaxOps, MaxConnects, MaxRotations  \* Channels

VARIABLES
    ch, snap, subs, conn, access, mine, outputs, cred, live, job, view, inbox, first,
    ops, connects, rotations

Browser == INSTANCE Channels

ASSUME ViewsAssumption == Browser!ChannelAssumption

(* Channels: what a page shows is what the server holds, but for the          *)
(* activation of a stored scene.                                              *)
PagesFollow == Browser!PagesFollow

(* Channels: an output is subscribed to the Program of its Show alone.        *)
OutputsSeeOnlyTheirProgram == Browser!OutputsSeeOnlyTheirProgram
=============================================================================
