---------------------------- MODULE OverlaySocket ----------------------------
(***************************************************************************)
(* The overlay's WebSocketAdapter and the page that uses it: one socket at *)
(* a time, its events, the backoff timer, the heartbeat interval and the   *)
(* subscription that must survive a reconnect.  A page subscribes once,    *)
(* after its own connect() resolved; the adapter repeats what it tracked.  *)
(***************************************************************************)
EXTENDS Naturals

CONSTANTS
    MaxReconnectAttempts,  \* maxReconnectAttempts
    MaxDrops               \* bound: connections the network drops

ASSUME SocketAssumption == MaxReconnectAttempts \in Nat /\ MaxDrops \in Nat

VARIABLES
    state,       \* the adapter's ConnectionState
    sock,        \* the browser's WebSocket: none, connecting, open, closing
    held,        \* this.ws refers to it
    attempts,    \* reconnectAttempts
    timer,       \* the reconnect timer is armed
    beats,       \* heartbeat intervals running
    tracked,     \* the subscription is tracked for a reconnect
    subscribed,  \* the server has it on this socket
    page,        \* mounted, connecting, resolved, subscribed, failed, unmounted
    drops

vars == <<state, sock, held, attempts, timer, beats, tracked, subscribed, page, drops>>

Init ==
    /\ state = "disconnected" /\ sock = "none" /\ held = FALSE
    /\ attempts = 0 /\ timer = FALSE /\ beats = 0
    /\ tracked = FALSE /\ subscribed = FALSE
    /\ page = "mounted" /\ drops = 0

-----------------------------------------------------------------------------
(* connect(): nothing while a connection is there or being made. *)
CanConnect == state \notin {"connected", "connecting"}

Connects ==
    IF CanConnect
    THEN state' = "connecting" /\ sock' = "connecting" /\ held' = TRUE
    ELSE UNCHANGED <<state, sock, held>>

Mount ==
    /\ page = "mounted"
    /\ Connects
    /\ page' = "connecting"
    /\ UNCHANGED <<attempts, timer, beats, tracked, subscribed, drops>>

StopHeartbeat == beats' = 0
ResubscribeNothing == subscribed' = FALSE
ResubscribeAll == subscribed' = tracked

OnOpen ==
    /\ sock = "connecting" /\ held
    /\ sock' = "open" /\ state' = "connected" /\ attempts' = 0
    /\ beats' = beats + 1
    /\ ResubscribeAll
    /\ page' = IF page = "connecting" THEN "resolved" ELSE page
    /\ UNCHANGED <<held, timer, tracked, drops>>

(* The continuation of the page's await, in the turn of the open event.   *)
SendSubscribe ==
    /\ page = "resolved"
    /\ page' = "subscribed"
    /\ IF state = "connected" /\ held
       THEN tracked' = TRUE /\ subscribed' = TRUE
       ELSE UNCHANGED <<tracked, subscribed>>
    /\ UNCHANGED <<state, sock, held, attempts, timer, beats, drops>>

Settled == page # "resolved"

(* onclose: the heartbeat ends and a reconnect is scheduled, unless too    *)
(* many have failed in a row.                                              *)
AttemptReconnect ==
    IF attempts >= MaxReconnectAttempts
    THEN state' = "error" /\ UNCHANGED <<attempts, timer>>
    ELSE attempts' = attempts + 1 /\ state' = "reconnecting" /\ timer' = TRUE

OnClose ==
    /\ sock' = "none" /\ subscribed' = FALSE
    /\ StopHeartbeat
    /\ AttemptReconnect
    /\ UNCHANGED <<held, tracked>>

(* An attempt that fails: onerror rejects the promise, onclose follows.    *)
ConnectFails ==
    /\ Settled /\ sock = "connecting"
    /\ OnClose
    /\ page' = IF page = "connecting" THEN "failed" ELSE page
    /\ UNCHANGED drops

Drop ==
    /\ Settled /\ sock = "open" /\ drops < MaxDrops
    /\ drops' = drops + 1
    /\ OnClose /\ UNCHANGED page

Closed ==
    /\ Settled /\ sock = "closing"
    /\ OnClose /\ UNCHANGED <<page, drops>>

ReconnectTimer ==
    /\ Settled /\ timer
    /\ timer' = FALSE
    /\ Connects
    /\ UNCHANGED <<attempts, beats, tracked, subscribed, page, drops>>

(* disconnect() of onUnmounted. *)
Unmount ==
    /\ Settled /\ page \notin {"mounted", "unmounted"}
    /\ page' = "unmounted"
    /\ beats' = 0 /\ timer' = FALSE
    /\ held' = FALSE
    /\ sock' = IF held /\ sock \in {"connecting", "open"} THEN "closing" ELSE sock
    /\ state' = "disconnected"
    /\ UNCHANGED <<attempts, tracked, subscribed, drops>>

Next ==
    \/ Mount \/ OnOpen \/ SendSubscribe \/ ConnectFails \/ Drop \/ Closed \/ ReconnectTimer \/ Unmount

Spec == Init /\ [][Next]_vars

-----------------------------------------------------------------------------
(* At most one heartbeat interval runs, and none without a connection      *)
(* (startHeartbeat never clears an older one).                             *)
OneHeartbeat == beats <= 1 /\ (beats = 1 => state = "connected")

(* A page that once subscribed is subscribed whenever its adapter says     *)
(* connected, through any number of lost connections (resubscribeAll), and *)
(* the sockets it has gone through leave one heartbeat behind at most.     *)
SubscriptionSurvives ==
    /\ OneHeartbeat
    /\ state = "connected" /\ tracked /\ page # "unmounted" => subscribed
=============================================================================
