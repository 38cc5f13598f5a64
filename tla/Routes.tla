------------------------------- MODULE Routes -------------------------------
(* The two routes of a device's commands: the WebSocket session of            *)
(* CommandSession and, beside it, the HTTP routes with the Companion module.  *)
(* They share no variable; targets and what is granted are the same.          *)
EXTENDS CommandSession

CONSTANTS
    CanTake, Presses, Calls, MaxLeases, Events  \* DeviceControl

VARIABLES
    show, generation, revoked, token, revisions, commands, receipts, actions, calls, entry,
    leases, suspended, answers, effects, events

Control == INSTANCE DeviceControl
             WITH Ops <- Presses, Budget <- Events,
                  revision <- revisions, journal <- commands, budget <- events

ASSUME RoutesAssumption == Control!ControlAssumption

(* DeviceControl: what callers are told is what happened. *)
OutcomesAreTrue == Control!OutcomesAreTrue

(* DeviceControl: no effect of a call whose authority ended ahead of it. *)
DeadAuthorityDoesNothing == Control!DeadAuthorityDoesNothing

(* DeviceControl: the registry holds what the newest session last said. *)
ReadinessBelongsToTheNewest == Control!ReadinessBelongsToTheNewest
=============================================================================
