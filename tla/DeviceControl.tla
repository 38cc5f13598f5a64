---------------------------- MODULE DeviceControl ----------------------------
(***************************************************************************)
(* Devices that command over HTTP: the Companion adapter (discovery, a     *)
(* button press, the translation of an answer into a result), the device   *)
(* control routes with their awaits, the readiness registry they ask and   *)
(* the sessions of the same credential that write it, over a network that  *)
(* loses and garbles answers and a server that restarts.                   *)
(*                                                                         *)
(* One Show, one component on every target.  A token is the generation of  *)
(* the credential it was issued for.  What the store does with a command   *)
(* is one step (ProductionAuthority models it).  Budget bounds what the    *)
(* environment does.                                                       *)
(***************************************************************************)
EXTENDS Integers, Sequences

CONSTANTS Targets,    \* the targets of the Show
          Granted,    \* those the credential may command
          CanTake,    \* it holds production:take
          Ops,        \* operation identifiers the runtime hands out
          Calls,      \* bound: HTTP calls at once
          MaxLeases,  \* bound: sessions that become ready
          Budget      \* bound: events of the environment

ControlAssumption ==
  /\ Granted \subseteq Targets /\ CanTake \in BOOLEAN
  /\ Calls \in Nat \ {0} /\ MaxLeases \in Nat /\ Budget \in Nat

VARIABLES
  show,       \* live, archived or missing
  generation, \* the credential's
  revoked,    \* the credential's
  token,      \* the generation the Companion module is configured with
  revision,   \* of each target
  journal,    \* production_commands: operation -> command
  receipts,   \* takeOperations: operation -> preview revision
  actions,    \* targets the Companion has a button for
  calls,      \* the HTTP calls under way
  entry,      \* the registry's entry for the credential
  leases,     \* readiness leases handed out, and what each was last set to
  suspended,  \* the entry was suspended since the last registration
  answers,    \* results the caller of each operation has got
  effects,    \* history of what changed production
  budget

credential == <<show, generation, revoked, token>>
server == <<revision, journal, receipts, effects>>
registry == <<entry, leases, suspended>>
client == <<actions, answers>>
vars == <<credential, server, registry, client, calls, budget>>

Slots == 1 .. Calls
Free == [pc |-> "free"]
NoEntry == [lease |-> 0]
Shapes == {"ambiguous", "anonymous", "body"}
Outcomes == {"applied", "rejected"}

Init ==
  /\ show \in {"live", "missing"} /\ generation = 1 /\ revoked = FALSE /\ token = 1
  /\ revision = [t \in Targets |-> 1]
  /\ journal = <<>> /\ receipts = <<>> /\ effects = <<>>
  /\ actions = {} /\ answers = [o \in Ops |-> {}]
  /\ calls = [s \in Slots |-> Free]
  /\ entry = NoEntry /\ leases = <<>> /\ suspended = FALSE
  /\ budget = Budget

Spend == budget > 0 /\ budget' = budget - 1

Live(g) == ~revoked /\ g = generation

-----------------------------------------------------------------------------
(* DeviceTargetReadinessRegistry: suspended when a session of the credential
   starts, registered when one becomes ready, set and closed by its lease *)

Suspend(g) ==
  /\ Spend
  /\ entry # NoEntry /\ entry.generation = g
  /\ entry' = NoEntry /\ suspended' = TRUE
  /\ UNCHANGED <<credential, server, client, calls, leases>>

Register ==
  /\ Len(leases) < MaxLeases /\ ~revoked
  /\ leases' = Append(leases, [open |-> TRUE, ready |-> Granted])
  /\ entry' = [lease |-> Len(leases) + 1, generation |-> generation, ready |-> Granted]
  /\ suspended' = FALSE
  /\ UNCHANGED <<credential, server, client, calls, budget>>

(* Fault: the lease is not compared with the entry's. *)
EntryWithoutToken(l) == entry # NoEntry

(* the lease still owns the registry's entry *)
OwnsEntry(l) == entry.lease = l

SetReady(l, t, ready) ==
  /\ Spend
  /\ l \in DOMAIN leases /\ leases[l].open /\ t \in Granted
  /\ LET now == IF ready THEN leases[l].ready \union {t} ELSE leases[l].ready \ {t}
     IN  /\ leases' = [leases EXCEPT ![l].ready = now]
         /\ entry' = IF OwnsEntry(l) THEN [entry EXCEPT !.ready = now] ELSE entry
  /\ UNCHANGED <<credential, server, client, calls, suspended>>

CloseLease(l) ==
  /\ l \in DOMAIN leases /\ leases[l].open
  /\ leases' = [leases EXCEPT ![l].open = FALSE]
  /\ entry' = IF OwnsEntry(l) THEN NoEntry ELSE entry
  /\ UNCHANGED <<credential, server, client, calls, suspended, budget>>

isReady(g, t) == entry # NoEntry /\ entry.generation = g /\ t \in entry.ready

-----------------------------------------------------------------------------
(* requests *)

Begin(s, kind, shape, op, t, expected) ==
  /\ calls[s] = Free
  /\ \A q \in Slots : q < s => calls[q] # Free
  /\ calls' = [calls EXCEPT ![s] =
       [pc |-> "received", kind |-> kind, shape |-> shape, op |-> op, target |-> t,
        expected |-> expected, token |-> token, waiting |-> TRUE, answer |-> "none",
        begun |-> Live(token) /\ show = "live", outlived |-> FALSE]]
  /\ UNCHANGED <<credential, server, registry, client>>

(* adapter.discover *)
Discover(s) ==
  Spend /\ Begin(s, "discover", "ok", "none", "none", 0)

(* a button's callback, through buildVisibilityCommandRequest *)
Press(s, op, t, expected) ==
  /\ Spend
  /\ t \in actions /\ expected \in 1 .. revision[t]
  /\ Begin(s, "visibility", "ok", op, t, expected)

(* any other device: a take, or a request the route refuses for its shape *)
DeviceTakes(s, op, expected) ==
  /\ Spend
  /\ expected \in 1 .. revision["preview"]
  /\ Begin(s, "take", "ok", op, "program", expected)

DeviceSends(s, op, shape) ==
  Spend /\ Begin(s, "visibility", shape, op, "program", 1)

-----------------------------------------------------------------------------
(* the routes *)

Answered(s, answer) == calls' = [calls EXCEPT ![s].pc = "answered", ![s].answer = answer]
Goes(s, pc) == calls' = [calls EXCEPT ![s].pc = pc]

(* bearerToken, visibilityBody, takeBody and the route's identifiers: refused
   with 400 or 401 before anything is read *)
WellFormed(c) == c.shape \notin Shapes

(* Fault: the credential is verified when the request arrives only. *)
AuthorizedOnArrival(c) ==
  /\ c.begun
  /\ c.kind = "visibility" => c.target \in Granted
  /\ c.kind = "take" => CanTake

(* lifecycle.authorize for a command; authenticate and a scope for the rest *)
Authorized(c) ==
  /\ Live(c.token)
  /\ c.kind = "visibility" => c.target \in Granted
  /\ c.kind = "take" => CanTake

(* what the route asks before it reads the Show *)
Admitted(c) ==
  /\ WellFormed(c) /\ Authorized(c)
  /\ c.kind = "visibility" => isReady(c.token, c.target)

Authorize(s) ==
  /\ calls[s].pc = "received"
  /\ IF Admitted(calls[s]) THEN Goes(s, "show") ELSE Answered(s, "refused")
  /\ UNCHANGED <<credential, server, registry, client, budget>>

(* the Show exists and is not archived *)
Controllable == show = "live"

ReadShow(s) ==
  /\ calls[s].pc = "show"
  /\ IF Controllable THEN Goes(s, "execute") ELSE Answered(s, "refused")
  /\ UNCHANGED <<credential, server, registry, client, budget>>

Catalog(s) ==
  /\ calls[s].pc = "execute" /\ calls[s].kind = "discover"
  /\ Answered(s, "catalog")
  /\ UNCHANGED <<credential, server, registry, client, budget>>

Effect(c) == [kind |-> c.kind, op |-> c.op, target |-> c.target,
              alive |-> c.begun /\ ~c.outlived]

(* an effect advances its target; the session's lease loses the target by a
   SetReady of its own *)
Changes(c) ==
  /\ revision' = [revision EXCEPT ![c.target] = @ + 1]
  /\ effects' = Append(effects, Effect(c))

Status(c) == IF c.expected = revision[c.target] THEN "applied" ELSE "rejected"

With(table, op, row) == [o \in DOMAIN table \cup {op} |-> IF o = op THEN row ELSE table[o]]

Journals(c, status) ==
  journal' = With(journal, c.op, [target |-> c.target, expected |-> c.expected, status |-> status])

(* executeDeviceVisibilityCommand *)
Visibility(s) ==
  LET c == calls[s]
  IN  /\ c.pc = "execute" /\ c.kind = "visibility"
      /\ \/ /\ c.op \in DOMAIN journal
            /\ LET j == journal[c.op]
               IN  Answered(s, IF j.target = c.target /\ j.expected = c.expected THEN j.status ELSE "refused")
            /\ UNCHANGED server
         \/ /\ c.op \notin DOMAIN journal
            /\ Journals(c, Status(c))
            /\ IF Status(c) = "applied" THEN Changes(c) ELSE UNCHANGED <<revision, effects>>
            /\ Answered(s, Status(c))
            /\ UNCHANGED receipts
      /\ UNCHANGED <<credential, registry, client, budget>>

(* production.take *)
Take(s) ==
  LET c == calls[s]
  IN  /\ c.pc = "execute" /\ c.kind = "take"
      /\ \/ /\ c.op \in DOMAIN receipts
            /\ Answered(s, IF receipts[c.op] = c.expected THEN "taken" ELSE "refused")
            /\ UNCHANGED server
         \/ /\ c.op \notin DOMAIN receipts /\ c.expected # revision["preview"]
            /\ Answered(s, "refused")
            /\ UNCHANGED server
         \/ /\ c.op \notin DOMAIN receipts /\ c.expected = revision["preview"]
            /\ receipts' = With(receipts, c.op, c.expected)
            /\ Changes(c)
            /\ Answered(s, "taken")
            /\ UNCHANGED journal
      /\ UNCHANGED <<credential, registry, client, budget>>

-----------------------------------------------------------------------------
(* answers on their way back, and what the adapter makes of them *)

(* Fault: an answer that cannot be read is taken for a refusal. *)
ResultOrRefusal(c, body) ==
  IF body = "whole" THEN c.answer ELSE IF body = "null" THEN "thrown" ELSE "refused"

(* fetchAuthorizedCatalog, executeVisibilityCommand: what the caller gets for a
   body.  A body the network replaced is not JSON, JSON without the envelope,
   or JSON null, of which a property is read. *)
Result(c, body) ==
  CASE body = "text" -> "unknown"
    [] body = "envelope" -> "unknown"
    [] body = "null" -> "thrown"
    [] body = "whole" -> c.answer

Got(c, result) ==
  /\ answers' = IF c.op \in Ops THEN [answers EXCEPT ![c.op] = @ \union {result}] ELSE answers
  /\ actions' = IF result = "catalog" THEN Granted ELSE actions

Deliver(s) ==
  /\ calls[s].pc = "answered" /\ calls[s].waiting
  /\ Got(calls[s], Result(calls[s], "whole"))
  /\ calls' = [calls EXCEPT ![s] = Free]
  /\ UNCHANGED <<credential, server, registry, budget>>

Garble(s, body) ==
  /\ Spend
  /\ calls[s].pc = "answered" /\ calls[s].waiting
  /\ Got(calls[s], Result(calls[s], body))
  /\ calls' = [calls EXCEPT ![s] = Free]
  /\ UNCHANGED <<credential, server, registry>>

(* the transport rejects; what the server has begun goes on *)
Lose(s) ==
  /\ Spend
  /\ calls[s] # Free /\ calls[s].waiting
  /\ Got(calls[s], "unknown")
  /\ calls' = [calls EXCEPT ![s].waiting = FALSE]
  /\ UNCHANGED <<credential, server, registry>>

Drop(s) ==
  /\ calls[s].pc = "answered" /\ ~calls[s].waiting
  /\ calls' = [calls EXCEPT ![s] = Free]
  /\ UNCHANGED <<credential, server, registry, client, budget>>

-----------------------------------------------------------------------------
(* the environment *)

StudioChanges(t) ==
  /\ Spend /\ revision' = [revision EXCEPT ![t] = @ + 1]
  /\ UNCHANGED <<credential, journal, receipts, effects, registry, client, calls>>

(* History: a call has outlived the credential, or the Show, that the route
   has still to look at. *)
Outlived(pcs) ==
  calls' = [s \in Slots |->
    IF calls[s] # Free /\ calls[s].pc \in pcs THEN [calls[s] EXCEPT !.outlived = TRUE]
    ELSE calls[s]]

ArchiveShow ==
  /\ Spend /\ show = "live" /\ show' = "archived"
  /\ Outlived({"received", "show"})
  /\ UNCHANGED <<generation, revoked, token, server, registry, client>>

Revoke ==
  /\ Spend /\ ~revoked /\ revoked' = TRUE
  /\ Outlived({"received"})
  /\ UNCHANGED <<show, generation, token, server, registry, client>>

(* rotation: the module keeps the old token until an operator enters the new *)
Rotate ==
  /\ Spend /\ ~revoked /\ generation < 2 /\ generation' = generation + 1
  /\ Outlived({"received"})
  /\ UNCHANGED <<show, revoked, token, server, registry, client>>

Reconfigure ==
  /\ token # generation /\ token' = generation
  /\ UNCHANGED <<show, generation, revoked, server, registry, client, calls, budget>>

(* the process ends with what it holds in memory; callers see the connection
   fail.  The module cannot tell how far its calls got. *)
Restart ==
  /\ Spend
  /\ calls' = [s \in Slots |-> Free]
  /\ answers' = [o \in Ops |-> answers[o] \union
       {"unknown" : s \in {q \in Slots : calls[q] # Free /\ calls[q].op = o /\ calls[q].waiting}}]
  /\ receipts' = <<>> /\ entry' = NoEntry /\ suspended' = TRUE
  /\ leases' = [l \in DOMAIN leases |-> [leases[l] EXCEPT !.open = FALSE]]
  /\ UNCHANGED <<credential, revision, journal, effects, actions>>

CallStep(s) ==
  \/ Authorize(s) \/ ReadShow(s) \/ Catalog(s) \/ Visibility(s) \/ Take(s)
  \/ Deliver(s) \/ (\E body \in {"text", "envelope", "null"} : Garble(s, body)) \/ Lose(s) \/ Drop(s)

Requests(s) ==
  \/ Discover(s)
  \/ \E op \in Ops, t \in Targets, n \in 1 .. Budget : Press(s, op, t, n)
  \/ \E op \in Ops, n \in 1 .. Budget : DeviceTakes(s, op, n)
  \/ \E op \in Ops, shape \in Shapes : DeviceSends(s, op, shape)

Leasing ==
  \/ \E g \in 1 .. generation : Suspend(g)
  \/ Register
  \/ \E l \in 1 .. MaxLeases : CloseLease(l) \/ \E t \in Targets, ready \in BOOLEAN : SetReady(l, t, ready)

Next ==
  \/ \E s \in Slots : CallStep(s) \/ Requests(s)
  \/ Leasing
  \/ \E t \in Targets : StudioChanges(t)
  \/ ArchiveShow \/ Revoke \/ Rotate \/ Reconfigure \/ Restart

Spec == Init /\ [][Next]_vars

-----------------------------------------------------------------------------
(* the properties *)

(* Whatever sessions of the credential overlap, end late or report late, the
   registry holds what the newest of them last said, and nothing once it is
   closed: a lease that was replaced neither sets nor removes the entry of its
   successor (DeviceTargetReadinessRegistry). *)
ReadinessBelongsToTheNewest ==
  LET newest == Len(leases)
  IN  /\ entry # NoEntry =>
           entry.lease = newest /\ leases[newest].open /\ entry.ready = leases[newest].ready
      /\ newest > 0 /\ leases[newest].open /\ ~suspended => entry # NoEntry

(* However often a button repeats an operation -- its answer lost, two at a
   time, after a restart -- it changes production at most once, and every
   outcome the button is told is the one outcome the journal has for it. *)
OneOutcome ==
  /\ \A i, j \in DOMAIN effects :
       effects[i].kind = "visibility" /\ effects[j].kind = "visibility" /\ effects[i].op = effects[j].op => i = j
  /\ \A o \in Ops : answers[o] \intersect Outcomes \subseteq
       (IF o \in DOMAIN journal THEN {journal[o].status} ELSE {})

(* A caller that was only ever refused knows that nothing happened: a result
   that hides an effect is reported as unknown, never as a refusal. *)
RefusedMeansNoEffect ==
  \A o \in Ops :
    answers[o] = {"refused"} /\ (\A s \in Slots : calls[s] = Free \/ calls[s].op # o) =>
      \A i \in DOMAIN effects : effects[i].op # o

(* What callers are told is what happened, over lost and garbled answers,
   repeated presses and restarts (executeVisibilityCommand and the device
   control routes). *)
OutcomesAreTrue == OneOutcome /\ RefusedMeansNoEffect

(* An authority that ends while a call is on its way, or between the awaits of
   the route, stops the call: nothing changes production for a call that began
   after its credential was revoked or rotated or its Show archived, or that
   had not got past the route's look at the one that ended.  The route looks at
   the credential, then at the Show, and does not look again: what ends after
   that comes too late for the call. *)
DeadAuthorityDoesNothing == \A i \in DOMAIN effects : effects[i].alive
=============================================================================
