---------------------------- MODULE DeviceGateway ----------------------------
(***************************************************************************)
(* DeviceWebSocketGateway: the life of the device connections of one       *)
(* credential, from the HTTP upgrade to the disposal of everything that    *)
(* was composed for it, and the stop of the host.                          *)
(*                                                                         *)
(* A connection is admitted through awaits (authenticate, prepare), then   *)
(* asks the coordinator for the credential's lease, opens its audit        *)
(* session, composes a bootstrap session (which takes the audience's       *)
(* catalog generation marker) and a command session, and starts.  The      *)
(* socket may close, the authority may be invalidated and the host may     *)
(* stop between any two of those steps.  The coordinator is modelled by    *)
(* what DeviceConnectionAuthority establishes: a lease is granted once the *)
(* connection it replaces has closed.                                      *)
(***************************************************************************)
EXTENDS Naturals, FiniteSets

CONSTANTS
    Conns,      \* connections of one credential
    NoConn,     \* not a connection
    Faults,     \* the composition steps that may throw
    MaxFaults   \* bound: composition failures

ASSUME GatewayAssumption ==
    /\ NoConn \notin Conns
    /\ Faults \subseteq {"ledger", "issuer", "observe", "commands", "start", "dispose"}
    /\ MaxFaults \in Nat

VARIABLES
    adm,         \* per connection: the upgrade request
    ws,          \* per connection: the socket
    closed,      \* per connection: the close() promise of the transport resolved
    monitor,     \* per connection: the authority monitor's lease
    invalidated, \* per connection: invalidatedReason is set
    coord,       \* per connection: the coordinator's lease
    comp,        \* per connection: the composition after connect() resolved
    boot,        \* per connection: the bootstrap session
    cmd,         \* per connection: the command session
    trans,       \* per connection: the audit session
    disp,        \* per connection: the disposal begun by the close event
    marker,      \* the connection whose store holds the generation marker
    accepting,   \* the gateway admits upgrades
    stop,        \* the host's stop: "no", "closing", "draining", "exited"
    awaited,     \* the disposals the stop waits for
    faults       \* the steps that threw

conns == <<adm, ws, closed, monitor, invalidated, coord, comp, boot, cmd, trans, disp>>
vars == <<conns, marker, accepting, stop, awaited, faults>>

Init ==
    /\ adm = [k \in Conns |-> "new"]
    /\ ws = [k \in Conns |-> "none"]
    /\ closed = [k \in Conns |-> FALSE]
    /\ monitor = [k \in Conns |-> "none"]
    /\ invalidated = [k \in Conns |-> FALSE]
    /\ coord = [k \in Conns |-> "none"]
    /\ comp = [k \in Conns |-> "none"]
    /\ boot = [k \in Conns |-> "none"]
    /\ cmd = [k \in Conns |-> "none"]
    /\ trans = [k \in Conns |-> "none"]
    /\ disp = [k \in Conns |-> "none"]
    /\ marker = NoConn
    /\ accepting = TRUE /\ stop = "no" /\ awaited = {}
    /\ faults = {}

Running == stop # "exited"
Fails(step) ==
    /\ step \in Faults \ faults /\ Cardinality(faults) < MaxFaults
    /\ faults' = faults \cup {step}

(* connection.close: an open socket starts to close. *)
CloseSocket(ks) == ws' = [k \in Conns |-> IF k \in ks /\ ws[k] = "open" THEN "closing" ELSE ws[k]]
Retire(k) == coord' = [coord EXCEPT ![k] = "retired"]
Step(k, at) == comp' = [comp EXCEPT ![k] = at]

(* failHost: no more upgrades, every client is terminated, and onFatal     *)
(* starts the stop of the host.                                            *)
FailHost ==
    /\ accepting' = FALSE
    /\ CloseSocket(Conns)
    /\ stop' = IF stop = "no" THEN "closing" ELSE stop

--------------------------------------------------------------------------
(* admit: the upgrade request. *)

HandleUpgrade(k) ==
    /\ Running /\ adm[k] = "new"
    /\ adm' = [adm EXCEPT ![k] = IF accepting THEN "authenticating" ELSE "rejected"]
    /\ UNCHANGED <<ws, closed, monitor, invalidated, coord, comp, boot, cmd, trans, disp,
                   marker, accepting, stop, awaited, faults>>

(* authenticate returned: with no authority, or while the host stops, the  *)
(* request is refused; otherwise the monitor is prepared.                  *)
Authenticated(k, ok) ==
    /\ Running /\ adm[k] = "authenticating"
    /\ adm' = [adm EXCEPT ![k] = IF ok /\ accepting THEN "preparing" ELSE "rejected"]
    /\ UNCHANGED <<ws, closed, monitor, invalidated, coord, comp, boot, cmd, trans, disp,
                   marker, accepting, stop, awaited, faults>>

(* The upgrade and accept, which run without an await: the monitor's lease *)
(* is activated and the coordinator asked; an authority that changed       *)
(* meanwhile only closes the socket.                                       *)
Accept(k, current) ==
    /\ adm' = [adm EXCEPT ![k] = "accepted"]
    /\ ws' = [ws EXCEPT ![k] = IF current THEN "open" ELSE "closing"]
    /\ monitor' = [monitor EXCEPT ![k] = IF current THEN "current" ELSE "ended"]
    /\ coord' = [coord EXCEPT ![k] = IF current THEN "waiting" ELSE "none"]

(* prepare returned.  An authority that is not current, a host that stops, *)
(* a socket that is gone and a failing upgrade abort the admission.        *)
Prepared(k, ok, current) ==
    /\ Running /\ adm[k] = "preparing"
    /\ IF ok /\ accepting THEN Accept(k, current)
       ELSE /\ adm' = [adm EXCEPT ![k] = "rejected"]
            /\ monitor' = [monitor EXCEPT ![k] = "ended"]
            /\ UNCHANGED <<ws, coord>>
    /\ UNCHANGED <<closed, invalidated, comp, boot, cmd, trans, disp,
                   marker, accepting, stop, awaited, faults>>

--------------------------------------------------------------------------
(* The coordinator. *)

Holders(k) == {j \in Conns \ {k} : coord[j] \in {"granted", "assigned"}}

(* connect closes the connection it replaces ... *)
Replace(k) ==
    /\ Running /\ coord[k] = "waiting"
    /\ \E j \in Holders(k) : ws[j] = "open"
    /\ CloseSocket(Holders(k))
    /\ UNCHANGED <<adm, closed, monitor, invalidated, coord, comp, boot, cmd, trans, disp,
                   marker, accepting, stop, awaited, faults>>

(* ... and grants the lease once that connection has closed.  The witness  *)
(* of a connection whose own socket closed is no longer current, and a     *)
(* coordinator that was shut down refuses.                                 *)
Grant(k, ok) ==
    /\ Running /\ coord[k] = "waiting"
    /\ \A j \in Holders(k) : closed[j]
    /\ ok => monitor[k] = "current" /\ accepting
    /\ coord' = [j \in Conns |-> IF j = k THEN (IF ok THEN "granted" ELSE "refused")
                                 ELSE IF j \in Holders(k) THEN "retired" ELSE coord[j]]
    /\ UNCHANGED <<adm, ws, closed, monitor, invalidated, comp, boot, cmd, trans, disp,
                   marker, accepting, stop, awaited, faults>>

(* invalidate, called by the monitor: the lease, if it is known here, is   *)
(* retired and the transport closed.                                       *)
Invalidate(k) ==
    /\ Running /\ monitor[k] = "current"
    /\ monitor' = [monitor EXCEPT ![k] = "ended"]
    /\ invalidated' = [invalidated EXCEPT ![k] = TRUE]
    /\ IF coord[k] = "assigned" THEN Retire(k) ELSE UNCHANGED coord
    /\ CloseSocket({k})
    /\ UNCHANGED <<adm, closed, comp, boot, cmd, trans, disp, marker, accepting, stop, awaited, faults>>

--------------------------------------------------------------------------
(* After connect: the composition. *)

(* The continuation of connect.  An authority that ended meanwhile gives   *)
(* the lease back; otherwise the audit session opens.                      *)
LeaseResolved(k) ==
    /\ Running /\ coord[k] = "granted" /\ comp[k] = "none"
    /\ IF invalidated[k] \/ monitor[k] # "current"
         THEN Retire(k) /\ Step(k, "ended") /\ CloseSocket({k}) /\ UNCHANGED trans
         ELSE /\ coord' = [coord EXCEPT ![k] = "assigned"]
              /\ trans' = [trans EXCEPT ![k] = "open"]
              /\ Step(k, "create") /\ UNCHANGED ws
    /\ UNCHANGED <<adm, closed, monitor, invalidated, boot, cmd, disp, marker, accepting, stop,
                   awaited, faults>>

(* The ledger refuses the first record of the connection: the host fails. *)
LedgerRefuses(k) ==
    /\ Running /\ coord[k] = "granted" /\ comp[k] = "none" /\ Fails("ledger")
    /\ ~invalidated[k] /\ monitor[k] = "current"
    /\ coord' = [coord EXCEPT ![k] = "assigned"]
    /\ trans' = [trans EXCEPT ![k] = "closed"]
    /\ Step(k, "ended")
    /\ FailHost
    /\ UNCHANGED <<adm, closed, monitor, invalidated, boot, cmd, disp, marker, awaited>>

(* connect was refused. *)
LeaseRefused(k) ==
    /\ Running /\ coord[k] = "refused" /\ comp[k] = "none"
    /\ monitor' = [monitor EXCEPT ![k] = "ended"]
    /\ Step(k, "ended") /\ CloseSocket({k})
    /\ UNCHANGED <<adm, closed, invalidated, coord, boot, cmd, trans, disp, marker, accepting,
                   stop, awaited, faults>>

(* The catch block: the command session goes, the audit session is closed, *)
(* the socket is closed.  The bootstrap session is left to the close event.*)
Catch(k) ==
    /\ cmd' = [cmd EXCEPT ![k] = IF @ = "live" THEN "disposed" ELSE @]
    /\ trans' = [trans EXCEPT ![k] = "closed"]
    /\ Step(k, "ended") /\ CloseSocket({k})

(* create, first half: the generation store takes the audience's marker;   *)
(* a marker that is there makes it fail.                                   *)
CreateIssuer(k) ==
    /\ Running /\ comp[k] = "create"
    /\ IF marker = NoConn
         THEN /\ marker' = k /\ Step(k, "observe")
              /\ UNCHANGED <<cmd, trans, ws>>
         ELSE Catch(k) /\ UNCHANGED marker
    /\ UNCHANGED <<adm, closed, monitor, invalidated, coord, boot, disp, accepting, stop,
                   awaited, faults>>

(* The issuer's own failure closes the store again. *)
IssuerFails(k) ==
    /\ Running /\ comp[k] = "create" /\ marker = NoConn /\ Fails("issuer")
    /\ Catch(k)
    /\ UNCHANGED <<adm, closed, monitor, invalidated, coord, boot, disp, marker, accepting,
                   stop, awaited>>

(* create, second half: the production state is observed and the session   *)
(* returned.                                                               *)
CreateSession(k) ==
    /\ Running /\ comp[k] = "observe"
    /\ boot' = [boot EXCEPT ![k] = "live"]
    /\ Step(k, "commands")
    /\ UNCHANGED <<adm, ws, closed, monitor, invalidated, coord, cmd, trans, disp, marker,
                   accepting, stop, awaited, faults>>

(* The observation throws, as it does for a quarantined target: nobody     *)
(* closes the store.                                                       *)
ObserveFails(k) ==
    /\ Running /\ comp[k] = "observe" /\ Fails("observe")
    /\ Catch(k)
    /\ UNCHANGED <<adm, closed, monitor, invalidated, coord, boot, disp, marker, accepting,
                   stop, awaited>>

(* The command session is there.  A connection whose authority or socket   *)
(* went meanwhile is taken down here, the others start.                    *)
CreateCommands(k) ==
    /\ Running /\ comp[k] = "commands"
    /\ IF invalidated[k] \/ monitor[k] # "current" \/ ws[k] # "open"
         THEN cmd' = [cmd EXCEPT ![k] = "disposed"] /\ Step(k, "late")
         ELSE cmd' = [cmd EXCEPT ![k] = "live"] /\ Step(k, "start")
    /\ UNCHANGED <<adm, ws, closed, monitor, invalidated, coord, boot, trans, disp, marker,
                   accepting, stop, awaited, faults>>

CommandsFail(k) ==
    /\ Running /\ comp[k] = "commands" /\ Fails("commands")
    /\ Catch(k)
    /\ UNCHANGED <<adm, closed, monitor, invalidated, coord, boot, disp, marker, accepting,
                   stop, awaited>>

(* bootstrapSession.dispose, once however often it is called: its store    *)
(* releases the marker.                                                    *)
DisposeBoot(k) ==
    /\ boot' = [boot EXCEPT ![k] = IF @ = "live" THEN "disposed" ELSE @]
    /\ marker' = IF boot[k] = "live" /\ marker = k THEN NoConn ELSE marker

(* The composition that came too late disposes its sessions and retires; a *)
(* disposal that fails fails the host.                                     *)
LateDispose(k, ok) ==
    /\ Running /\ comp[k] = "late"
    /\ DisposeBoot(k) /\ Retire(k) /\ Step(k, "ended")
    /\ IF ok THEN CloseSocket({k}) /\ UNCHANGED <<accepting, stop, faults>>
       ELSE boot[k] = "live" /\ Fails("dispose") /\ FailHost
    /\ UNCHANGED <<adm, closed, monitor, invalidated, cmd, trans, disp, awaited>>

Started(k) ==
    /\ Running /\ comp[k] = "start"
    /\ Step(k, "started")
    /\ UNCHANGED <<adm, ws, closed, monitor, invalidated, coord, boot, cmd, trans, disp, marker,
                   accepting, stop, awaited, faults>>

StartFails(k) ==
    /\ Running /\ comp[k] = "start" /\ Fails("start")
    /\ Catch(k)
    /\ UNCHANGED <<adm, closed, monitor, invalidated, coord, boot, disp, marker, accepting,
                   stop, awaited>>

--------------------------------------------------------------------------
(* The socket. *)

(* The device or the network closes it. *)
PeerCloses(k) ==
    /\ Running /\ ws[k] = "open"
    /\ CloseSocket({k})
    /\ UNCHANGED <<adm, closed, monitor, invalidated, coord, comp, boot, cmd, trans, disp, marker,
                   accepting, stop, awaited, faults>>

(* closeTransport gives up waiting: the socket is terminated, its close    *)
(* event is still to come.                                                 *)
CloseTimesOut(k) ==
    /\ Running /\ ws[k] = "closing" /\ ~closed[k]
    /\ closed' = [closed EXCEPT ![k] = TRUE]
    /\ UNCHANGED <<adm, ws, monitor, invalidated, coord, comp, boot, cmd, trans, disp, marker,
                   accepting, stop, awaited, faults>>

(* The close event forgets the bootstrap session. *)
CloseEventForgetting(k) ==
    /\ Running /\ ws[k] = "closing"
    /\ ws' = [ws EXCEPT ![k] = "closed"]
    /\ closed' = [closed EXCEPT ![k] = TRUE]
    /\ monitor' = [monitor EXCEPT ![k] = "ended"]
    /\ cmd' = [cmd EXCEPT ![k] = IF @ = "live" THEN "disposed" ELSE @]
    /\ disp' = [disp EXCEPT ![k] = "done"]
    /\ trans' = [trans EXCEPT ![k] = IF @ = "open" THEN "closed" ELSE @]
    /\ IF coord[k] = "assigned" THEN Retire(k) ELSE UNCHANGED coord
    /\ UNCHANGED <<adm, invalidated, comp, boot, marker, accepting, stop, awaited, faults>>

(* The close event: the monitor's lease ends, the command session is       *)
(* disposed, and a bootstrap session that is there by now is disposed      *)
(* before the audit session closes and the lease is retired.               *)
CloseEvent(k) ==
    /\ Running /\ ws[k] = "closing"
    /\ ws' = [ws EXCEPT ![k] = "closed"]
    /\ closed' = [closed EXCEPT ![k] = TRUE]
    /\ monitor' = [monitor EXCEPT ![k] = "ended"]
    /\ cmd' = [cmd EXCEPT ![k] = IF @ = "live" THEN "disposed" ELSE @]
    /\ IF boot[k] # "none"
         THEN disp' = [disp EXCEPT ![k] = "boot"] /\ UNCHANGED <<trans, coord>>
         ELSE /\ disp' = [disp EXCEPT ![k] = "done"]
              /\ trans' = [trans EXCEPT ![k] = IF @ = "open" THEN "closed" ELSE @]
              /\ IF coord[k] = "assigned" THEN Retire(k) ELSE UNCHANGED coord
    /\ UNCHANGED <<adm, invalidated, comp, boot, marker, accepting, stop, awaited, faults>>

(* The disposal waits for a session that started. *)
DisposeStarted(k, ok) ==
    /\ Running /\ disp[k] = "boot" /\ comp[k] = "started"
    /\ DisposeBoot(k)
    /\ disp' = [disp EXCEPT ![k] = "done"]
    /\ trans' = [trans EXCEPT ![k] = "closed"]
    /\ IF coord[k] = "assigned" THEN Retire(k) ELSE UNCHANGED coord
    /\ UNCHANGED <<adm, closed, monitor, invalidated, cmd, comp, awaited, accepting, ws, stop, faults>>

(* The disposal goes on; a disposal that fails fails the host. *)
Dispose(k, ok) ==
    /\ Running /\ disp[k] = "boot"
    /\ DisposeBoot(k)
    /\ disp' = [disp EXCEPT ![k] = "done"]
    /\ trans' = [trans EXCEPT ![k] = "closed"]
    /\ IF coord[k] = "assigned" THEN Retire(k) ELSE UNCHANGED coord
    /\ IF ok THEN UNCHANGED <<accepting, ws, stop, faults>>
       ELSE Fails("dispose") /\ FailHost
    /\ UNCHANGED <<adm, closed, monitor, invalidated, cmd, comp, awaited>>

--------------------------------------------------------------------------
(* The stop of the host. *)

(* A signal: upgrades stop, the coordinator shuts down, clients close. *)
Stop ==
    /\ stop = "no"
    /\ FailHost
    /\ coord' = [k \in Conns |-> IF coord[k] = "assigned" THEN "retired" ELSE coord[k]]
    /\ UNCHANGED <<adm, closed, monitor, invalidated, comp, boot, cmd, trans, disp, marker, awaited, faults>>

(* The transports are closed or the timeout passed: the disposals begun so *)
(* far are awaited.                                                        *)
StopDrains ==
    /\ stop = "closing"
    /\ \A k \in Conns : ws[k] \in {"open", "closing"} => closed[k]
    /\ stop' = "draining"
    /\ awaited' = {k \in Conns : disp[k] = "boot"}
    /\ UNCHANGED <<conns, marker, accepting, faults>>

(* Sequence store, ledger and credential store close; the process exits. *)
Exit ==
    /\ stop = "draining"
    /\ \A k \in awaited : disp[k] = "done"
    /\ stop' = "exited"
    /\ UNCHANGED <<conns, marker, accepting, awaited, faults>>

Compose(k) ==
    \/ LeaseResolved(k) \/ LeaseRefused(k) \/ CreateIssuer(k) \/ CreateSession(k)
    \/ CreateCommands(k) \/ LateDispose(k, TRUE) \/ Started(k)

Next ==
    \/ \E k \in Conns :
          \/ HandleUpgrade(k) \/ LedgerRefuses(k)
          \/ \E ok, current \in BOOLEAN : Prepared(k, ok, current)
          \/ \E ok \in BOOLEAN : Authenticated(k, ok) \/ Grant(k, ok) \/ Dispose(k, ok)
                                 \/ LateDispose(k, ok)
          \/ Replace(k) \/ Invalidate(k) \/ Compose(k)
          \/ IssuerFails(k) \/ ObserveFails(k) \/ CommandsFail(k) \/ StartFails(k)
          \/ PeerCloses(k) \/ CloseTimesOut(k) \/ CloseEvent(k)
    \/ Stop \/ StopDrains \/ Exit

Spec == Init /\ [][Next]_vars

(* Promises settle, sockets that are closed emit their event, and the      *)
(* host's stop goes on; nothing makes a device connect or a host stop.     *)
Fairness ==
    /\ \A k \in Conns :
         /\ WF_vars(Compose(k)) /\ WF_vars(CloseEvent(k))
         /\ WF_vars(Dispose(k, TRUE)) /\ WF_vars(Replace(k) \/ \E ok \in BOOLEAN : Grant(k, ok))
    /\ WF_vars(StopDrains) /\ WF_vars(Exit)

--------------------------------------------------------------------------
(* The disposal of a connection is over. *)
Gone(k) == ws[k] = "closed" /\ disp[k] = "done" /\ comp[k] \in {"none", "ended", "started"}

(* The generation marker admits one bootstrap session per audience, so a   *)
(* replacement granted while its predecessor is still being disposed never *)
(* runs beside it; and whatever order socket, authority and composition    *)
(* end in, a connection that is gone leaves no session, no open audit, no  *)
(* lease and no marker.  The exceptions are the code's own: a composition  *)
(* that throws after it took the marker keeps it, and a session that is    *)
(* there only after its close event is left alone when the command session *)
(* then fails.                                                             *)
NothingOutlivesTheTransport ==
    \A k \in Conns :
       /\ boot[k] = "live" => marker = k
       /\ Running /\ Gone(k) =>
            /\ cmd[k] # "live" /\ trans[k] # "open"
            /\ monitor[k] # "current" /\ coord[k] # "assigned"
            /\ boot[k] = "live" => "commands" \in faults
            /\ marker = k => faults \cap {"observe", "commands"} # {}

(* A socket that closed is taken down completely, or the host exits. *)
ClosedConnectionsEnd ==
    Fairness => \A k \in Conns : ws[k] = "closing" ~> (Gone(k) \/ ~Running)

==========================================================================
