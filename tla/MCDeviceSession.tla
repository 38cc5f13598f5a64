--------------------------- MODULE MCDeviceSession ---------------------------
(* The three stations of a device connection: `part' says which of them       *)
(* moves, and the others stay in their initial state.                         *)
EXTENDS DeviceSession

CONSTANTS k1, k2, Parts

VARIABLE part

sync == <<version, issuer, s, queue, pump, reserved, wire, back, dev, budget>>
boots == <<bVersion, b, bQueue, granting, lane, bReserved, audit, session, registry,
           bWire, bBack, bDev, bBudget>>

(* Beside the credential for both targets, one for Preview only with more room *)
(* for events and retries: the liveness properties are checked on it.         *)
Narrow == INSTANCE PostReadySync
            WITH Targets <- {"preview"}, MaxRetries <- 1, Budget <- 3,
                 Faults <- {"change", "confirm", "age", "silence", "refuse", "send", "stray"}

Solo == INSTANCE BootstrapReadiness
          WITH Targets <- {"preview"}, MaxRetries <- 1, Budget <- 2,
               Faults <- BootEvents,
               version <- bVersion, queue <- bQueue, reserved <- bReserved, wire <- bWire,
               back <- bBack, dev <- bDev, budget <- bBudget

ASSUME Narrow!SyncAssumption /\ Solo!BootstrapAssumption

MCInit ==
    /\ part \in Parts
    /\ Init
    /\ IF part = "solo" THEN Solo!Init ELSE Boot!Init
    /\ IF part = "narrow" THEN Narrow!Init ELSE Sync!Init

MCNext ==
    /\ UNCHANGED part
    /\ \/ part = "gateway" /\ Next /\ UNCHANGED <<sync, boots>>
       \/ part = "boot" /\ Boot!Next /\ UNCHANGED <<vars, sync>>
       \/ part = "solo" /\ Solo!Next /\ UNCHANGED <<vars, sync>>
       \/ part = "both" /\ Sync!Next /\ UNCHANGED <<vars, boots>>
       \/ part = "narrow" /\ Narrow!Next /\ UNCHANGED <<vars, boots>>

MCSpec == MCInit /\ [][MCNext]_<<part, vars, sync, boots>>

(* PostReadySync: once nothing changes, every target is ready or the       *)
(* connection closed.                                                      *)
Settles == part = "narrow" => Narrow!Settles

(* PostReadySync: a change outside the credential's targets leaves the     *)
(* connection alone, which ADR-0031 says and the code does not do.         *)
UnaffectedTargetsKeepEvidence == part = "narrow" => Narrow!UnaffectedTargetsKeepEvidence

(* BootstrapReadiness: every connection becomes ready or closes.           *)
BootstrapEnds == part = "solo" => Solo!BootstrapEnds
=============================================================================
