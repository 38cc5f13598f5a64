---------------------------- MODULE DeviceSession ----------------------------
(* The three stations of a device connection, side by side: the gateway that  *)
(* composes it, the bootstrap that makes it ready and the synchronisation     *)
(* that keeps it current.  They share no variable; the targets of the         *)
(* credential are the same.                                                   *)
EXTENDS DeviceGateway, Integers, Sequences

CONSTANTS
    Targets,                             \* of the device's credential
    SyncRetries, SyncBudget, SyncEvents, \* PostReadySync
    BootRetries, BootBudget, BootEvents  \* BootstrapReadiness

VARIABLES
    version, issuer, s, queue, pump, reserved, wire, back, dev, budget,
    bVersion, b, bQueue, granting, lane, bReserved, audit, session, registry,
    bWire, bBack, bDev, bBudget

Sync == INSTANCE PostReadySync
          WITH MaxRetries <- SyncRetries, Budget <- SyncBudget, Faults <- SyncEvents
Boot == INSTANCE BootstrapReadiness
          WITH MaxRetries <- BootRetries, Budget <- BootBudget, Faults <- BootEvents,
               version <- bVersion, queue <- bQueue, reserved <- bReserved, wire <- bWire,
               back <- bBack, dev <- bDev, budget <- bBudget

ASSUME DeviceSessionAssumption == Sync!SyncAssumption /\ Boot!BootstrapAssumption

(* PostReadySync: readiness is evidence of what the device shows.             *)
EvidenceIsCurrent == Sync!EvidenceIsCurrent

(* BootstrapReadiness: the registry is never ahead of the ledger, the device  *)
(* or the disposal.                                                           *)
RegistryIsCurrent == Boot!RegistryIsCurrent
=============================================================================
