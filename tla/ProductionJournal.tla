-------------------------- MODULE ProductionJournal --------------------------
(***************************************************************************)
(* ProductionAuthority implements OperationJournal: the decisions are the  *)
(* rows of production_commands, the revision of a target is that of its    *)
(* last history record.                                                    *)
(***************************************************************************)
EXTENDS ProductionAuthority

DurableRevision == [t \in Targets |-> TargetHead(history, t).rev]

Decisions ==
  {[key |-> <<commands[i].principal, commands[i].op>>, target |-> commands[i].intent.target,
    expected |-> commands[i].intent.expected, applied |-> commands[i].status = "applied"] :
      i \in 1 .. Len(commands)}

(* The revisions a device may name. *)
NamedRevisions == {i.expected : i \in DeviceIntents}

Journal == INSTANCE OperationJournal
  WITH Keys <- Creds \X Ops, Targets <- Targets, Expected <- NamedRevisions,
       revision <- DurableRevision, decided <- Decisions

(* Every step of the service and the store, with its crashes, refused and
   uncertain commits, damaged rows and restarts, is a step of the abstract
   journal or none: a journalled command is never dropped, changed or decided
   again, and no target skips or repeats a revision. *)
ImplementsJournal == Journal!Spec
=============================================================================
