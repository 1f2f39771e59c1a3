--------------------------- MODULE SetupLifecycle ---------------------------
(***************************************************************************)
(* The transition table of a setup (ingest/project_a/state.py).            *)
(*                                                                         *)
(* An event type fixes its event class (_CLASS_TYPES in service.py), so    *)
(* the table is a function of the current state and the type.  Reason      *)
(* codes are wording and are left out.                                     *)
(***************************************************************************)

CONSTANT NoSetup   \* the setup has no current state

Telemetry == {"SNR_UPDATE", "EXPANSION_UPDATE"}
ReadyStates == {"SNR_REJECTION_READY", "SNR_BREAK_READY"}
Endings == {"SETUP_INVALIDATED", "SETUP_EXPIRED"}
Lifecycle ==
    Endings \cup {"ENTRY_WINDOW_OPEN", "ENTRY_WINDOW_CLOSED", "THESIS_INVALIDATED"}
TerminalStates == Lifecycle \ {"ENTRY_WINDOW_OPEN"}
SetupStates == {"SETUP_CANDIDATE"} \cup ReadyStates \cup Lifecycle
EventTypes == Telemetry \cup SetupStates

ASSUME NoSetupAssumption == NoSetup \notin SetupStates

\* The states an event type may be applied to.
Before(type) ==
    CASE type = "SETUP_CANDIDATE" -> {NoSetup, "SETUP_CANDIDATE"}
      [] type \in ReadyStates     -> {NoSetup, "SETUP_CANDIDATE"} \cup ReadyStates
      [] type \in Endings         -> SetupStates \ TerminalStates
      [] OTHER                    -> ReadyStates \cup {"ENTRY_WINDOW_OPEN"}

\* transition(): telemetry is always recorded, any other type moves the setup
\* to the state of that name, and only readiness is dispatched.
Transition(current, type) ==
    IF type \in Telemetry
    THEN [allowed |-> TRUE, next |-> current, persist |-> current # NoSetup,
          dispatch |-> FALSE]
    ELSE [allowed |-> current \in Before(type), next |-> type,
          persist |-> current \in Before(type),
          dispatch |-> current \in Before(type) /\ type \in ReadyStates]
=============================================================================
