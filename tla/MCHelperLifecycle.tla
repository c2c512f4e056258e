-------------------------- MODULE MCHelperLifecycle --------------------------
(***************************************************************************)
(* The instance of HelperLifecycle for TLC: one browser, and a queue in    *)
(* which a click or a report may wait behind another event.                *)
(***************************************************************************)
EXTENDS HelperLifecycle

=============================================================================
