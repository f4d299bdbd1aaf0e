---------------------------- MODULE MCWorkbench -----------------------------
(* Constants for TLC: a Run leaves its plan open, answers without a plan, or *)
(* asks for input.                                                           *)
EXTENDS Workbench

OpenAnsweredAsks ==
  {<<"completed", "open">>, <<"completed", "none">>, <<"awaiting_input", "none">>}
=============================================================================
