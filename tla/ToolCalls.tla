------------------------------- MODULE ToolCalls -------------------------------
(* The calls that clients make of a session's tools, for the modules that      *)
(* follow them: through the tabs (TabBook), at an element (ElementAction) and  *)
(* in what they tell of where they end (SettledObservation).                   *)

CONSTANTS Calls    \* tool calls, each made once
===============================================================================
