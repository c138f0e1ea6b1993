----------------------------- MODULE MCComponent -----------------------------
(***************************************************************************)
(* Modules that share no state are model-checked together: each behaviour  *)
(* is one of one module, and the others stay in an initial state.          *)
(***************************************************************************)
VARIABLE component    \* the module whose steps are taken
=============================================================================
