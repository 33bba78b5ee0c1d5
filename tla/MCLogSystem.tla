----------------------------- MODULE MCLogSystem -----------------------------
(* Constants for model checking LogSystem.                                  *)
EXTENDS LogSystem

CONSTANTS system, extra   \* names of loggers

OneLogger == <<system>>
TwoNames == {Default, system, extra}
=============================================================================
