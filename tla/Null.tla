--------------------------------- MODULE Null ---------------------------------
(* The absence of a value: null, undefined and '' in the dashboard of the Code *)
(* Colosseum, None in its orchestrator.                                        *)

CONSTANT None

===============================================================================
