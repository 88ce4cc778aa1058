--------------------------- MODULE MCDispatching ---------------------------
(***************************************************************************)
(* A small instance of Dispatching: two macros, a trigger that one         *)
(* modifier lets through, a signal with a dispatcher and one without, and  *)
(* two generic dispatchers, one after the other.                           *)
(***************************************************************************)
EXTENDS Dispatching, TLC

CONSTANTS t1, a1, a2, d1, d2, d0, alt

OneEach    == (a1 :> d1) @@ (a2 :> Nothing)
MCRequired == t1 :> [mode |-> MCR_TM_ANY, flags |-> {alt}]
MCBlocks   == {t1}

\* Nothing tells the macros apart.
MacroSymmetry == Permutations(Macros)
=============================================================================
