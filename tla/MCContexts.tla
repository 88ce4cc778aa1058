------------------------------ MODULE MCContexts ------------------------------
(***************************************************************************)
(* Contexts on a small instance.                                           *)
(***************************************************************************)
EXTENDS Contexts

CONSTANTS c1, shift, ctrl
MCBits == {shift, ctrl}

(* Every kind of signal, to one context, whose modifiers the program resets. *)
MCSignals == [context : {c1}, apply : Applies, modifiers : {{shift}, MCBits}]
MCSetByProgram == {c1} \X {{}, MCBits}
MCSwitched == {<<c1, "blockable">>}
=============================================================================
