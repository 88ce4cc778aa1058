------------------------------- MODULE MCTables -------------------------------
(***************************************************************************)
(* The tables of a context: its names and its registries.  They share no   *)
(* state and call none of each other, so a behaviour uses one of them.     *)
(***************************************************************************)
EXTENDS Names, Registries

CONSTANTS sa, sb, ta, tb, other

VARIABLE part        \* what the program uses
vars == <<namesVars, registriesVars, part>>

(* Two spellings of a built-in name, and a name of the program's own in two. *)
MCNames  == BuiltIn \cup {"NONE", "Jump", "jump"}
MCFold   == [n \in MCNames |-> CASE n = "NONE" -> "None" [] n = "jump" -> "Jump" [] OTHER -> n]
MCRows   == apply_names \o dimension_names \o interrupt_names \o modifier_names
              \o modifier_aliases \o trigger_mode_names
              \o << <<"Press", 0>>, <<"Release", 0>>, <<"NONE", 0>>,
                 <<"Jump", 0>>, <<"jump", 0>> >>
MCRank   == [n \in MCNames |-> CHOOSE i \in DOMAIN MCRows : MCRows[i][1] = n]
MCEdited == {"NONE", "None", "jump"}
MCFlags  == {mcr_ModFlags.META, {20}}      \* one with a name, one without
MCModes  == {8}

(* A hidden type and a named type of each kind, and a key that is no type's. *)
MCKeys == {"", "Type", other}
MCOwnName == [a \in {sa, sb, ta, tb} |-> IF a \in {sa, ta} THEN "" ELSE "Type"]

Init == NamesInit /\ RegistriesInit /\ part \in {"names", "signals", "triggers", "macros"}

Next ==
  /\ UNCHANGED part
  /\ \/ part = "names" /\ NamesNext /\ UNCHANGED registriesVars
     \/ part = "signals" /\ SignalsNext /\ UNCHANGED namesVars
     \/ part = "triggers" /\ TriggersNext /\ UNCHANGED namesVars
     \/ part = "macros" /\ MacrosNext /\ UNCHANGED namesVars

Spec == Init /\ [][Next]_vars
=============================================================================
