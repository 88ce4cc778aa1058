------------------------------- MODULE Names -------------------------------
(***************************************************************************)
(* The names of the values of libmacro (src/src/serial.cpp,                *)
(* src/mcr/serial.h, src/mcr/types.h): the built-in tables, the extension  *)
(* maps in front of them, and the lookups in both directions.  The tables  *)
(* and the maps compare names each in their own way.                       *)
(*                                                                         *)
(* Nothing is locked: the program edits and looks up from one thread at a  *)
(* time, so each member function is one step.  Flags are sets of bits.     *)
(***************************************************************************)
EXTENDS Integers, Sequences, FiniteSets, Functions

CONSTANTS
  Names,       \* the spellings of names, those of the tables among them
  Fold,        \* for each, the one spelling that stands for its lower-case text
  Rank,        \* the place of those texts in lexicographic order
  Null,        \* a null pointer
  Edited,      \* the names the program edits
  Flags,       \* the modifier flags the program edits names of
  Modes        \* the trigger modes it edits names of

-----------------------------------------------------------------------------
(* The enumerations. *)

mcr_ApplyValue == [SET |-> 0, UNSET |-> 1, BOTH |-> 2, TOGGLE |-> 3]

mcr_Dimension == [X |-> 0, Y |-> 1, Z |-> 2, W |-> 3]

InterruptValue == [CONTINUE |-> 0, PAUSE |-> 1, INTERRUPT |-> 2,
                   INTERRUPT_ALL |-> 3, DISABLE |-> 4]

mcr_ModFlags == [
  NONE |-> {}, ALT |-> {0}, ALTGR |-> {1}, AMIGA |-> {2}, CMD |-> {3}, CODE |-> {4},
  COMPOSE |-> {5}, CTRL |-> {6}, FN |-> {7}, FRONT |-> {8}, GRAPH |-> {9},
  HYPER |-> {10}, META |-> {11}, SHIFT |-> {12}, SUPER |-> {13}, SYMBOL |-> {14},
  TOP |-> {15}, OS |-> {16}, USER |-> {17}, ANY |-> 0 .. 31]

mcr_TriggerMode == [EQUAL |-> 0, ALL |-> 1, NONE |-> 2, EXCLUSIVE |-> 3,
                    INEQUAL |-> 4, MATCH |-> 5, ANY |-> 6, USER |-> 7]

NotFound == -1      \* the value that is none of them
AnyFlags == mcr_ModFlags.ANY

-----------------------------------------------------------------------------
(* The tables of name and value. *)

apply_names == LET V == mcr_ApplyValue IN
  << <<"Set", V.SET>>, <<"Unset", V.UNSET>>, <<"Both", V.BOTH>>, <<"Toggle", V.TOGGLE>> >>

dimension_names == LET V == mcr_Dimension IN
  << <<"X", V.X>>, <<"Y", V.Y>>, <<"Z", V.Z>>, <<"W", V.W>> >>

interrupt_names == LET V == InterruptValue IN
  << <<"Continue", V.CONTINUE>>, <<"Pause", V.PAUSE>>, <<"Interrupt One", V.INTERRUPT>>,
     <<"Interrupt All", V.INTERRUPT_ALL>>, <<"Disable", V.DISABLE>> >>

modifier_names == LET V == mcr_ModFlags IN
  << <<"None", V.NONE>>, <<"Any", V.ANY>>, <<"Alt", V.ALT>>, <<"AltGr", V.ALTGR>>,
     <<"Amiga", V.AMIGA>>, <<"Cmd", V.CMD>>, <<"Code", V.CODE>>,
     <<"Compose", V.COMPOSE>>, <<"Ctrl", V.CTRL>>, <<"Fn", V.FN>>, <<"Front", V.FRONT>>,
     <<"Graph", V.GRAPH>>, <<"Hyper", V.HYPER>>, <<"Meta", V.META>>,
     <<"Shift", V.SHIFT>>, <<"Super", V.SUPER>>, <<"Symbol", V.SYMBOL>>,
     <<"Top", V.TOP>>, <<"OS", V.OS>>, <<"User", V.USER>> >>

modifier_aliases == LET V == mcr_ModFlags IN
  << <<"Option", V.ALT>>, <<"Alt Gr", V.ALTGR>>, <<"alt_gr", V.ALTGR>>,
     <<"Command", V.CMD>>, <<"Control", V.CTRL>>, <<"Win", V.OS>>, <<"Mac", V.OS>>,
     <<"Linux", V.OS>>, <<"Unix", V.OS>>, <<"Windows", V.OS>>, <<"Window", V.OS>>,
     <<"Apple", V.OS>>, <<"Macintosh", V.OS>> >>

trigger_mode_names == LET V == mcr_TriggerMode IN
  << <<"Equal", V.EQUAL>>, <<"All", V.ALL>>, <<"None", V.NONE>>,
     <<"Exclusive", V.EXCLUSIVE>>, <<"Inequal", V.INEQUAL>>, <<"Match", V.MATCH>>,
     <<"Any", V.ANY>>, <<"User", V.USER>> >>

NamesIn(table) == {table[i][1] : i \in DOMAIN table}
Tables == {apply_names, dimension_names, interrupt_names, modifier_names,
           modifier_aliases, trigger_mode_names}
BuiltIn == UNION {NamesIn(t) : t \in Tables} \cup {"Press", "Release"}

ASSUME NamesAssumption ==
  /\ Fold \in [Names -> Names]
  /\ Rank \in [Names -> Nat]
  /\ \A m, n \in Names : Rank[Fold[m]] = Rank[Fold[n]] => Fold[m] = Fold[n]
  /\ BuiltIn \subseteq Names
  /\ Null \notin Names
  /\ Edited \subseteq Names
  /\ Flags \subseteq SUBSET (0 .. 31)
  /\ Modes \subseteq Nat

VARIABLES
  modifierNameExt,      \* _modifierNameExt, whose keys are compared without case
  modifierValueExt,     \* _modifierValueExt
  triggerModeNameExt,   \* _triggerModeNameExt
  triggerModeValueExt   \* _triggerModeValueExt
modifierVars == <<modifierNameExt, modifierValueExt>>
triggerModeVars == <<triggerModeNameExt, triggerModeValueExt>>
namesVars == <<modifierVars, triggerModeVars>>

NoEntry == [k \in {} |-> Null]
NamesInit ==
  /\ modifierNameExt = NoEntry
  /\ modifierValueExt = NoEntry
  /\ triggerModeNameExt = NoEntry
  /\ triggerModeValueExt = NoEntry

-----------------------------------------------------------------------------
(* Lookups by name. *)

(* How the tables compare: character by character, without case. *)
ci_equal(a, b) == Fold[a] = Fold[b]

(* Mutant of nameValue: the loop begins with the second row. *)
nameValueLate(table, notFound) == [name \in Names |->
  LET found == {i \in DOMAIN table \ {1} : ci_equal(table[i][1], name)}
  IN IF found = {} THEN notFound
     ELSE table[CHOOSE i \in found : \A j \in found : i <= j][2]]

(* nameValue(): for each name, the first row that has it in any case. *)
nameValue(table, notFound) == [name \in Names |->
  LET found == {i \in DOMAIN table : ci_equal(table[i][1], name)}
  IN IF found = {} THEN notFound
     ELSE table[CHOOSE i \in found : \A j \in found : i <= j][2]]
ApplyNamed       == nameValue(apply_names, NotFound)
DimensionNamed   == nameValue(dimension_names, NotFound)
InterruptNamed   == nameValue(interrupt_names, NotFound)
ModifierNamed    == nameValue(modifier_names, AnyFlags)
AliasNamed       == nameValue(modifier_aliases, AnyFlags)
TriggerModeNamed == nameValue(trigger_mode_names, NotFound)

applyValue(name) == IF name = Null THEN NotFound ELSE ApplyNamed[name]
keyPress(name)   == applyValue(name)
dimension(name)  == IF name = Null THEN NotFound ELSE DimensionNamed[name]
interrupt(name)  == IF name = Null THEN NotFound ELSE InterruptNamed[name]

(* Mutant of string_less_ci: the map takes the order of std::string. *)
LessExactly(a, b) == Rank[a] < Rank[b]

(* How the maps of names compare: the lower-case texts, in their order. *)
Lower                == [n \in Names |-> Rank[Fold[n]]]
string_less_ci(a, b) == Lower[a] < Lower[b]

(* The key a map has for a name is the spelling that came first. *)
Matching(ext, name) ==
  {k \in DOMAIN ext : ~string_less_ci(k, name) /\ ~string_less_ci(name, k)}
Extended(ext, name) == Matching(ext, name) # {}
Place(ext, name)    == CHOOSE k \in Matching(ext, name) : TRUE

(* A name that is none, and a null one, mean every flag. *)
BuiltInModifiers(name) ==
  IF ModifierNamed[name] # AnyFlags THEN ModifierNamed[name] ELSE AliasNamed[name]
modifiers(name) ==
  IF name = Null THEN AnyFlags
  ELSE IF Extended(modifierNameExt, name) THEN modifierNameExt[Place(modifierNameExt, name)]
  ELSE BuiltInModifiers(name)

triggerMode(name) ==
  IF name = Null THEN NotFound
  ELSE IF Extended(triggerModeNameExt, name)
       THEN triggerModeNameExt[Place(triggerModeNameExt, name)]
  ELSE TriggerModeNamed[name]

-----------------------------------------------------------------------------
(* Lookups by value: the switch statements, and the maps before them. *)

caseName(cases, value) ==
  LET found == {i \in DOMAIN cases : cases[i][2] = value}
  IN IF found = {} THEN Null ELSE cases[CHOOSE i \in found : TRUE][1]

applyValueName(value) == LET V == mcr_ApplyValue IN
  caseName(<< <<"Set", V.SET>>, <<"Unset", V.UNSET>>, <<"Both", V.BOTH>>,
              <<"Toggle", V.TOGGLE>> >>, value)

keyPressName(value) ==
  CASE value = mcr_ApplyValue.SET   -> "Press"
    [] value = mcr_ApplyValue.UNSET -> "Release"
    [] OTHER                        -> applyValueName(value)

dimensionName(value) == LET V == mcr_Dimension IN
  caseName(<< <<"X", V.X>>, <<"Y", V.Y>>, <<"Z", V.Z>>, <<"W", V.W>> >>, value)

interruptName(value) == LET V == InterruptValue IN
  caseName(<< <<"Continue", V.CONTINUE>>, <<"Pause", V.PAUSE>>,
              <<"Interrupt One", V.INTERRUPT>>, <<"Interrupt All", V.INTERRUPT_ALL>>,
              <<"Disable", V.DISABLE>> >>, value)

modifierCases == LET V == mcr_ModFlags IN
  << <<"None", V.NONE>>, <<"Any", V.ANY>>, <<"Alt", V.ALT>>, <<"AltGr", V.ALTGR>>,
     <<"Amiga", V.AMIGA>>, <<"Cmd", V.CMD>>, <<"Code", V.CODE>>,
     <<"Compose", V.COMPOSE>>, <<"Ctrl", V.CTRL>>, <<"Fn", V.FN>>, <<"Front", V.FRONT>>,
     <<"Graph", V.GRAPH>>, <<"Hyper", V.HYPER>>, <<"Meta", V.META>>,
     <<"Shift", V.SHIFT>>, <<"Super", V.SUPER>>, <<"Symbol", V.SYMBOL>>,
     <<"Top", V.TOP>>, <<"OS", V.OS>>, <<"User", V.USER>> >>
modifiersName(value) ==
  IF value \in DOMAIN modifierValueExt THEN modifierValueExt[value]
  ELSE caseName(modifierCases, value)

triggerModeCases == LET V == mcr_TriggerMode IN
  << <<"Equal", V.EQUAL>>, <<"All", V.ALL>>, <<"None", V.NONE>>,
     <<"Exclusive", V.EXCLUSIVE>>, <<"Inequal", V.INEQUAL>>, <<"Any", V.ANY>>,
     <<"User", V.USER>>, <<"Match", V.MATCH>> >>
triggerModeName(value) ==
  IF value \in DOMAIN triggerModeValueExt THEN triggerModeValueExt[value]
  ELSE caseName(triggerModeCases, value)
-----------------------------------------------------------------------------
(* Edits of the maps; a null name edits nothing. *)

Put(ext, key, value) ==
  [k \in DOMAIN ext \cup {key} |-> IF k = key THEN value ELSE ext[k]]

(* operator[] and erase() of a map of names. *)
Named(ext, name, value) ==
  Put(ext, IF Extended(ext, name) THEN Place(ext, name) ELSE name, value)
Erased(ext, name) == Restrict(ext, DOMAIN ext \ Matching(ext, name))

setModifierName(name, value) ==
  /\ name # Null
  /\ modifierNameExt' = Named(modifierNameExt, name, value)
  /\ UNCHANGED <<modifierValueExt, triggerModeVars>>

(* Mutant of setModifierValueName: a null name is stored. *)
setAnyValueName(value, name) ==
  /\ modifierValueExt' = Put(modifierValueExt, value, name)
  /\ UNCHANGED <<modifierNameExt, triggerModeVars>>

setModifierValueName(value, name) ==
  /\ name # Null
  /\ modifierValueExt' = Put(modifierValueExt, value, name)
  /\ UNCHANGED <<modifierNameExt, triggerModeVars>>

removeModifierName(name) ==
  /\ name # Null
  /\ modifierNameExt' = Erased(modifierNameExt, name)
  /\ UNCHANGED <<modifierValueExt, triggerModeVars>>

(* Mutant of setTriggerModeName: it edits the modifiers too. *)
setBothNames(name, value) ==
  /\ name # Null
  /\ triggerModeNameExt' = Named(triggerModeNameExt, name, value)
  /\ modifierNameExt' = Named(modifierNameExt, name, mcr_ModFlags.META)
  /\ UNCHANGED <<modifierValueExt, triggerModeValueExt>>

setTriggerModeName(name, value) ==
  /\ name # Null
  /\ triggerModeNameExt' = Named(triggerModeNameExt, name, value)
  /\ UNCHANGED <<triggerModeValueExt, modifierVars>>

setTriggerModeValueName(value, name) ==
  /\ name # Null
  /\ triggerModeValueExt' = Put(triggerModeValueExt, value, name)
  /\ UNCHANGED <<triggerModeNameExt, modifierVars>>

removeTriggerModeName(name) ==
  /\ name # Null
  /\ triggerModeNameExt' = Erased(triggerModeNameExt, name)
  /\ UNCHANGED <<triggerModeValueExt, modifierVars>>

NamesNext == \E name \in Edited \cup {Null} :
  \/ removeModifierName(name) \/ removeTriggerModeName(name)
  \/ \E value \in Flags : setModifierName(name, value) \/ setModifierValueName(value, name)
  \/ \E value \in Modes : setTriggerModeName(name, value) \/ setTriggerModeValueName(value, name)

NamesSpec == NamesInit /\ [][NamesNext]_namesVars

-----------------------------------------------------------------------------
Maps(D, R) == UNION {[S -> R] : S \in SUBSET D}

(* The maps have the keys and values the program has given. *)
NamesTypeOK ==
  /\ modifierNameExt \in Maps(Edited, Flags)
  /\ modifierValueExt \in Maps(Flags, Edited)
  /\ triggerModeNameExt \in Maps(Edited, Modes)
  /\ triggerModeValueExt \in Maps(Modes, Edited)

(* The program has not parted a value and its name: it has given the name   *)
(* this meaning, or has renamed neither of them.                            *)
Together(value, name, nameExt, valueExt) ==
  IF Extended(nameExt, name) THEN nameExt[Place(nameExt, name)] = value
  ELSE value \notin DOMAIN valueExt

ModifierReadsBack(v) == LET n == modifiersName(v) IN
  n # Null /\ Together(v, n, modifierNameExt, modifierValueExt) => modifiers(n) = v
TriggerModeReadsBack(v) == LET n == triggerModeName(v) IN
  n # Null /\ Together(v, n, triggerModeNameExt, triggerModeValueExt) => triggerMode(n) = v

(* The name of a value, looked up, means that value: the tables and the     *)
(* switch statements agree, and the maps come first in both directions.     *)
ReadBack ==
  /\ \A v \in Range(mcr_ApplyValue) : applyValue(applyValueName(v)) = v
  /\ \A v \in Range(mcr_Dimension) : dimension(dimensionName(v)) = v
  /\ \A v \in Range(InterruptValue) : interrupt(interruptName(v)) = v
  /\ \A v \in Range(mcr_ModFlags) \cup Flags : ModifierReadsBack(v)
  /\ \A v \in Range(mcr_TriggerMode) \cup Modes : TriggerModeReadsBack(v)

(* An edit under one spelling reaches what the tables take for that name:   *)
(* once a name is set, it means the new value in every spelling, and once   *)
(* it is removed, what the tables say of it, whatever spelling it was set   *)
(* by.  ci_equal() of the tables and string_less_ci of the maps tell the    *)
(* same names apart.                                                        *)
EditsReach == [][\A name \in Edited : LET spelt == {n \in Names : ci_equal(n, name)} IN
  /\ \A v \in Flags : setModifierName(name, v) => \A n \in spelt : modifiers(n)' = v
  /\ \A v \in Modes : setTriggerModeName(name, v) => \A n \in spelt : triggerMode(n)' = v
  /\ removeModifierName(name) => \A n \in spelt : modifiers(n)' = BuiltInModifiers(n)
  /\ removeTriggerModeName(name) =>
       \A n \in spelt : triggerMode(n)' = TriggerModeNamed[n]]_namesVars

(* The names and values of either kind that mean something else after a step. *)
Changed ==
  {<<"modifier", Fold[n]>> : n \in {k \in Names : modifiers(k)' # modifiers(k)}}
  \cup {<<"mode", Fold[n]>> : n \in {k \in Names : triggerMode(k)' # triggerMode(k)}}
  \cup {<<"flags", v>> : v \in {f \in Flags : modifiersName(f)' # modifiersName(f)}}
  \cup {<<"value", v>> : v \in {f \in Modes : triggerModeName(f)' # triggerModeName(f)}}

(* An edit changes the meaning of one name of one kind, in all its          *)
(* spellings, or the name of one value of one kind, and nothing else.       *)
EditsApart == [][Cardinality(Changed) <= 1]_namesVars
=============================================================================
