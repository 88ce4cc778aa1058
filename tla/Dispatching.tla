---------------------------- MODULE Dispatching ----------------------------
(***************************************************************************)
(* How macros and their triggers come to stand in the dispatchers, and     *)
(* what a dispatcher starts (src/src/macro.cpp, src/src/dispatcher.cpp,    *)
(* src/mcr/trigger.h, src/src/trigger/action.cpp, src/mcr/inline.h).       *)
(*                                                                         *)
(* The dispatchers have no lock: the program calls them, and what calls    *)
(* them, from one thread at a time, so each member function is one step.   *)
(***************************************************************************)
EXTENDS Integers, FiniteSets

CONSTANTS
  Macros,
  Triggers,       \* the Actions the program has made
  Activators,     \* the signals it has made, for setActivators()
  Dispatchers,
  Nothing,        \* a null pointer: no dispatcher, no actor
  Generic,        \* the generic dispatcher the context begins with, or Nothing
  Replacements,   \* what the program sets it to
  DispatcherOf,   \* dispatcherPtr of each activator
  Required,       \* triggerMode and modifiers of each trigger
  Blocks,         \* the receivers that block what they receive
  Flags           \* the modifier bits

Receivers == Macros \cup Triggers

MCR_TM_EQUAL     == 0
MCR_TM_ALL       == 1
MCR_TM_NONE      == 2
MCR_TM_EXCLUSIVE == 3
MCR_TM_INEQUAL   == 4
MCR_TM_MATCH     == 5
MCR_TM_ANY       == 6
Modes == MCR_TM_EQUAL .. MCR_TM_ANY

ASSUME DispatchingAssumption ==
  /\ Macros \cap Triggers = {}
  /\ Nothing \notin Macros \cup Dispatchers
  /\ Generic \in Dispatchers \cup {Nothing}
  /\ Replacements \subseteq Dispatchers \cup {Nothing}
  /\ DispatcherOf \in [Activators -> Dispatchers \cup {Nothing}]
  /\ Required \in [Triggers -> [mode : Modes, flags : SUBSET Flags]]
  /\ Blocks \subseteq Receivers

VARIABLES
  macro,       \* the members of each macro that dispatching is about
  actor,       \* actorPtr of each trigger
  receivers,   \* _receivers of each dispatcher
  generic,     \* the generic dispatcher of the context
  replaced,    \* history: the dispatchers it has been before
  shared,      \* history: the triggers that two macros have had
  started      \* the calls of start() that the last dispatch() made
contextVars == <<generic, replaced>>
vars == <<macro, actor, receivers, contextVars, shared, started>>

MacroRecord ==
  [enabled : BOOLEAN, apply : BOOLEAN, alive : BOOLEAN,
   activators : SUBSET Activators, triggers : SUBSET Triggers]

(* Every member has its type. *)
TypeOK ==
  /\ macro \in [Macros -> MacroRecord]
  /\ actor \in [Triggers -> Macros \cup {Nothing}]
  /\ receivers \in [Dispatchers -> SUBSET Receivers]
  /\ generic \in Dispatchers \cup {Nothing}
  /\ replaced \subseteq Dispatchers
  /\ shared \subseteq Triggers
  /\ started \subseteq [from : Dispatchers, by : Receivers, macro : Macros]

NewMacro == [enabled |-> FALSE, apply |-> TRUE, alive |-> TRUE,
             activators |-> {}, triggers |-> {}]
Init ==
  /\ macro = [m \in Macros |-> NewMacro]
  /\ actor = [t \in Triggers |-> Nothing]
  /\ receivers = [d \in Dispatchers |-> {}]
  /\ generic = Generic
  /\ replaced = {}
  /\ shared = {}
  /\ started = {}

-----------------------------------------------------------------------------
(* _removeDispatch() and _addDispatch(): what they make of the dispatchers. *)

DispatchersOf(r) == {DispatcherOf[a] : a \in r.activators} \ {Nothing}

(* Mutant of Removed: the triggers stay. *)
RemovedAlone(m, r, recv) ==
  [d \in Dispatchers |->
     IF d = generic \/ d \in DispatchersOf(r) THEN recv[d] \ {m} ELSE recv[d]]

(* The macro leaves the generic dispatcher and those of its activators, its *)
(* triggers only the latter.                                                *)
Removed(m, r, recv) ==
  [d \in Dispatchers |->
     recv[d] \ ((IF d = generic \/ d \in DispatchersOf(r) THEN {m} ELSE {})
                \cup (IF d \in DispatchersOf(r) THEN r.triggers ELSE {}))]

(* A macro without activators is in the generic dispatcher, one with any in *)
(* theirs; its triggers are in its place if it has any.                     *)
Places(r) == IF r.activators = {} THEN {generic} ELSE DispatchersOf(r)
Parts(m, r) == IF r.triggers = {} THEN {m} ELSE r.triggers
Added(m, r, recv) ==
  [d \in Dispatchers |->
     IF d \in Places(r) THEN recv[d] \cup Parts(m, r) ELSE recv[d]]

(* _applyDispatch() *)
Applied(m, r, recv) ==
  IF ~r.apply THEN recv
  ELSE IF r.enabled THEN Added(m, r, Removed(m, r, recv))
  ELSE Removed(m, r, recv)

Given(r, as, ts) == [r EXCEPT !.activators = as, !.triggers = ts]

(* The triggers act for this macro from now on. *)
ActFor(m, ts) ==
  /\ actor' = [t \in Triggers |-> IF t \in ts THEN m ELSE actor[t]]
  /\ shared' = shared \cup {t \in ts : \E o \in Macros \ {m} : t \in macro[o].triggers}

Change(m, r, recv) ==
  /\ macro[m].alive
  /\ macro' = [macro EXCEPT ![m] = r]
  /\ receivers' = recv
  /\ started' = {}
  /\ UNCHANGED contextVars

-----------------------------------------------------------------------------
(* The member functions of a macro. *)

(* setInterruptor(), as far as it enables or disables. *)
SetEnabled(m, val) ==
  LET r == [macro[m] EXCEPT !.enabled = val]
  IN /\ val # macro[m].enabled
     /\ Change(m, r, Applied(m, r, receivers))
     /\ UNCHANGED <<actor, shared>>

(* Mutant of SetActivators: what the old activators registered stays. *)
SetActivatorsOnly(m, as) ==
  LET r == Given(macro[m], as, macro[m].triggers)
  IN /\ Change(m, r, Applied(m, r, receivers))
     /\ UNCHANGED <<actor, shared>>

SetActivators(m, as) ==
  LET r == Given(macro[m], as, macro[m].triggers)
  IN /\ Change(m, r, Applied(m, r, Removed(m, macro[m], receivers)))
     /\ UNCHANGED <<actor, shared>>

(* Mutant of SetTriggers: what the old triggers registered stays. *)
SetTriggersOnly(m, ts) ==
  LET r == Given(macro[m], macro[m].activators, ts)
  IN /\ Change(m, r, Applied(m, r, receivers))
     /\ ActFor(m, ts)

SetTriggers(m, ts) ==
  LET r == Given(macro[m], macro[m].activators, ts)
  IN /\ Change(m, r, Applied(m, r, Removed(m, macro[m], receivers)))
     /\ ActFor(m, ts)

SetApplyDispatchEnabled(m, val) ==
  /\ val # macro[m].apply
  /\ Change(m, [macro[m] EXCEPT !.apply = val], receivers)
  /\ UNCHANGED <<actor, shared>>

ApplyDispatch(m) ==
  /\ Change(m, macro[m], Applied(m, macro[m], receivers))
  /\ UNCHANGED <<actor, shared>>
AddDispatch(m) ==
  /\ Change(m, macro[m], Added(m, macro[m], receivers))
  /\ UNCHANGED <<actor, shared>>
RemoveDispatch(m) ==
  /\ Change(m, macro[m], Removed(m, macro[m], receivers))
  /\ UNCHANGED <<actor, shared>>

(* addDispatch() of one signal, one trigger, or a pair, of the macro's own. *)
With(d, r) == [receivers EXCEPT ![d] = @ \cup {r}]
AddOne(m) ==
  /\ \/ \E a \in macro[m].activators :
           /\ DispatcherOf[a] # Nothing
           /\ \E r \in {m} \cup macro[m].triggers :
                Change(m, macro[m], With(DispatcherOf[a], r))
     \/ /\ generic # Nothing
        /\ \E t \in macro[m].triggers : Change(m, macro[m], With(generic, t))
  /\ UNCHANGED <<actor, shared>>

(* copy(): disableEverything(), take the members, applyDispatch(). *)
Copy(m, other) ==
  LET r == macro[other]
  IN /\ m # other
     /\ r.alive
     /\ Change(m, r, Applied(m, r, Removed(m, macro[m], receivers)))
     /\ ActFor(m, r.triggers)

(* The destructor: disableEverything(). *)
Freed == [enabled |-> FALSE, apply |-> FALSE, alive |-> FALSE,
          activators |-> {}, triggers |-> {}]
Destroy(m) ==
  /\ Change(m, Freed, Removed(m, macro[m], receivers))
  /\ UNCHANGED <<actor, shared>>

-----------------------------------------------------------------------------
(* Dispatcher::dispatch() and what the receivers do. *)

(* mcr_TriggerMode_match_inl(); MCR_TM_MATCH has no case of its own. *)
Matches(mode, own, incoming) ==
  \/ mode = MCR_TM_EQUAL     /\ own = incoming
  \/ mode = MCR_TM_ALL       /\ own \subseteq incoming
  \/ mode = MCR_TM_NONE      /\ own \cap incoming = {}
  \/ mode = MCR_TM_EXCLUSIVE /\ incoming \subseteq own
  \/ mode = MCR_TM_INEQUAL   /\ own # incoming
  \/ mode = MCR_TM_ANY       /\ own \cap incoming # {}

Accepts(r, mods) ==
  r \in Triggers => Matches(Required[r].mode, Required[r].flags, mods)

(* Mutant of ActorOf: a trigger does not look for its macro. *)
ItselfActs(r) == r

ActorOf(r) == IF r \in Triggers THEN actor[r] ELSE r
Stops(r, mods) == r \in Blocks /\ Accepts(r, mods)

(* The receivers are visited in any order, up to the first that blocks. *)
Visits(d, mods, visited) ==
  \/ visited = receivers[d] /\ \A r \in visited : ~Stops(r, mods)
  \/ Cardinality({r \in visited : Stops(r, mods)}) = 1
Dispatch(d, mods) ==
  /\ \E visited \in SUBSET receivers[d] :
       /\ Visits(d, mods, visited)
       /\ started' = {[from |-> d, by |-> r, macro |-> ActorOf(r)] :
                        r \in {v \in visited : Accepts(v, mods) /\ ActorOf(v) # Nothing}}
  /\ UNCHANGED <<macro, actor, receivers, contextVars, shared>>

(* clear() and remove(), when the program calls a dispatcher itself. *)
DropReceivers(d, rs) ==
  /\ receivers' = [receivers EXCEPT ![d] = @ \ rs]
  /\ started' = {}
  /\ UNCHANGED <<macro, actor, contextVars, shared>>
Clear(d) == DropReceivers(d, Receivers)
Remove(d, r) == DropReceivers(d, {r})

-----------------------------------------------------------------------------
(* setGenericDispatcher(): who stands in the old one stays there. *)
SetGenericDispatcher(g) ==
  /\ g # generic
  /\ generic' = g
  /\ replaced' = replaced \cup ({generic} \ {Nothing})
  /\ started' = {}
  /\ UNCHANGED <<macro, actor, receivers, shared>>


MacroStep(m) ==
  \/ \E val \in BOOLEAN : SetEnabled(m, val) \/ SetApplyDispatchEnabled(m, val)
  \/ \E as \in SUBSET Activators : SetActivators(m, as)
  \/ \E ts \in SUBSET Triggers : SetTriggers(m, ts)
  \/ ApplyDispatch(m) \/ AddDispatch(m) \/ RemoveDispatch(m) \/ AddOne(m)
  \/ \E other \in Macros : Copy(m, other)
  \/ Destroy(m)

Next ==
  \/ \E m \in Macros : MacroStep(m)
  \/ \E d \in Dispatchers : Clear(d) \/ \E r \in Receivers : Remove(d, r)
  \/ \E d \in Dispatchers, mods \in SUBSET Flags : Dispatch(d, mods)
  \/ \E g \in Replacements : SetGenericDispatcher(g)

Spec == Init /\ [][Next]_vars

-----------------------------------------------------------------------------
(* A macro that stands in a dispatcher is alive, and its removeDispatch()   *)
(* would find it there, unless the dispatcher was replaced as the generic   *)
(* one since.                                                               *)
MacrosRemovable ==
  \A d \in Dispatchers \ replaced : \A m \in receivers[d] \cap Macros :
    macro[m].alive /\ d \in DispatchersOf(macro[m]) \cup {generic}

(* The dispatchers that are not, and were not, the generic one. *)
OfActivators == Dispatchers \ (replaced \cup {generic})

(* A trigger that stands in a dispatcher other than a generic one is a      *)
(* trigger of a living macro whose removeDispatch() would find it there.    *)
TriggersRemovable ==
  \A d \in OfActivators : \A t \in receivers[d] \cap Triggers :
    \E m \in Macros : t \in macro[m].triggers /\ d \in DispatchersOf(macro[m])

(* A macro is started while it is alive, and by a trigger it has.           *)
StartedRightly(s) ==
  macro[s.macro].alive /\ (s.by \in Triggers => s.by \in macro[s.macro].triggers)

(* Whatever the program registers, removes, copies and destroys, a signal   *)
(* through a dispatcher of the activators starts only macros that are alive *)
(* and have the trigger that starts them, unless copy() or setTriggers()    *)
(* has given that trigger to two macros.                                    *)
StartsAsAsked == \A s \in started :
  s.from \in OfActivators /\ s.by \notin shared => StartedRightly(s)

(* The same through every dispatcher but those that were replaced, the      *)
(* generic one too.                                                         *)
AllStartsAsAsked == \A s \in started :
  s.from \notin replaced /\ s.by \notin shared => StartedRightly(s)
=============================================================================
