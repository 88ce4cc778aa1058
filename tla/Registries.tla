----------------------------- MODULE Registries -----------------------------
(***************************************************************************)
(* The registries of a context (src/src/signal_registry.cpp,               *)
(* src/src/trigger_registry.cpp, src/src/macro_registry.cpp and            *)
(* src/mcr/allocator.h).  The first two make and release the program's     *)
(* signals and triggers by the name of their type; the third has the       *)
(* macros by name and interrupts all of them at once.                      *)
(*                                                                         *)
(* Nothing is locked: the program uses a registry from one thread at a     *)
(* time, so each member function is one step.  A map has Nothing where the *)
(* code's has no entry.  A signal or trigger is known by the allocator     *)
(* that made it.                                                           *)
(***************************************************************************)
EXTENDS Integers, FiniteSets, Functions

CONSTANTS
  Keys,                \* names: exact spellings
  Hidden,              \* the empty name
  NullKey,             \* a null pointer for a name
  SignalAllocators,    \* a SignalAllocator for each type of signal
  TriggerAllocators,   \* and for each type of trigger
  OwnName,             \* what name() of an allocator's objects returns
  Objects,             \* places for signals and triggers
  Macros,
  Nothing              \* nullptr, or no entry in a map

ASSUME RegistriesAssumption ==
  /\ Hidden \in Keys /\ NullKey \notin Keys
  /\ OwnName \in [SignalAllocators \cup TriggerAllocators -> Keys]
  /\ SignalAllocators \cap TriggerAllocators = {}
  /\ Nothing \notin SignalAllocators \cup TriggerAllocators \cup Macros
  /\ IsFiniteSet(Keys)

VARIABLES
  signalAllocators,    \* SignalRegistry::_mapAllocators
  triggerAllocators,   \* TriggerRegistry::_mapAllocators
  objects,             \* the living signals and triggers, by place
  lastUse,             \* what another() or deallocate() last used for an object
  ownNamed,            \* history: map() was only called by the types' own names
  macroMap,            \* MacroRegistry::_macroMap
  calls                \* of interrupt() of each macro, by the last
                       \* MacroRegistry::interrupt(); none after another edit
allocatorVars == <<signalAllocators, triggerAllocators, objects, lastUse, ownNamed>>
macroVars == <<macroMap, calls>>
registriesVars == <<allocatorVars, macroVars>>

NoUse == [of |-> Nothing, used |-> Nothing]
NoCalls == [m \in Macros |-> 0]

RegistriesInit ==
  /\ signalAllocators = [k \in Keys |-> Nothing]
  /\ triggerAllocators = [k \in Keys |-> Nothing]
  /\ objects = [o \in Objects |-> Nothing]
  /\ lastUse = NoUse
  /\ ownNamed = TRUE
  /\ macroMap = [k \in Keys |-> Nothing]
  /\ calls = NoCalls

-----------------------------------------------------------------------------
(* Making and releasing, the same in both registries. *)

(* The name is the type's own, and no other type has taken it. *)
Owned(registered, name, a) ==
  name = OwnName[a] /\ registered[name] \in {Nothing, a}

KeyOf(name) == IF name = NullKey THEN Hidden ELSE name

(* allocate(): an unknown name makes nothing, and the allocator may fail,   *)
(* which throws ENOMEM.  `of` is the object that another() is given.        *)
AllocateFrom(registered, name, o, of) ==
  LET a == registered[KeyOf(name)] IN
  /\ objects[o] = Nothing
  /\ objects' = [objects EXCEPT ![o] = a] \/ UNCHANGED objects
  /\ lastUse' = [of |-> of, used |-> IF of = Nothing THEN Nothing ELSE a]
  /\ UNCHANGED <<signalAllocators, triggerAllocators, ownNamed, macroVars>>

(* deallocate(): the allocator the object's name has now gets the object;   *)
(* without one the call throws EINVAL, and the object stays.                *)
DeallocateWith(registered, name, o) ==
  LET a == registered[name] IN
  /\ objects' = [objects EXCEPT ![o] = IF a = Nothing THEN @ ELSE Nothing]
  /\ lastUse' = [of |-> objects[o], used |-> a]
  /\ UNCHANGED <<signalAllocators, triggerAllocators, ownNamed, macroVars>>

-----------------------------------------------------------------------------
(* SignalRegistry *)

mapSignalName(name, a) ==
  /\ signalAllocators' = [signalAllocators EXCEPT ![name] = a]
  /\ ownNamed' = (ownNamed /\ Owned(signalAllocators, name, a))
  /\ UNCHANGED <<triggerAllocators, objects, lastUse, macroVars>>

(* map() of an instance, which need not be of the allocator's type. *)
mapSignal(instance, a) == mapSignalName(OwnName[instance], a)

allocateSignal(name, o) == AllocateFrom(signalAllocators, name, o, Nothing)

(* Mutant of anotherSignal: it makes the hidden signal. *)
anotherHidden(p, o) ==
  /\ objects[p] \in SignalAllocators
  /\ AllocateFrom(signalAllocators, NullKey, o, objects[p])

anotherSignal(p, o) ==
  /\ objects[p] \in SignalAllocators
  /\ AllocateFrom(signalAllocators, OwnName[objects[p]], o, objects[p])

deallocateSignal(o) ==
  /\ objects[o] \in SignalAllocators
  /\ DeallocateWith(signalAllocators, OwnName[objects[o]], o)

-----------------------------------------------------------------------------
(* TriggerRegistry *)

(* Mutant of mapTriggerName: the signals' registry gets the allocator. *)
mapTriggerAsSignal(name, a) ==
  /\ signalAllocators' = [signalAllocators EXCEPT ![name] = a]
  /\ ownNamed' = (ownNamed /\ Owned(signalAllocators, name, a))
  /\ UNCHANGED <<triggerAllocators, objects, lastUse, macroVars>>

mapTriggerName(name, a) ==
  /\ triggerAllocators' = [triggerAllocators EXCEPT ![name] = a]
  /\ ownNamed' = (ownNamed /\ Owned(triggerAllocators, name, a))
  /\ UNCHANGED <<signalAllocators, objects, lastUse, macroVars>>

mapTrigger(instance, a) == mapTriggerName(OwnName[instance], a)

allocateTrigger(name, o) == AllocateFrom(triggerAllocators, name, o, Nothing)

anotherTrigger(p, o) ==
  /\ objects[p] \in TriggerAllocators
  /\ AllocateFrom(triggerAllocators, OwnName[objects[p]], o, objects[p])

(* Mutant of deallocateTrigger: it looks in the signals' registry. *)
deallocateAsSignal(o) ==
  /\ objects[o] \in TriggerAllocators
  /\ DeallocateWith(signalAllocators, OwnName[objects[o]], o)

deallocateTrigger(o) ==
  /\ objects[o] \in TriggerAllocators
  /\ DeallocateWith(triggerAllocators, OwnName[objects[o]], o)

-----------------------------------------------------------------------------
(* MacroRegistry.  An edit forgets the calls of the interrupt before it. *)

mapMacro(name, m) ==
  /\ macroMap' = [macroMap EXCEPT ![name] = m]
  /\ calls' = NoCalls
  /\ UNCHANGED allocatorVars

unmapMacro(name) ==
  /\ macroMap' = [macroMap EXCEPT ![name] = Nothing]
  /\ calls' = NoCalls
  /\ UNCHANGED allocatorVars

clearMacros ==
  /\ macroMap' = [k \in Keys |-> Nothing]
  /\ calls' = NoCalls
  /\ UNCHANGED allocatorVars

findMacro(name) == macroMap[name]

(* The macro of the i-th name is not in the set yet.  The mutant looks at   *)
(* the name before it only.                                                 *)
UnseenLast(order, i)  == i = 1 \/ macroMap[order[i - 1]] # macroMap[order[i]]
Unseen(order, i) == \A j \in 1 .. i - 1 : macroMap[order[j]] # macroMap[order[i]]

(* The names come in the order of the hash map, which is any. *)
Mapped == {k \in Keys : macroMap[k] # Nothing}
interruptMacros ==
  \E order \in Bijection(1 .. Cardinality(Mapped), Mapped) :
    /\ calls' = [m \in Macros |->
         Cardinality({i \in DOMAIN order : macroMap[order[i]] = m /\ Unseen(order, i)})]
    /\ UNCHANGED <<allocatorVars, macroMap>>

-----------------------------------------------------------------------------
SignalsNext ==
  \/ \E a, b \in SignalAllocators : mapSignal(a, b)
  \/ \E k \in Keys, a \in SignalAllocators : mapSignalName(k, a)
  \/ \E k \in Keys \cup {NullKey}, o \in Objects : allocateSignal(k, o)
  \/ \E p, o \in Objects : anotherSignal(p, o)
  \/ \E o \in Objects : deallocateSignal(o)

TriggersNext ==
  \/ \E a, b \in TriggerAllocators : mapTrigger(a, b)
  \/ \E k \in Keys, a \in TriggerAllocators : mapTriggerName(k, a)
  \/ \E k \in Keys \cup {NullKey}, o \in Objects : allocateTrigger(k, o)
  \/ \E p, o \in Objects : anotherTrigger(p, o)
  \/ \E o \in Objects : deallocateTrigger(o)

MacrosNext ==
  \/ \E k \in Keys, m \in Macros : mapMacro(k, m)
  \/ \E k \in Keys : unmapMacro(k)
  \/ clearMacros
  \/ interruptMacros

RegistriesNext == SignalsNext \/ TriggersNext \/ MacrosNext
RegistriesSpec == RegistriesInit /\ [][RegistriesNext]_registriesVars

-----------------------------------------------------------------------------
Made == SignalAllocators \cup TriggerAllocators \cup {Nothing}

(* The maps and the objects are of their types. *)
RegistriesTypeOK ==
  /\ signalAllocators \in [Keys -> SignalAllocators \cup {Nothing}]
  /\ triggerAllocators \in [Keys -> TriggerAllocators \cup {Nothing}]
  /\ objects \in [Objects -> Made]
  /\ lastUse \in [of : Made, used : Made]
  /\ ownNamed \in BOOLEAN
  /\ macroMap \in [Keys -> Macros \cup {Nothing}]

(* While every type is mapped by its own name and has it for itself,        *)
(* deallocate() gives an object to the allocator that made it and never     *)
(* throws, and another() makes another of the same type: the lookups by     *)
(* name() long after the allocation find what the allocation used.          *)
UsesMaker == ownNamed => lastUse.used = lastUse.of

(* MacroRegistry::interrupt() interrupts every macro that has a name, and   *)
(* one with several names once, in whatever order it finds the names.       *)
InterruptedOnce == calls # NoCalls =>
  \A m \in Macros : calls[m] = IF m \in Range(macroMap) THEN 1 ELSE 0
=============================================================================
