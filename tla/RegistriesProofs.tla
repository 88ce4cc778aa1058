-------------------------- MODULE RegistriesProofs --------------------------
(***************************************************************************)
(* Theorems about Registries, for any names, allocators, objects and       *)
(* macros.                                                                 *)
(***************************************************************************)
EXTENDS Registries, FiniteSetTheorems, WellFoundedInduction, TLAPS

-----------------------------------------------------------------------------
(* The inductive invariant: a type that has a name of its own keeps it, and *)
(* an object's name is still that of the allocator which made it.           *)

OwnNames ==
  /\ \A k \in Keys : signalAllocators[k] # Nothing => OwnName[signalAllocators[k]] = k
  /\ \A k \in Keys : triggerAllocators[k] # Nothing => OwnName[triggerAllocators[k]] = k

FoundAgain == \A o \in Objects :
  /\ objects[o] \in SignalAllocators => signalAllocators[OwnName[objects[o]]] = objects[o]
  /\ objects[o] \in TriggerAllocators => triggerAllocators[OwnName[objects[o]]] = objects[o]

RegistriesInv ==
  /\ RegistriesTypeOK
  /\ ownNamed => OwnNames /\ FoundAgain
  /\ UsesMaker

-----------------------------------------------------------------------------
LEMMA KeyTypes ==
  /\ Hidden \in Keys /\ NullKey \notin Keys
  /\ \A a \in SignalAllocators \cup TriggerAllocators : OwnName[a] \in Keys
  /\ SignalAllocators \cap TriggerAllocators = {}
  /\ Nothing \notin SignalAllocators /\ Nothing \notin TriggerAllocators
  /\ \A name \in Keys \cup {NullKey} : KeyOf(name) \in Keys
BY RegistriesAssumption DEF KeyOf

LEMMA RegistriesInitially == RegistriesInit => RegistriesInv
BY KeyTypes DEF RegistriesInit, RegistriesInv, RegistriesTypeOK, OwnNames, FoundAgain, UsesMaker,
                NoUse, Made

(* Making an object from either map. *)
LEMMA AllocatesAgain ==
  ASSUME RegistriesInv, NEW alls, NEW name \in Keys \cup {NullKey}, NEW o \in Objects, NEW of,
         \/ alls = signalAllocators
         \/ alls = triggerAllocators,
         \/ of = Nothing
         \/ of \in Made /\ name \in Keys /\ (ownNamed => alls[name] = of),
         AllocateFrom(alls, name, o, of)
  PROVE  RegistriesInv'
<1> DEFINE k == KeyOf(name)
           a == alls[k]
<1>1. k \in Keys /\ a \in Made
  BY KeyTypes DEF RegistriesInv, RegistriesTypeOK, Made
<1>2. /\ objects' = [objects EXCEPT ![o] = a] \/ objects' = objects
      /\ lastUse' = [of |-> of, used |-> IF of = Nothing THEN Nothing ELSE a]
      /\ UNCHANGED <<signalAllocators, triggerAllocators, ownNamed, macroMap>>
  BY DEF AllocateFrom, macroVars
<1>3. RegistriesTypeOK'
  BY <1>1, <1>2 DEF RegistriesInv, RegistriesTypeOK, Made
<1>4. ASSUME ownNamed PROVE FoundAgain'
  <2>1. a \in SignalAllocators => alls = signalAllocators /\ OwnName[a] = k
    BY <1>1, <1>4, KeyTypes DEF RegistriesInv, RegistriesTypeOK, OwnNames
  <2>2. a \in TriggerAllocators => alls = triggerAllocators /\ OwnName[a] = k
    BY <1>1, <1>4, KeyTypes DEF RegistriesInv, RegistriesTypeOK, OwnNames
  <2>3. \A p \in Objects : objects'[p] = objects[p] \/ objects'[p] = a
    BY <1>2 DEF RegistriesInv, RegistriesTypeOK
  <2>4. FoundAgain
    BY <1>4 DEF RegistriesInv
  <2> QED BY <1>2, <2>1, <2>2, <2>3, <2>4 DEF FoundAgain
<1>5. UsesMaker'
  <2>1. ASSUME of # Nothing PROVE k = name
    BY <2>1, KeyTypes DEF KeyOf
  <2> QED BY <1>2, <2>1 DEF UsesMaker
<1> QED BY <1>2, <1>3, <1>4, <1>5 DEF RegistriesInv, OwnNames

(* Releasing an object of either kind. *)
LEMMA DeallocatesAgain ==
  ASSUME RegistriesInv, NEW alls, NEW o \in Objects,
         \/ alls = signalAllocators /\ objects[o] \in SignalAllocators
         \/ alls = triggerAllocators /\ objects[o] \in TriggerAllocators,
         DeallocateWith(alls, OwnName[objects[o]], o)
  PROVE  RegistriesInv'
<1> DEFINE a == alls[OwnName[objects[o]]]
<1>1. a \in Made /\ objects[o] \in Made
  BY KeyTypes DEF RegistriesInv, RegistriesTypeOK, Made
<1>2. /\ objects' = [objects EXCEPT ![o] = IF a = Nothing THEN @ ELSE Nothing]
      /\ lastUse' = [of |-> objects[o], used |-> a]
      /\ UNCHANGED <<signalAllocators, triggerAllocators, ownNamed, macroMap>>
  BY DEF DeallocateWith, macroVars
<1>3. RegistriesTypeOK'
  BY <1>1, <1>2 DEF RegistriesInv, RegistriesTypeOK, Made
<1>4. \A p \in Objects : objects'[p] = objects[p] \/ objects'[p] = Nothing
  BY <1>2 DEF RegistriesInv, RegistriesTypeOK
<1>5. ASSUME ownNamed PROVE FoundAgain' /\ a = objects[o]
  BY <1>2, <1>4, <1>5, KeyTypes DEF RegistriesInv, FoundAgain
<1>6. UsesMaker'
  BY <1>2, <1>5 DEF UsesMaker
<1> QED BY <1>2, <1>3, <1>5, <1>6 DEF RegistriesInv, OwnNames

LEMMA MapsSignal ==
  ASSUME RegistriesInv, NEW k \in Keys, NEW a \in SignalAllocators, mapSignalName(k, a)
  PROVE  RegistriesInv'
<1>1. /\ signalAllocators' = [signalAllocators EXCEPT ![k] = a]
      /\ ownNamed' = (ownNamed /\ Owned(signalAllocators, k, a))
      /\ UNCHANGED <<triggerAllocators, objects, lastUse, macroMap>>
  BY DEF mapSignalName, macroVars
<1>2. RegistriesTypeOK'
  <2>1. ownNamed' \in BOOLEAN
    BY <1>1 DEF RegistriesInv, RegistriesTypeOK, Owned
  <2> QED BY <1>1, <2>1 DEF RegistriesInv, RegistriesTypeOK, Made
<1>3. ASSUME ownNamed' PROVE OwnNames' /\ FoundAgain' /\ UsesMaker'
  <2>1. /\ ownNamed /\ OwnNames /\ FoundAgain
        /\ k = OwnName[a] /\ signalAllocators[k] \in {Nothing, a}
    BY <1>1, <1>3 DEF RegistriesInv, Owned
  <2>2. OwnNames'
    BY <1>1, <2>1 DEF OwnNames, RegistriesInv, RegistriesTypeOK
  <2>3. \A j \in Keys : signalAllocators[j] # Nothing => signalAllocators'[j] = signalAllocators[j]
    BY <1>1, <2>1 DEF RegistriesInv, RegistriesTypeOK
  <2>4. FoundAgain'
    BY <1>1, <2>1, <2>3, KeyTypes DEF FoundAgain
  <2>5. UsesMaker'
    BY <1>1, <2>1 DEF RegistriesInv, UsesMaker
  <2> QED BY <2>2, <2>4, <2>5
<1> QED BY <1>2, <1>3 DEF RegistriesInv, UsesMaker

LEMMA MapsTrigger ==
  ASSUME RegistriesInv, NEW k \in Keys, NEW a \in TriggerAllocators, mapTriggerName(k, a)
  PROVE  RegistriesInv'
<1>1. /\ triggerAllocators' = [triggerAllocators EXCEPT ![k] = a]
      /\ ownNamed' = (ownNamed /\ Owned(triggerAllocators, k, a))
      /\ UNCHANGED <<signalAllocators, objects, lastUse, macroMap>>
  BY DEF mapTriggerName, macroVars
<1>2. RegistriesTypeOK'
  <2>1. ownNamed' \in BOOLEAN
    BY <1>1 DEF RegistriesInv, RegistriesTypeOK, Owned
  <2> QED BY <1>1, <2>1 DEF RegistriesInv, RegistriesTypeOK, Made
<1>3. ASSUME ownNamed' PROVE OwnNames' /\ FoundAgain' /\ UsesMaker'
  <2>1. /\ ownNamed /\ OwnNames /\ FoundAgain
        /\ k = OwnName[a] /\ triggerAllocators[k] \in {Nothing, a}
    BY <1>1, <1>3 DEF RegistriesInv, Owned
  <2>2. OwnNames'
    BY <1>1, <2>1 DEF OwnNames, RegistriesInv, RegistriesTypeOK
  <2>3. \A j \in Keys : triggerAllocators[j] # Nothing => triggerAllocators'[j] = triggerAllocators[j]
    BY <1>1, <2>1 DEF RegistriesInv, RegistriesTypeOK
  <2>4. FoundAgain'
    BY <1>1, <2>1, <2>3, KeyTypes DEF FoundAgain
  <2>5. UsesMaker'
    BY <1>1, <2>1 DEF RegistriesInv, UsesMaker
  <2> QED BY <2>2, <2>4, <2>5
<1> QED BY <1>2, <1>3 DEF RegistriesInv, UsesMaker

(* The macros leave the allocators alone. *)
LEMMA MacrosApart ==
  ASSUME RegistriesInv, MacrosNext
  PROVE  RegistriesInv'
<1>1. UNCHANGED allocatorVars
  BY DEF MacrosNext, mapMacro, unmapMacro, clearMacros, interruptMacros
<1>2. macroMap' \in [Keys -> Macros \cup {Nothing}]
  BY DEF MacrosNext, mapMacro, unmapMacro, clearMacros, interruptMacros,
         RegistriesInv, RegistriesTypeOK
<1> QED BY <1>1, <1>2 DEF allocatorVars, RegistriesInv, RegistriesTypeOK, OwnNames, FoundAgain,
                          UsesMaker

LEMMA RegistriesKept ==
  ASSUME RegistriesInv, [RegistriesNext]_registriesVars
  PROVE  RegistriesInv'
<1> USE KeyTypes
<1>1. CASE UNCHANGED registriesVars
  BY <1>1 DEF registriesVars, allocatorVars, macroVars, RegistriesInv, RegistriesTypeOK, OwnNames,
              FoundAgain, UsesMaker
<1>2. ASSUME NEW k \in Keys, NEW a \in SignalAllocators, mapSignalName(k, a)
      PROVE  RegistriesInv'
  BY <1>2, MapsSignal
<1>3. ASSUME NEW a \in SignalAllocators, NEW b \in SignalAllocators, mapSignal(a, b)
      PROVE  RegistriesInv'
  BY <1>3, MapsSignal DEF mapSignal
<1>4. ASSUME NEW k \in Keys, NEW a \in TriggerAllocators, mapTriggerName(k, a)
      PROVE  RegistriesInv'
  BY <1>4, MapsTrigger
<1>5. ASSUME NEW a \in TriggerAllocators, NEW b \in TriggerAllocators, mapTrigger(a, b)
      PROVE  RegistriesInv'
  BY <1>5, MapsTrigger DEF mapTrigger
<1>6. ASSUME NEW k \in Keys \cup {NullKey}, NEW o \in Objects,
             allocateSignal(k, o) \/ allocateTrigger(k, o)
      PROVE  RegistriesInv'
  BY <1>6, AllocatesAgain DEF allocateSignal, allocateTrigger
<1>7. ASSUME NEW p \in Objects, NEW o \in Objects, anotherSignal(p, o)
      PROVE  RegistriesInv'
  <2>1. /\ objects[p] \in Made /\ OwnName[objects[p]] \in Keys
        /\ ownNamed => signalAllocators[OwnName[objects[p]]] = objects[p]
    BY <1>7 DEF anotherSignal, RegistriesInv, FoundAgain, Made
  <2> QED BY <1>7, <2>1, AllocatesAgain DEF anotherSignal
<1>8. ASSUME NEW p \in Objects, NEW o \in Objects, anotherTrigger(p, o)
      PROVE  RegistriesInv'
  <2>1. /\ objects[p] \in Made /\ OwnName[objects[p]] \in Keys
        /\ ownNamed => triggerAllocators[OwnName[objects[p]]] = objects[p]
    BY <1>8 DEF anotherTrigger, RegistriesInv, FoundAgain, Made
  <2> QED BY <1>8, <2>1, AllocatesAgain DEF anotherTrigger
<1>9. ASSUME NEW o \in Objects, deallocateSignal(o) \/ deallocateTrigger(o)
      PROVE  RegistriesInv'
  BY <1>9, DeallocatesAgain DEF deallocateSignal, deallocateTrigger
<1>10. CASE MacrosNext
  BY <1>10, MacrosApart
<1> QED BY <1>1, <1>2, <1>3, <1>4, <1>5, <1>6, <1>7, <1>8, <1>9, <1>10
        DEF RegistriesNext, SignalsNext, TriggersNext

LEMMA RegistriesAlways == RegistriesSpec => []RegistriesInv
<1>1. RegistriesInit => RegistriesInv
  BY RegistriesInitially
<1>2. RegistriesInv /\ [RegistriesNext]_registriesVars => RegistriesInv'
  BY RegistriesKept
<1> QED BY <1>1, <1>2, PTL DEF RegistriesSpec

(* The maps and the objects are of their types. *)
THEOREM RegistriesTypeCorrect == RegistriesSpec => []RegistriesTypeOK
<1>1. RegistriesInv => RegistriesTypeOK
  BY DEF RegistriesInv
<1> QED BY <1>1, RegistriesAlways, PTL

(* deallocate() and another() use the allocator that made the object, as    *)
(* long as every type is mapped by its own name, for itself.                *)
THEOREM UsesMakerAlways == RegistriesSpec => []UsesMaker
<1>1. RegistriesInv => UsesMaker
  BY DEF RegistriesInv
<1> QED BY <1>1, RegistriesAlways, PTL

-----------------------------------------------------------------------------
(* MacroRegistry::interrupt(). *)

LEMMA Least ==
  ASSUME NEW I, I \subseteq Nat, I # {}
  PROVE  \E i \in I : \A j \in I : i <= j
<1> DEFINE R == {ss \in Nat \X Nat : ss[1] < ss[2]}
<1>1. IsWellFoundedOn(R, Nat)
  BY NatLessThanWellFounded DEF OpToRel
<1>2. PICK i \in I : \A j \in I : ~(<<j, i>> \in R)
  <2> HIDE DEF R
  <2> QED BY <1>1, WFMin
<1>3. ASSUME NEW j \in I PROVE i <= j
  <2>1. i \in Nat /\ j \in Nat
    OBVIOUS
  <2>2. j < i => <<j, i>> \in R
    BY <2>1
  <2> HIDE DEF R
  <2> QED BY <1>2, <2>1, <2>2
<1> QED BY <1>3

(* In any order of the names, one index of those of a macro is the first. *)
LEMMA CalledOnce ==
  ASSUME RegistriesTypeOK, NEW order \in Bijection(1 .. Cardinality(Mapped), Mapped),
         NEW m \in Macros
  PROVE  Cardinality({i \in DOMAIN order : macroMap[order[i]] = m /\ Unseen(order, i)})
           = IF m \in Range(macroMap) THEN 1 ELSE 0
<1> DEFINE n == Cardinality(Mapped)
           I == {i \in 1 .. n : macroMap[order[i]] = m}
           F == {i \in DOMAIN order : macroMap[order[i]] = m /\ Unseen(order, i)}
<1> SUFFICES Cardinality(F) = IF m \in Range(macroMap) THEN 1 ELSE 0
  OBVIOUS
<1>1. Mapped \subseteq Keys /\ IsFiniteSet(Mapped) /\ n \in Nat
  BY RegistriesAssumption, FS_Subset, FS_CardinalityType DEF Mapped
<1>2. /\ order \in [1 .. n -> Mapped] /\ DOMAIN order = 1 .. n
      /\ \A k \in Mapped : \E i \in 1 .. n : order[i] = k
  BY DEF Bijection, Injection, Surjection
<1>3. m # Nothing /\ macroMap \in [Keys -> Macros \cup {Nothing}]
  BY RegistriesAssumption DEF RegistriesTypeOK
<1>4. F \subseteq I
  BY <1>2
<1>5. CASE m \in Range(macroMap)
  <2>1. PICK k \in Mapped : macroMap[k] = m
    BY <1>3, <1>5 DEF Range, Mapped
  <2>2. I # {} /\ I \subseteq Nat
    BY <1>1, <1>2, <2>1
  <2>3. PICK i \in I : \A j \in I : i <= j
    <3> HIDE DEF I
    <3> QED BY <2>2, Least
  <2>4. i \in F
    BY <1>1, <1>2, <2>3 DEF Unseen
  <2>5. \A j \in F : j = i
    BY <1>1, <1>2, <2>3 DEF Unseen
  <2>6. F = {i}
    BY <2>4, <2>5
  <2> HIDE DEF F
  <2> QED BY <1>5, <2>6, FS_Singleton
<1>6. CASE m \notin Range(macroMap)
  <2>1. I = {}
    BY <1>1, <1>2, <1>3, <1>6 DEF Range
  <2>2. F = {}
    BY <1>4, <2>1
  <2> HIDE DEF F, I
  <2> QED BY <1>6, <2>2, FS_EmptySet
<1> QED BY <1>5, <1>6

LEMMA OnceKept ==
  ASSUME RegistriesTypeOK, InterruptedOnce, [RegistriesNext]_registriesVars
  PROVE  InterruptedOnce'
<1>1. CASE UNCHANGED macroVars
  BY <1>1 DEF InterruptedOnce, macroVars, Range
<1>2. CASE interruptMacros
  <2>1. PICK order \in Bijection(1 .. Cardinality(Mapped), Mapped) :
          calls' = [m \in Macros |->
            Cardinality({i \in DOMAIN order : macroMap[order[i]] = m /\ Unseen(order, i)})]
    BY <1>2 DEF interruptMacros
  <2>2. \A m \in Macros : calls'[m] = IF m \in Range(macroMap) THEN 1 ELSE 0
    BY <2>1, CalledOnce
  <2>3. macroMap' = macroMap
    BY <1>2 DEF interruptMacros
  <2> QED BY <2>2, <2>3 DEF InterruptedOnce, Range
<1>3. ASSUME \/ \E k \in Keys, m \in Macros : mapMacro(k, m)
             \/ \E k \in Keys : unmapMacro(k)
             \/ clearMacros
      PROVE  InterruptedOnce'
  <2>1. calls' = NoCalls
    BY <1>3 DEF mapMacro, unmapMacro, clearMacros
  <2> QED BY <2>1 DEF InterruptedOnce, NoCalls
<1>4. UNCHANGED registriesVars \/ SignalsNext \/ TriggersNext => UNCHANGED macroVars
  BY DEF registriesVars, SignalsNext, TriggersNext, mapSignal, mapSignalName, allocateSignal,
         anotherSignal, deallocateSignal, mapTrigger, mapTriggerName, allocateTrigger,
         anotherTrigger, deallocateTrigger, AllocateFrom, DeallocateWith
<1> QED BY <1>1, <1>2, <1>3, <1>4 DEF RegistriesNext, MacrosNext

(* Every macro with a name is interrupted, and once. *)
THEOREM InterruptsOnce == RegistriesSpec => []InterruptedOnce
<1>1. RegistriesInit => InterruptedOnce
  BY DEF RegistriesInit, InterruptedOnce
<1>2. RegistriesTypeOK /\ InterruptedOnce /\ [RegistriesNext]_registriesVars => InterruptedOnce'
  BY OnceKept
<1> QED BY <1>1, <1>2, RegistriesTypeCorrect, PTL DEF RegistriesSpec
=============================================================================
