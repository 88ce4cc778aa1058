------------------------- MODULE DispatchingProofs -------------------------
(***************************************************************************)
(* Proofs about Dispatching: whoever stands in a dispatcher can be removed *)
(* from it again, and the dispatchers of the activators start only macros  *)
(* that are alive and have the trigger that starts them.                   *)
(*                                                                         *)
(* Every member function first removes what a macro registered and then,   *)
(* perhaps, adds it under its new members.  Each of the two steps keeps    *)
(* Placed; for the starts one also needs that a trigger acts for the macro *)
(* that has it.                                                            *)
(***************************************************************************)
EXTENDS Dispatching, TLAPS

(* MacrosRemovable and TriggersRemovable, of any macros and receivers. *)
MacrosPlaced(mac, recv) ==
  \A d \in Dispatchers \ replaced : \A m \in recv[d] \cap Macros :
    mac[m].alive /\ d \in DispatchersOf(mac[m]) \cup {generic}
TriggersPlaced(mac, recv) ==
  \A d \in OfActivators : \A t \in recv[d] \cap Triggers :
    \E m \in Macros : t \in mac[m].triggers /\ d \in DispatchersOf(mac[m])
Placed(mac, recv) == MacrosPlaced(mac, recv) /\ TriggersPlaced(mac, recv)

(* A macro that has a trigger is alive, and the trigger acts for it unless *)
(* two macros have had it.                                                 *)
TriggersOwned == \A m \in Macros : \A t \in macro[m].triggers :
  macro[m].alive /\ (t \notin shared => actor[t] = m)

IInv == TypeOK /\ Placed(macro, receivers) /\ TriggersOwned /\ StartsAsAsked

Registry == [Dispatchers -> SUBSET Receivers]

-----------------------------------------------------------------------------
(* The helpers return dispatchers with receivers. *)
LEMMA HelpersTyped ==
  ASSUME NEW m \in Macros, NEW r \in MacroRecord, NEW recv \in Registry
  PROVE  /\ Removed(m, r, recv) \in Registry
         /\ Added(m, r, recv) \in Registry
         /\ Applied(m, r, recv) \in Registry
<1>1. ASSUME NEW f \in Registry
      PROVE  Removed(m, r, f) \in Registry /\ Added(m, r, f) \in Registry
  BY <1>1 DEF Removed, Added, Parts, Registry, Receivers, MacroRecord
<1>2. QED
  BY <1>1 DEF Applied

(* Fewer receivers are as well placed. *)
LEMMA FewerPlaced ==
  ASSUME NEW mac, NEW old, NEW new, Placed(mac, old),
         \A d \in Dispatchers : new[d] \subseteq old[d]
  PROVE  Placed(mac, new)
  BY DEF Placed, MacrosPlaced, TriggersPlaced, OfActivators

(* Once removed, a macro may change its members as it likes. *)
LEMMA RemovedPlaced ==
  ASSUME NEW mac \in [Macros -> MacroRecord], NEW recv \in Registry,
         NEW m \in Macros, NEW r \in MacroRecord, Placed(mac, recv)
  PROVE  Placed([mac EXCEPT ![m] = r], Removed(m, mac[m], recv))
<1> DEFINE new == Removed(m, mac[m], recv)
           mac2 == [mac EXCEPT ![m] = r]
<1>1. MacrosPlaced(mac2, new)
  <2> SUFFICES ASSUME NEW d \in Dispatchers \ replaced, NEW o \in new[d] \cap Macros
               PROVE  mac2[o].alive /\ d \in DispatchersOf(mac2[o]) \cup {generic}
    BY DEF MacrosPlaced
  <2>1. o \in recv[d] /\ (d = generic \/ d \in DispatchersOf(mac[m]) => o # m)
    BY DEF Removed
  <2>2. mac[o].alive /\ d \in DispatchersOf(mac[o]) \cup {generic}
    BY <2>1 DEF Placed, MacrosPlaced
  <2>3. o # m
    BY <2>1, <2>2
  <2>4. mac2[o] = mac[o]
    BY <2>3
  <2>5. QED
    BY <2>2, <2>4
<1>2. TriggersPlaced(mac2, new)
  <2> SUFFICES ASSUME NEW d \in OfActivators, NEW t \in new[d] \cap Triggers
               PROVE  \E o \in Macros : t \in mac2[o].triggers /\ d \in DispatchersOf(mac2[o])
    BY DEF TriggersPlaced
  <2>1. t \in recv[d] /\ ~(t \in mac[m].triggers /\ d \in DispatchersOf(mac[m]))
    BY DEF Removed, OfActivators
  <2>2. PICK o \in Macros : t \in mac[o].triggers /\ d \in DispatchersOf(mac[o])
    BY <2>1 DEF Placed, TriggersPlaced
  <2>3. o # m
    BY <2>1, <2>2
  <2>4. mac2[o] = mac[o]
    BY <2>3
  <2>5. QED
    BY <2>2, <2>4
<1>3. QED
  BY <1>1, <1>2 DEF Placed

(* A living macro adds itself, and its triggers, where it can remove them. *)
LEMMA AddedPlaced ==
  ASSUME DispatchingAssumption,
         NEW mac \in [Macros -> MacroRecord], NEW recv \in Registry,
         NEW m \in Macros, mac[m].alive, Placed(mac, recv)
  PROVE  Placed(mac, Added(m, mac[m], recv))
<1> DEFINE new == Added(m, mac[m], recv)
<1>0. /\ \A d \in Dispatchers : d \in Places(mac[m]) => d \in DispatchersOf(mac[m]) \cup {generic}
      /\ mac[m].triggers \subseteq Triggers
  BY DEF Places, MacroRecord
<1>1. MacrosPlaced(mac, new)
  <2> SUFFICES ASSUME NEW d \in Dispatchers \ replaced, NEW o \in new[d] \cap Macros
               PROVE  mac[o].alive /\ d \in DispatchersOf(mac[o]) \cup {generic}
    BY DEF MacrosPlaced
  <2>1. CASE o \in recv[d]
    BY <2>1 DEF Placed, MacrosPlaced
  <2>2. CASE o \notin recv[d]
    <3>1. d \in Places(mac[m]) /\ o \in Parts(m, mac[m])
      BY <2>2 DEF Added
    <3>2. o = m
      BY <3>1, <1>0 DEF Parts, DispatchingAssumption
    <3>3. QED
      BY <3>1, <3>2, <1>0
  <2>3. QED
    BY <2>1, <2>2
<1>2. TriggersPlaced(mac, new)
  <2> SUFFICES ASSUME NEW d \in OfActivators, NEW t \in new[d] \cap Triggers
               PROVE  \E o \in Macros : t \in mac[o].triggers /\ d \in DispatchersOf(mac[o])
    BY DEF TriggersPlaced
  <2>1. CASE t \in recv[d]
    BY <2>1 DEF Placed, TriggersPlaced
  <2>2. CASE t \notin recv[d]
    <3>1. /\ d \in Places(mac[m]) /\ t \in Parts(m, mac[m])
          /\ d \in Dispatchers /\ d # generic
      BY <2>2 DEF Added, OfActivators
    <3>2. t \in mac[m].triggers
      BY <3>1 DEF Parts, DispatchingAssumption
    <3>3. QED
      BY <3>1, <3>2, <1>0
  <2>3. QED
    BY <2>1, <2>2
<1>3. QED
  BY <1>1, <1>2 DEF Placed

(* _applyDispatch() of a living macro. *)
LEMMA AppliedPlaced ==
  ASSUME DispatchingAssumption,
         NEW mac \in [Macros -> MacroRecord], NEW recv \in Registry,
         NEW m \in Macros, mac[m].alive, Placed(mac, recv)
  PROVE  Placed(mac, Applied(m, mac[m], recv))
<1> DEFINE less == Removed(m, mac[m], recv)
<1>1. less \in Registry /\ mac[m] \in MacroRecord
  BY HelpersTyped
<1>2. Placed(mac, less)
  <2>1. \A d \in Dispatchers : less[d] \subseteq recv[d]
    BY DEF Removed
  <2> HIDE DEF less
  <2>2. QED
    BY <2>1, FewerPlaced
<1>3. Placed(mac, Added(m, mac[m], less))
  <2> HIDE DEF less
  <2>1. QED
    BY <1>1, <1>2, AddedPlaced
<1>4. QED
  BY <1>2, <1>3 DEF Applied

(* Other flags of a macro do not matter to where it stands. *)
LEMMA FlagsPlaced ==
  ASSUME NEW mac \in [Macros -> MacroRecord], NEW recv, NEW m \in Macros,
         NEW r \in MacroRecord, Placed(mac, recv), r.alive = mac[m].alive,
         r.activators = mac[m].activators, r.triggers = mac[m].triggers
  PROVE  Placed([mac EXCEPT ![m] = r], recv)
<1> DEFINE mac2 == [mac EXCEPT ![m] = r]
<1>1. \A o \in Macros : /\ mac2[o].alive = mac[o].alive
                        /\ mac2[o].triggers = mac[o].triggers
                        /\ DispatchersOf(mac2[o]) = DispatchersOf(mac[o])
  BY DEF DispatchersOf
<1> HIDE DEF mac2
<1>2. Placed(mac2, recv)
  BY <1>1 DEF Placed, MacrosPlaced, TriggersPlaced
<1>3. QED
  BY <1>2 DEF mac2

-----------------------------------------------------------------------------
(* A change of a macro after which it and the receivers are placed, and    *)
(* which starts nothing, keeps the invariant if the triggers stay owned.   *)
LEMMA ChangeKeeps ==
  ASSUME DispatchingAssumption, IInv,
         NEW m \in Macros, NEW r \in MacroRecord, NEW recv \in Registry,
         Change(m, r, recv), Placed([macro EXCEPT ![m] = r], recv),
         actor' \in [Triggers -> Macros \cup {Nothing}], shared' \subseteq Triggers,
         TriggersOwned'
  PROVE  IInv'
<1>1. TypeOK'
  BY DEF IInv, TypeOK, Change, contextVars, Registry
<1>2. Placed(macro, receivers)'
  BY DEF Change, contextVars, Placed, MacrosPlaced, TriggersPlaced, OfActivators
<1>3. StartsAsAsked'
  BY DEF Change, StartsAsAsked
<1>4. QED
  BY <1>1, <1>2, <1>3 DEF IInv

(* A change that leaves the triggers of the macro alone. *)
LEMMA StillOwned ==
  ASSUME IInv, NEW m \in Macros, NEW r, NEW recv, Change(m, r, recv),
         r.triggers \subseteq macro[m].triggers, r.alive \/ r.triggers = {},
         UNCHANGED <<actor, shared>>
  PROVE  /\ TriggersOwned'
         /\ actor' \in [Triggers -> Macros \cup {Nothing}] /\ shared' \subseteq Triggers
<1>1. macro \in [Macros -> MacroRecord] /\ macro' = [macro EXCEPT ![m] = r]
  BY DEF IInv, TypeOK, Change
<1>2. TriggersOwned
  BY DEF IInv
<1>3. \A o \in Macros : macro'[o] = IF o = m THEN r ELSE macro[o]
  BY <1>1
<1>4. TriggersOwned'
  BY <1>2, <1>3 DEF TriggersOwned
<1>5. QED
  BY <1>4 DEF IInv, TypeOK

(* A change that gives triggers to the macro. *)
LEMMA NowOwned ==
  ASSUME IInv, NEW m \in Macros, NEW r, NEW recv, Change(m, r, recv),
         r.alive, r.triggers \subseteq Triggers, ActFor(m, r.triggers)
  PROVE  /\ TriggersOwned'
         /\ actor' \in [Triggers -> Macros \cup {Nothing}] /\ shared' \subseteq Triggers
<1>1. /\ macro \in [Macros -> MacroRecord] /\ macro' = [macro EXCEPT ![m] = r]
      /\ actor \in [Triggers -> Macros \cup {Nothing}] /\ shared \subseteq Triggers
  BY DEF IInv, TypeOK, Change
<1>2. TriggersOwned
  BY DEF IInv
<1>3. \A o \in Macros : macro'[o] = IF o = m THEN r ELSE macro[o]
  BY <1>1
<1>4. \A o \in Macros : macro[o].triggers \subseteq Triggers
  BY <1>1 DEF MacroRecord
<1>5. TriggersOwned'
  <2> SUFFICES ASSUME NEW o \in Macros, NEW t \in macro'[o].triggers
               PROVE  macro'[o].alive /\ (t \notin shared' => actor'[t] = o)
    BY DEF TriggersOwned
  <2>0. t \in Triggers
    BY <1>3, <1>4
  <2>1. CASE o = m
    <3>1. t \in r.triggers /\ macro'[o] = r
      BY <2>1, <1>3
    <3>2. actor'[t] = m
      BY <3>1, <2>0 DEF ActFor
    <3>3. QED
      BY <3>1, <3>2, <2>1
  <2>2. CASE o # m
    <3>1. t \in macro[o].triggers /\ macro'[o] = macro[o]
      BY <2>2, <1>3
    <3>2. macro[o].alive /\ (t \notin shared => actor[t] = o)
      BY <3>1, <1>2 DEF TriggersOwned
    <3>3. CASE t \in r.triggers
      BY <3>1, <3>2, <3>3, <2>2 DEF ActFor
    <3>4. CASE t \notin r.triggers
      BY <3>1, <3>2, <3>4, <2>0 DEF ActFor
    <3>5. QED
      BY <3>3, <3>4
  <2>3. QED
    BY <2>1, <2>2
<1>6. actor' \in [Triggers -> Macros \cup {Nothing}] /\ shared' \subseteq Triggers
  BY <1>1 DEF ActFor
<1>7. QED
  BY <1>5, <1>6

-----------------------------------------------------------------------------
(* A change that registers the macro anew: what it had is removed, and     *)
(* _applyDispatch() runs with its new members.                             *)
LEMMA AnewPlaced ==
  ASSUME DispatchingAssumption, IInv, NEW m \in Macros, NEW r \in MacroRecord, r.alive
  PROVE  LET recv == Applied(m, r, Removed(m, macro[m], receivers))
         IN recv \in Registry /\ Placed([macro EXCEPT ![m] = r], recv)
<1> DEFINE mac2 == [macro EXCEPT ![m] = r]
           less == Removed(m, macro[m], receivers)
<1>1. macro \in [Macros -> MacroRecord] /\ receivers \in Registry
  BY DEF IInv, TypeOK, Registry
<1>2. less \in Registry
  BY <1>1, HelpersTyped
<1>3. Placed(mac2, less)
  BY <1>1, RemovedPlaced DEF IInv
<1>4. mac2 \in [Macros -> MacroRecord] /\ mac2[m] = r
  BY <1>1
<1> HIDE DEF mac2, less
<1>5. Placed(mac2, Applied(m, r, less))
  BY <1>2, <1>3, <1>4, AppliedPlaced
<1>6. Applied(m, r, less) \in Registry
  BY <1>2, HelpersTyped
<1>7. QED
  BY <1>5, <1>6 DEF mac2, less

(* The macro as it is, removed or added or both. *)
LEMMA AsItIsPlaced ==
  ASSUME DispatchingAssumption, IInv, NEW m \in Macros, macro[m].alive
  PROVE  /\ macro[m] \in MacroRecord /\ [macro EXCEPT ![m] = macro[m]] = macro
         /\ Removed(m, macro[m], receivers) \in Registry
         /\ Placed(macro, Removed(m, macro[m], receivers))
         /\ Added(m, macro[m], receivers) \in Registry
         /\ Placed(macro, Added(m, macro[m], receivers))
         /\ Applied(m, macro[m], receivers) \in Registry
         /\ Placed(macro, Applied(m, macro[m], receivers))
<1>1. /\ macro \in [Macros -> MacroRecord] /\ receivers \in Registry
      /\ macro[m] \in MacroRecord /\ Placed(macro, receivers)
  BY DEF IInv, TypeOK, Registry
<1>2. [macro EXCEPT ![m] = macro[m]] = macro
  BY <1>1
<1>3. Placed(macro, Removed(m, macro[m], receivers))
  <2>1. Placed([macro EXCEPT ![m] = macro[m]], Removed(m, macro[m], receivers))
    BY <1>1, RemovedPlaced
  <2>2. QED
    BY <2>1, <1>2
<1>4. QED
  BY <1>1, <1>2, <1>3, HelpersTyped, AddedPlaced, AppliedPlaced

(* Every member function of a macro keeps the invariant. *)
LEMMA MacroStepKeeps ==
  ASSUME DispatchingAssumption, IInv, NEW m \in Macros, MacroStep(m)
  PROVE  IInv'
<1>0. /\ macro \in [Macros -> MacroRecord] /\ receivers \in Registry
      /\ macro[m] \in MacroRecord /\ Placed(macro, receivers) /\ TriggersOwned
      /\ generic \in Dispatchers \cup {Nothing}
  BY DEF IInv, TypeOK, Registry
<1> DEFINE Same == UNCHANGED <<actor, shared>>
<1>1. ASSUME NEW val \in BOOLEAN, SetEnabled(m, val)
      PROVE  IInv'
  <2> DEFINE r == [macro[m] EXCEPT !.enabled = val]
             mac2 == [macro EXCEPT ![m] = r]
             recv == Applied(m, r, receivers)
  <2>1. /\ Change(m, r, recv) /\ Same /\ macro[m].alive
    BY <1>1 DEF SetEnabled, Change
  <2>2. r \in MacroRecord /\ r.alive /\ r.triggers = macro[m].triggers
        /\ r.activators = macro[m].activators /\ r.alive = macro[m].alive
    BY <1>0, <2>1 DEF MacroRecord
  <2>3. recv \in Registry
    BY <1>0, <2>2, HelpersTyped
  <2>4. mac2 \in [Macros -> MacroRecord] /\ mac2[m] = r
    BY <1>0, <2>2
  <2> HIDE DEF r
  <2>5. Placed(mac2, receivers)
    BY <1>0, <2>2, FlagsPlaced
  <2> HIDE DEF mac2
  <2>6. Placed(mac2, recv)
    BY <1>0, <2>2, <2>4, <2>5, AppliedPlaced
  <2>7. /\ TriggersOwned'
        /\ actor' \in [Triggers -> Macros \cup {Nothing}] /\ shared' \subseteq Triggers
    BY <2>1, <2>2, StillOwned
  <2> HIDE DEF recv
  <2>8. QED
    BY <2>1, <2>2, <2>3, <2>6, <2>7, ChangeKeeps DEF mac2
<1>2. ASSUME NEW val \in BOOLEAN, SetApplyDispatchEnabled(m, val)
      PROVE  IInv'
  <2> DEFINE r == [macro[m] EXCEPT !.apply = val]
  <2>1. Change(m, r, receivers) /\ Same /\ macro[m].alive
    BY <1>2 DEF SetApplyDispatchEnabled, Change
  <2>2. r \in MacroRecord /\ r.alive /\ r.triggers = macro[m].triggers
        /\ r.activators = macro[m].activators /\ r.alive = macro[m].alive
    BY <1>0, <2>1 DEF MacroRecord
  <2> HIDE DEF r
  <2>3. Placed([macro EXCEPT ![m] = r], receivers)
    BY <1>0, <2>2, FlagsPlaced
  <2>4. /\ TriggersOwned'
        /\ actor' \in [Triggers -> Macros \cup {Nothing}] /\ shared' \subseteq Triggers
    BY <2>1, <2>2, StillOwned
  <2>5. QED
    BY <1>0, <2>1, <2>2, <2>3, <2>4, ChangeKeeps
<1>3. ASSUME NEW as \in SUBSET Activators, SetActivators(m, as)
      PROVE  IInv'
  <2> DEFINE r == Given(macro[m], as, macro[m].triggers)
             recv == Applied(m, r, Removed(m, macro[m], receivers))
  <2>1. Change(m, r, recv) /\ Same /\ macro[m].alive
    BY <1>3 DEF SetActivators, Change
  <2>2. r \in MacroRecord /\ r.alive /\ r.triggers = macro[m].triggers
    BY <1>0, <2>1 DEF MacroRecord, Given
  <2> HIDE DEF r
  <2>3. recv \in Registry /\ Placed([macro EXCEPT ![m] = r], recv)
    BY <2>2, AnewPlaced
  <2>4. /\ TriggersOwned'
        /\ actor' \in [Triggers -> Macros \cup {Nothing}] /\ shared' \subseteq Triggers
    BY <2>1, <2>2, StillOwned
  <2> HIDE DEF recv
  <2>5. QED
    BY <2>1, <2>2, <2>3, <2>4, ChangeKeeps
<1>4. ASSUME NEW ts \in SUBSET Triggers, SetTriggers(m, ts)
      PROVE  IInv'
  <2> DEFINE r == Given(macro[m], macro[m].activators, ts)
             recv == Applied(m, r, Removed(m, macro[m], receivers))
  <2>1. Change(m, r, recv) /\ ActFor(m, ts) /\ macro[m].alive
    BY <1>4 DEF SetTriggers, Change
  <2>2. r \in MacroRecord /\ r.alive /\ r.triggers = ts
    BY <1>0, <2>1 DEF MacroRecord, Given
  <2> HIDE DEF r
  <2>3. recv \in Registry /\ Placed([macro EXCEPT ![m] = r], recv)
    BY <2>2, AnewPlaced
  <2>4. /\ TriggersOwned'
        /\ actor' \in [Triggers -> Macros \cup {Nothing}] /\ shared' \subseteq Triggers
    BY <2>1, <2>2, NowOwned
  <2> HIDE DEF recv
  <2>5. QED
    BY <2>1, <2>2, <2>3, <2>4, ChangeKeeps
<1>5. ASSUME NEW recv \in Registry, Change(m, macro[m], recv), Same, Placed(macro, recv)
      PROVE  IInv'
  <2>1. macro[m].alive
    BY <1>5 DEF Change
  <2>2. macro[m] \in MacroRecord /\ [macro EXCEPT ![m] = macro[m]] = macro
    BY <1>0
  <2>3. /\ TriggersOwned'
        /\ actor' \in [Triggers -> Macros \cup {Nothing}] /\ shared' \subseteq Triggers
    BY <1>5, <2>1, <2>2, StillOwned
  <2>4. QED
    BY <1>5, <2>2, <2>3, ChangeKeeps
<1>6. CASE ApplyDispatch(m)
  <2>1. Change(m, macro[m], Applied(m, macro[m], receivers)) /\ Same /\ macro[m].alive
    BY <1>6 DEF ApplyDispatch, Change
  <2>2. QED
    BY <2>1, <1>5, AsItIsPlaced
<1>7. CASE AddDispatch(m)
  <2>1. Change(m, macro[m], Added(m, macro[m], receivers)) /\ Same /\ macro[m].alive
    BY <1>7 DEF AddDispatch, Change
  <2>2. QED
    BY <2>1, <1>5, AsItIsPlaced
<1>8. CASE RemoveDispatch(m)
  <2>1. Change(m, macro[m], Removed(m, macro[m], receivers)) /\ Same /\ macro[m].alive
    BY <1>8 DEF RemoveDispatch, Change
  <2>2. QED
    BY <2>1, <1>5, AsItIsPlaced
<1>9. CASE AddOne(m)
  <2>1. PICK d \in Dispatchers, x \in {m} \cup macro[m].triggers :
          /\ Change(m, macro[m], With(d, x)) /\ Same /\ macro[m].alive
          /\ d \in DispatchersOf(macro[m]) \/ (d = generic /\ x \in macro[m].triggers)
    BY <1>9, <1>0 DEF AddOne, Change, DispatchersOf, DispatchingAssumption, MacroRecord
  <2>2. macro[m].triggers \subseteq Triggers
    BY <1>0 DEF MacroRecord
  <2>3. With(d, x) \in Registry
    BY <1>0, <2>2 DEF With, Registry, Receivers
  <2>4. MacrosPlaced(macro, With(d, x))
    BY <1>0, <2>1, <2>2 DEF With, Registry, Placed, MacrosPlaced, DispatchingAssumption
  <2>5. TriggersPlaced(macro, With(d, x))
    BY <1>0, <2>1, <2>2 DEF With, Registry, Placed, TriggersPlaced, OfActivators, DispatchingAssumption
  <2>6. QED
    BY <2>1, <2>3, <2>4, <2>5, <1>5 DEF Placed
<1>10. ASSUME NEW other \in Macros, Copy(m, other)
       PROVE  IInv'
  <2> DEFINE r == macro[other]
             recv == Applied(m, r, Removed(m, macro[m], receivers))
  <2>1. Change(m, r, recv) /\ ActFor(m, r.triggers) /\ r.alive
    BY <1>10 DEF Copy
  <2>2. r \in MacroRecord /\ r.triggers \subseteq Triggers
    BY <1>0 DEF MacroRecord
  <2> HIDE DEF r
  <2>3. recv \in Registry /\ Placed([macro EXCEPT ![m] = r], recv)
    BY <2>1, <2>2, AnewPlaced
  <2>4. /\ TriggersOwned'
        /\ actor' \in [Triggers -> Macros \cup {Nothing}] /\ shared' \subseteq Triggers
    BY <2>1, <2>2, NowOwned
  <2> HIDE DEF recv
  <2>5. QED
    BY <2>1, <2>2, <2>3, <2>4, ChangeKeeps
<1>11. CASE Destroy(m)
  <2> DEFINE recv == Removed(m, macro[m], receivers)
  <2>1. Change(m, Freed, recv) /\ Same /\ macro[m].alive
    BY <1>11 DEF Destroy, Change
  <2>2. Freed \in MacroRecord /\ Freed.triggers = {}
    BY DEF Freed, MacroRecord
  <2>3. recv \in Registry /\ Placed([macro EXCEPT ![m] = Freed], recv)
    BY <1>0, <2>2, HelpersTyped, RemovedPlaced
  <2>4. /\ TriggersOwned'
        /\ actor' \in [Triggers -> Macros \cup {Nothing}] /\ shared' \subseteq Triggers
    BY <2>1, <2>2, StillOwned
  <2> HIDE DEF recv
  <2>5. QED
    BY <2>1, <2>2, <2>3, <2>4, ChangeKeeps
<1>12. QED
  BY <1>1, <1>2, <1>3, <1>4, <1>6, <1>7, <1>8, <1>9, <1>10, <1>11 DEF MacroStep

(* A dispatcher starts a living macro, by a trigger it has. *)
LEMMA DispatchKeeps ==
  ASSUME DispatchingAssumption, IInv, NEW d \in Dispatchers, NEW mods, Dispatch(d, mods)
  PROVE  IInv'
<1>1. PICK visited \in SUBSET receivers[d] :
        started' = {[from |-> d, by |-> r, macro |-> ActorOf(r)] :
                      r \in {v \in visited : Accepts(v, mods) /\ ActorOf(v) # Nothing}}
  BY DEF Dispatch
<1>2. UNCHANGED <<macro, actor, receivers, generic, replaced, shared>>
  BY DEF Dispatch, contextVars
<1>3. ASSUME NEW s \in started'
      PROVE  /\ s.from = d /\ s.by \in receivers[d] /\ s.macro = ActorOf(s.by)
             /\ s = [from |-> s.from, by |-> s.by, macro |-> s.macro]
             /\ s.by \in Receivers /\ s.macro \in Macros
  <2>1. PICK r \in receivers[d] :
          s = [from |-> d, by |-> r, macro |-> ActorOf(r)] /\ ActorOf(r) # Nothing
    BY <1>1, <1>3
  <2>2. r \in Receivers /\ ActorOf(r) \in Macros
    BY <2>1 DEF IInv, TypeOK, Receivers, ActorOf
  <2>3. QED
    BY <2>1, <2>2
<1>4. TypeOK'
  <2>1. started' \subseteq [from : Dispatchers, by : Receivers, macro : Macros]
    <3> SUFFICES ASSUME NEW s \in started'
                 PROVE  s \in [from : Dispatchers, by : Receivers, macro : Macros]
      OBVIOUS
    <3>1. QED
      BY <1>3
  <2>2. QED
    BY <2>1, <1>2 DEF IInv, TypeOK
<1>5. StartsAsAsked'
  <2> SUFFICES ASSUME NEW s \in started', s.from \in OfActivators, s.by \notin shared
               PROVE  /\ macro[s.macro].alive
                      /\ s.by \in Triggers => s.by \in macro[s.macro].triggers
    BY <1>2 DEF StartsAsAsked, StartedRightly, OfActivators
  <2>1. /\ d \in OfActivators /\ s.by \in receivers[d] /\ s.macro = ActorOf(s.by)
        /\ s.by \in Receivers
    BY <1>3
  <2>2. CASE s.by \in Triggers
    <3>1. PICK m \in Macros : s.by \in macro[m].triggers
      BY <2>1, <2>2 DEF IInv, Placed, TriggersPlaced, OfActivators
    <3>2. macro[m].alive /\ actor[s.by] = m
      BY <3>1 DEF IInv, TriggersOwned
    <3>3. QED
      BY <2>1, <2>2, <3>1, <3>2 DEF ActorOf
  <2>3. CASE s.by \notin Triggers
    BY <2>1, <2>3 DEF IInv, Placed, MacrosPlaced, OfActivators, ActorOf, Receivers
  <2>4. QED
    BY <2>2, <2>3
<1>6. Placed(macro, receivers)' /\ TriggersOwned'
  BY <1>2 DEF IInv, Placed, MacrosPlaced, TriggersPlaced, OfActivators, TriggersOwned
<1>7. QED
  BY <1>4, <1>5, <1>6 DEF IInv

(* A dispatcher that drops receivers. *)
LEMMA DropKeeps ==
  ASSUME IInv, NEW d \in Dispatchers, NEW rs, DropReceivers(d, rs)
  PROVE  IInv'
<1>1. /\ receivers \in Registry /\ receivers' = [receivers EXCEPT ![d] = @ \ rs]
      /\ started' = {} /\ UNCHANGED <<macro, actor, generic, replaced, shared>>
  BY DEF IInv, TypeOK, Registry, DropReceivers, contextVars
<1>2. /\ receivers' \in Registry
      /\ \A e \in Dispatchers : receivers'[e] \subseteq receivers[e]
  BY <1>1 DEF Registry
<1>3. Placed(macro, receivers')
  BY <1>2, FewerPlaced DEF IInv
<1>4. Placed(macro, receivers)'
  BY <1>1, <1>3 DEF Placed, MacrosPlaced, TriggersPlaced, OfActivators
<1>5. TypeOK' /\ TriggersOwned' /\ StartsAsAsked'
  BY <1>1, <1>2 DEF IInv, TypeOK, Registry, TriggersOwned, StartsAsAsked
<1>6. QED
  BY <1>4, <1>5 DEF IInv

(* Another generic dispatcher: who stands in the old one is not asked about *)
(* any more, and who stands in the new one stood there by an activator.     *)
LEMMA GenericKeeps ==
  ASSUME DispatchingAssumption, IInv, NEW g \in Replacements, SetGenericDispatcher(g)
  PROVE  IInv'
<1>1. /\ generic' = g /\ replaced' = replaced \cup ({generic} \ {Nothing})
      /\ started' = {} /\ UNCHANGED <<macro, actor, receivers, shared>>
  BY DEF SetGenericDispatcher
<1>2. TypeOK' /\ TriggersOwned' /\ StartsAsAsked'
  BY <1>1 DEF IInv, TypeOK, TriggersOwned, StartsAsAsked, DispatchingAssumption
<1>3. MacrosPlaced(macro, receivers)'
  <2> SUFFICES ASSUME NEW d \in Dispatchers \ replaced', NEW m \in receivers[d] \cap Macros
               PROVE  macro[m].alive /\ d \in DispatchersOf(macro[m]) \cup {g}
    BY <1>1 DEF MacrosPlaced, DispatchersOf
  <2>1. d \in Dispatchers \ replaced /\ d # generic
    BY <1>1 DEF DispatchingAssumption
  <2>2. QED
    BY <2>1 DEF IInv, Placed, MacrosPlaced
<1>4. TriggersPlaced(macro, receivers)'
  <2>1. OfActivators' \subseteq OfActivators
    BY <1>1 DEF OfActivators, DispatchingAssumption
  <2>2. QED
    BY <1>1, <2>1 DEF IInv, Placed, TriggersPlaced, DispatchersOf
<1>5. QED
  BY <1>2, <1>3, <1>4 DEF IInv, Placed

-----------------------------------------------------------------------------
(* The dispatching has its inductive invariant. *)
LEMMA Inductive == Spec => []IInv
<1>1. ASSUME Init
      PROVE  IInv
  <2>1. TypeOK
    BY <1>1, DispatchingAssumption
       DEF Init, TypeOK, MacroRecord, NewMacro, DispatchingAssumption
  <2>2. Placed(macro, receivers)
    BY <1>1 DEF Init, Placed, MacrosPlaced, TriggersPlaced, OfActivators
  <2>3. TriggersOwned /\ StartsAsAsked
    BY <1>1 DEF Init, NewMacro, TriggersOwned, StartsAsAsked
  <2>4. QED
    BY <2>1, <2>2, <2>3 DEF IInv
<1>2. IInv /\ [Next]_vars => IInv'
  <2> SUFFICES ASSUME IInv, [Next]_vars
               PROVE  IInv'
    OBVIOUS
  <2>1. CASE UNCHANGED vars
    <3>1. UNCHANGED <<macro, actor, receivers, generic, replaced, shared, started>>
      BY <2>1 DEF vars, contextVars
    <3>2. TypeOK' /\ TriggersOwned'
      BY <3>1 DEF IInv, TypeOK, TriggersOwned
    <3>3. Placed(macro, receivers)'
      BY <3>1 DEF IInv, Placed, MacrosPlaced, TriggersPlaced, OfActivators
    <3>4. StartsAsAsked'
      BY <3>1 DEF IInv, StartsAsAsked, StartedRightly, OfActivators
    <3>5. QED
      BY <3>2, <3>3, <3>4 DEF IInv
  <2>2. ASSUME NEW m \in Macros, MacroStep(m)
        PROVE  IInv'
    BY <2>2, DispatchingAssumption, MacroStepKeeps
  <2>3. ASSUME NEW d \in Dispatchers, Clear(d)
        PROVE  IInv'
    BY <2>3, DropKeeps DEF Clear
  <2>4. ASSUME NEW d \in Dispatchers, NEW r \in Receivers, Remove(d, r)
        PROVE  IInv'
    BY <2>4, DropKeeps DEF Remove
  <2>5. ASSUME NEW d \in Dispatchers, NEW mods \in SUBSET Flags, Dispatch(d, mods)
        PROVE  IInv'
    BY <2>5, DispatchingAssumption, DispatchKeeps
  <2>6. ASSUME NEW g \in Replacements, SetGenericDispatcher(g)
        PROVE  IInv'
    BY <2>6, DispatchingAssumption, GenericKeeps
  <2>7. QED
    BY <2>1, <2>2, <2>3, <2>4, <2>5, <2>6 DEF Next
<1>3. QED
  BY <1>1, <1>2, PTL DEF Spec

(* Every member, dispatcher and start has its type. *)
THEOREM DispatchingTypeCorrect == Spec => []TypeOK
<1>1. IInv => TypeOK
  BY DEF IInv
<1>2. QED
  BY Inductive, <1>1, PTL

(* A macro in a dispatcher is alive and its removeDispatch() finds it. *)
THEOREM MacrosStayRemovable == Spec => []MacrosRemovable
<1>1. IInv => MacrosRemovable
  BY DEF IInv, Placed, MacrosPlaced, MacrosRemovable
<1>2. QED
  BY Inductive, <1>1, PTL

(* A trigger in a dispatcher of the activators belongs to a living macro   *)
(* whose removeDispatch() finds it.                                        *)
THEOREM TriggersStayRemovable == Spec => []TriggersRemovable
<1>1. IInv => TriggersRemovable
  BY DEF IInv, Placed, TriggersPlaced, TriggersRemovable
<1>2. QED
  BY Inductive, <1>1, PTL

(* The dispatchers of the activators start only living macros that have    *)
(* the trigger that starts them.                                           *)
THEOREM DispatchStartsAsAsked == Spec => []StartsAsAsked
<1>1. IInv => StartsAsAsked
  BY DEF IInv
<1>2. QED
  BY Inductive, <1>1, PTL
=============================================================================
