------------------------------ MODULE Contexts ------------------------------
(***************************************************************************)
(* The contexts of a program (src/src/libmacro.cpp, src/mcr/libmacro.h):   *)
(* their construction and destruction by several threads, the registry     *)
(* behind Libmacro::instance(), the flags and modifiers they keep, and the *)
(* Modifier signal, which edits the modifiers (src/src/signal/modifier.cpp *)
(* and src/mcr/signal/modifier.h).                                         *)
(*                                                                         *)
(* A step is what one thread does under _registryMutex, or one access of   *)
(* the members of a context, which no lock protects.  Flags are sets of    *)
(* bits.  A context stands for the memory it is in, so it may be           *)
(* constructed again after it was destroyed.                               *)
(***************************************************************************)
EXTENDS Integers, Sequences

CONSTANTS
  Threads,
  Contexts,
  None,            \* no context
  Bits,            \* the modifier flags
  Signals,         \* Modifier signals: [context, apply, modifiers]
  SetByProgram,    \* what the program sets modifiers to: <<context, modifiers>>
  Created,         \* what it passes to createContext(), TRUE to enable
  Switched         \* the flags it switches: <<context, flag>>

Applies == {"SET", "UNSET", "BOTH", "TOGGLE"}      \* mcr_ApplyValue
ContextFlags == {"enabled", "blockable", "genericDispatch"}

ASSUME ContextsAssumption ==
  /\ None \notin Contexts
  /\ Signals \subseteq [context : Contexts, apply : Applies, modifiers : SUBSET Bits]
  /\ SetByProgram \subseteq Contexts \X SUBSET Bits
  /\ Created \subseteq BOOLEAN
  /\ Switched \subseteq Contexts \X ContextFlags

VARIABLES
  registryStack,   \* _registryStack
  registrySet,     \* _registrySet
  built,           \* the contexts whose members are constructed
  flags,           \* of each context, those of ContextFlags that are set
  modifiers,       \* _modifiers of each context
  frame,           \* of each thread: where it is, in which context, with what
  latest,          \* what instance() last returned to any thread
  seen             \* history: the modifiers each send has overlapped with
registryVars == <<registryStack, registrySet>>
memberVars == <<built, flags>>
modifierVars == <<modifiers, seen>>
contextsVars == <<registryVars, memberVars, modifierVars, frame, latest>>

Client == [at |-> "client", context |-> None]
Working == {"register", "enable", "unregister", "free"}

ContextsInit ==
  /\ registryStack = <<>>
  /\ registrySet = {}
  /\ built = {}
  /\ flags = [c \in Contexts |-> {}]
  /\ modifiers = [c \in Contexts |-> {}]
  /\ frame = [t \in Threads |-> Client]
  /\ latest = None
  /\ seen = [t \in Threads |-> {}]

At(t, place) == frame[t].at = place
Goes(t, place) == frame' = [frame EXCEPT ![t].at = place]
Returns(t) == frame' = [frame EXCEPT ![t] = Client]

(* The program uses a context from when instance() may return it until      *)
(* somebody destroys it, and destroys one that is constructed and that no   *)
(* thread uses.                                                             *)
Usable(c) == c \in registrySet /\ \A t \in Threads :
  frame[t].context = c => frame[t].at \notin {"unregister", "free"}
Unused(c) == \A t \in Threads : frame[t].context # c

-----------------------------------------------------------------------------
(* LibmacroImpl::LibmacroImpl().  Nothing is set in a new context, nor, in  *)
(* this model, in what a destroyed one leaves.                              *)

Construct(t, c, enabled) ==
  /\ At(t, "client") /\ c \notin built /\ Unused(c)
  /\ built' = built \cup {c}
  /\ frame' = [frame EXCEPT ![t] = [at |-> "register", context |-> c, enabled |-> enabled]]
  /\ UNCHANGED <<registryVars, flags, modifierVars, latest>>

Register(t) ==
  /\ At(t, "register")
  /\ registryStack' = Append(registryStack, frame[t].context)
  /\ registrySet' = registrySet \cup {frame[t].context}
  /\ Goes(t, "enable")
  /\ UNCHANGED <<memberVars, modifierVars, latest>>

Switch(c, flag, val) ==
  flags' = [flags EXCEPT ![c] = IF val THEN @ \cup {flag} ELSE @ \ {flag}]

(* Mutant of Enable: the constructor keeps the context. *)
EnableKeeping(t) ==
  /\ At(t, "enable")
  /\ Switch(frame[t].context, "enabled", frame[t].enabled)
  /\ Goes(t, "client")
  /\ UNCHANGED <<registryVars, built, modifierVars, latest>>

Enable(t) ==
  /\ At(t, "enable")
  /\ Switch(frame[t].context, "enabled", frame[t].enabled)
  /\ Returns(t)
  /\ UNCHANGED <<registryVars, built, modifierVars, latest>>

-----------------------------------------------------------------------------
(* LibmacroImpl::~LibmacroImpl(), which only complains of enabled ones. *)

(* Mutant of Destroy: the members go before the registration. *)
DestroyMembers(t, c) ==
  /\ At(t, "client") /\ c \in built /\ Unused(c)
  /\ frame' = [frame EXCEPT ![t] = [at |-> "unregister", context |-> c]]
  /\ built' = built \ {c}
  /\ UNCHANGED <<registryVars, flags, modifierVars, latest>>

Destroy(t, c) ==
  /\ At(t, "client") /\ c \in built /\ Unused(c)
  /\ frame' = [frame EXCEPT ![t] = [at |-> "unregister", context |-> c]]
  /\ UNCHANGED <<registryVars, memberVars, modifierVars, latest>>

ErasedAt(s, i) ==
  [j \in 1 .. Len(s) - 1 |-> IF j < i THEN s[j] ELSE s[j + 1]]

(* Mutant of Unregister: the last one goes. *)
UnregisterBack(t) ==
  /\ At(t, "unregister")
  /\ registryStack' = ErasedAt(registryStack, Len(registryStack))
  /\ registrySet' = registrySet \ {frame[t].context}
  /\ Goes(t, "free")
  /\ UNCHANGED <<memberVars, modifierVars, latest>>

(* The first entry that is the context goes. *)
Unregister(t) == LET c == frame[t].context IN
  /\ At(t, "unregister")
  /\ \/ \E i \in DOMAIN registryStack :
          /\ registryStack[i] = c /\ \A j \in 1 .. i - 1 : registryStack[j] # c
          /\ registryStack' = ErasedAt(registryStack, i)
     \/ (\A i \in DOMAIN registryStack : registryStack[i] # c) /\ UNCHANGED registryStack
  /\ registrySet' = registrySet \ {c}
  /\ Goes(t, "free")
  /\ UNCHANGED <<memberVars, modifierVars, latest>>

Free(t) ==
  /\ At(t, "free")
  /\ built' = built \ {frame[t].context}
  /\ Returns(t)
  /\ flags' = [flags EXCEPT ![frame[t].context] = {}]
  /\ modifiers' = [modifiers EXCEPT ![frame[t].context] = {}]
  /\ UNCHANGED <<registryVars, seen, latest>>

-----------------------------------------------------------------------------
(* The registry, as the program asks it. *)

instance(t) ==
  /\ At(t, "client")
  /\ latest' = IF registryStack = <<>> THEN None ELSE registryStack[Len(registryStack)]
  /\ UNCHANGED <<registryVars, memberVars, modifierVars, frame>>

hasInstance(c) == c \in registrySet

-----------------------------------------------------------------------------
(* The members of a context. *)

setFlag(t, c, flag, val) ==
  /\ At(t, "client") /\ Usable(c)
  /\ Switch(c, flag, val)
  /\ UNCHANGED <<registryVars, built, modifierVars, frame, latest>>

(* A change is seen by the sends to the context that have read it. *)
Stores(t, c, mods) ==
  /\ modifiers' = [modifiers EXCEPT ![c] = mods]
  /\ seen' = [u \in Threads |->
       IF u = t THEN {}
       ELSE IF At(u, "store") /\ frame[u].context = c THEN seen[u] \cup {mods}
       ELSE seen[u]]

setModifiers(t, c, mods) ==
  /\ At(t, "client") /\ Usable(c)
  /\ Stores(t, c, mods)
  /\ UNCHANGED <<registryVars, memberVars, frame, latest>>

-----------------------------------------------------------------------------
(* Modifier::send(): it reads the modifiers, and stores what it makes of    *)
(* them.                                                                    *)

Applied(signal, mods) ==
  CASE signal.apply = "SET"             -> mods \cup signal.modifiers
    [] signal.apply \in {"UNSET", "BOTH"} -> mods \ signal.modifiers
    [] signal.apply = "TOGGLE"          ->
         IF signal.modifiers \subseteq mods THEN mods \ signal.modifiers
         ELSE mods \cup signal.modifiers

send(t, signal) ==
  /\ At(t, "client") /\ Usable(signal.context)
  /\ frame' = [frame EXCEPT ![t] =
       [at |-> "store", context |-> signal.context, signal |-> signal,
        mods |-> modifiers[signal.context]]]
  /\ seen' = [seen EXCEPT ![t] = {modifiers[signal.context]}]
  /\ UNCHANGED <<registryVars, memberVars, modifiers, latest>>

(* Mutant of SendStores: a toggle reads the modifiers again. *)
SendStoresAgain(t) == LET c == frame[t].context IN
  /\ At(t, "store")
  /\ LET signal == frame[t].signal IN
     Stores(t, c,
       IF signal.apply = "TOGGLE" /\ ~(signal.modifiers \subseteq frame[t].mods)
       THEN modifiers[c] \cup signal.modifiers ELSE Applied(signal, frame[t].mods))
  /\ Returns(t)
  /\ UNCHANGED <<registryVars, memberVars, latest>>

SendStores(t) ==
  /\ At(t, "store")
  /\ Stores(t, frame[t].context, Applied(frame[t].signal, frame[t].mods))
  /\ Returns(t)
  /\ UNCHANGED <<registryVars, memberVars, latest>>

-----------------------------------------------------------------------------
ContextsNext == \E t \in Threads :
  \/ Register(t) \/ Enable(t) \/ Unregister(t) \/ Free(t) \/ SendStores(t)
  \/ instance(t)
  \/ \E signal \in Signals : send(t, signal)
  \/ \E c \in Contexts :
       Destroy(t, c) \/ \E enabled \in Created : Construct(t, c, enabled)
  \/ \E s \in Switched, val \in BOOLEAN : setFlag(t, s[1], s[2], val)
  \/ \E s \in SetByProgram : setModifiers(t, s[1], s[2])

ContextsSpec == ContextsInit /\ [][ContextsNext]_contextsVars

-----------------------------------------------------------------------------
Frames ==
  {Client}
  \cup [at : {"register", "enable"}, context : Contexts, enabled : BOOLEAN]
  \cup [at : {"unregister", "free"}, context : Contexts]
  \cup [at : {"store"}, context : Contexts, signal : Signals, mods : SUBSET Bits]

(* The variables are of their types. *)
ContextsTypeOK ==
  /\ registryStack \in Seq(Contexts)
  /\ registrySet \subseteq Contexts
  /\ built \subseteq Contexts
  /\ flags \in [Contexts -> SUBSET ContextFlags]
  /\ modifiers \in [Contexts -> SUBSET Bits]
  /\ frame \in [Threads -> Frames]
  /\ latest \in Contexts \cup {None}
  /\ seen \in [Threads -> SUBSET SUBSET Bits]

(* Every context that instance() may return or hasInstance() affirms is one *)
(* whose members are constructed: it enters the registry after them and     *)
(* leaves it before them, whatever other threads construct or destroy.      *)
RegisteredBuilt == \A c \in Contexts :
  hasInstance(c) \/ (\E i \in DOMAIN registryStack : registryStack[i] = c) => c \in built

Older == {<<registryStack[p[1]], registryStack[p[2]]>> :
  p \in {q \in (DOMAIN registryStack) \X (DOMAIN registryStack) : q[1] < q[2]}}

(* instance() returns the last created of the contexts that hasInstance()   *)
(* affirms, whichever of the others were destroyed, or throws when there is *)
(* none: the stack and the set implement the promise of libmacro.h.         *)
Abstract == INSTANCE LatestContext WITH living <- registrySet, older <- Older
LastCreated == Abstract!Spec

(* A send stores what it makes of the modifiers as they were at one moment  *)
(* of the send.  Its own flags come out as the signal says; the others can  *)
(* only come out as another send or the program had them meanwhile.         *)
SendsOneMoment == [][
  \A t \in Threads : At(t, "store") /\ frame'[t] = Client =>
    \E mods \in seen[t] : modifiers'[frame[t].context] = Applied(frame[t].signal, mods)
  ]_contextsVars
=============================================================================
