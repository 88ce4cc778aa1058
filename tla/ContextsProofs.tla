--------------------------- MODULE ContextsProofs ---------------------------
(***************************************************************************)
(* Theorems about Contexts, for any number of threads, contexts, flags and *)
(* signals.                                                                *)
(***************************************************************************)
EXTENDS Contexts, SequenceTheorems, TLAPS

-----------------------------------------------------------------------------
(* The inductive invariant. *)

Elements(s) == {s[i] : i \in DOMAIN s}

(* The stack has each registered context once. *)
StackInv ==
  /\ \A i, j \in DOMAIN registryStack : registryStack[i] = registryStack[j] => i = j
  /\ registrySet = Elements(registryStack)

(* One that a constructor or a destructor has out of the registry is still  *)
(* built, and is nobody else's; the others in use are registered.           *)
FrameInv == \A t \in Threads :
  /\ frame[t].at \in {"register", "free"} =>
       frame[t].context \in built /\ frame[t].context \notin registrySet
  /\ frame[t].at \in {"enable", "unregister", "store"} =>
       frame[t].context \in registrySet
  /\ frame[t].at \in {"register", "unregister", "free"} =>
       \A u \in Threads : frame[u].context = frame[t].context => u = t

BuiltInv ==
  /\ registrySet \subseteq built
  /\ \A c \in built : c \in registrySet \/ ~Unused(c)

(* A send overlaps with the modifiers it has read. *)
SendInv == \A t \in Threads : frame[t].at = "store" => frame[t].mods \in seen[t]

ContextsInv == ContextsTypeOK /\ StackInv /\ FrameInv /\ BuiltInv /\ SendInv

-----------------------------------------------------------------------------
(* Types. *)

LEMMA FrameType ==
  ASSUME NEW f \in Frames
  PROVE  /\ f.at \in {"client", "register", "enable", "unregister", "free", "store"}
         /\ f.context \in Contexts \cup {None}
         /\ f.at = "client" => f = Client
         /\ f.at # "client" => f.context \in Contexts
         /\ f.at \in {"register", "enable"} => f.enabled \in BOOLEAN
         /\ f.at = "store" => f.signal \in Signals /\ f.mods \in SUBSET Bits
BY DEF Frames, Client

LEMMA ClientType == Client \in Frames /\ Client.at = "client" /\ Client.context = None
BY DEF Frames, Client

(* Where a constructor or destructor goes, its frame stays one. *)
LEMMA GoesType ==
  ASSUME NEW t \in Threads, frame \in [Threads -> Frames],
         \/ At(t, "register") /\ Goes(t, "enable")
         \/ At(t, "unregister") /\ Goes(t, "free")
  PROVE  frame' \in [Threads -> Frames]
<1> DEFINE f == frame[t]
<1>1. f \in Frames /\ frame' = [frame EXCEPT ![t] = [f EXCEPT !.at = frame'[t].at]]
  BY DEF Goes
<1>2. [f EXCEPT !.at = frame'[t].at] \in Frames
  <2>1. CASE At(t, "register") /\ Goes(t, "enable")
    <3>1. f \in [at : {"register", "enable"}, context : Contexts, enabled : BOOLEAN]
      BY <1>1, <2>1 DEF Frames, Client, At
    <3>2. frame'[t].at = "enable"
      BY <2>1, <3>1 DEF Goes
    <3>3. [f EXCEPT !.at = "enable"]
            \in [at : {"register", "enable"}, context : Contexts, enabled : BOOLEAN]
      BY <3>1
    <3> QED BY <3>2, <3>3 DEF Frames
  <2>2. CASE At(t, "unregister") /\ Goes(t, "free")
    <3>1. f \in [at : {"unregister", "free"}, context : Contexts]
      BY <1>1, <2>2 DEF Frames, Client, At
    <3>2. frame'[t].at = "free"
      BY <2>2, <3>1 DEF Goes
    <3>3. [f EXCEPT !.at = "free"] \in [at : {"unregister", "free"}, context : Contexts]
      BY <3>1
    <3> QED BY <3>2, <3>3 DEF Frames
  <2> QED BY <2>1, <2>2
<1> QED BY <1>1, <1>2

LEMMA AppliedType ==
  ASSUME NEW signal \in Signals, NEW mods \in SUBSET Bits
  PROVE  Applied(signal, mods) \in SUBSET Bits
<1>1. signal.apply \in Applies /\ signal.modifiers \in SUBSET Bits
  BY ContextsAssumption
<1>2. CASE signal.apply = "SET"
  BY <1>1, <1>2 DEF Applied
<1>3. CASE signal.apply \in {"UNSET", "BOTH"}
  BY <1>1, <1>3 DEF Applied
<1>4. CASE signal.apply = "TOGGLE"
  BY <1>1, <1>4 DEF Applied
<1> QED BY <1>1, <1>2, <1>3, <1>4 DEF Applies

LEMMA StoresType ==
  ASSUME ContextsTypeOK, NEW t \in Threads, NEW c \in Contexts, NEW mods \in SUBSET Bits,
         Stores(t, c, mods)
  PROVE  /\ modifiers' \in [Contexts -> SUBSET Bits]
         /\ seen' \in [Threads -> SUBSET SUBSET Bits]
<1>1. modifiers' \in [Contexts -> SUBSET Bits]
  BY DEF ContextsTypeOK, Stores
<1>2. \A u \in Threads : seen[u] \cup {mods} \in SUBSET SUBSET Bits /\ {} \in SUBSET SUBSET Bits
  BY DEF ContextsTypeOK
<1>3. seen' \in [Threads -> SUBSET SUBSET Bits]
  BY <1>2 DEF ContextsTypeOK, Stores
<1> QED BY <1>1, <1>3

(* What a stack without one entry is. *)
LEMMA ErasedAtType ==
  ASSUME NEW S, NEW s \in Seq(S), NEW i \in DOMAIN s
  PROVE  /\ ErasedAt(s, i) \in Seq(S)
         /\ Len(ErasedAt(s, i)) = Len(s) - 1
         /\ DOMAIN ErasedAt(s, i) = 1 .. Len(s) - 1
         /\ \A j \in 1 .. Len(s) - 1 : ErasedAt(s, i)[j] = IF j < i THEN s[j] ELSE s[j + 1]
<1> DEFINE n == Len(s) - 1
           e == ErasedAt(s, i)
<1>1. n \in Nat /\ DOMAIN s = 1 .. n + 1 /\ i \in 1 .. n + 1
  OBVIOUS
<1>2. e = [j \in 1 .. n |-> IF j < i THEN s[j] ELSE s[j + 1]]
  BY DEF ErasedAt
<1>3. \A j \in 1 .. n : e[j] = IF j < i THEN s[j] ELSE s[j + 1]
  BY <1>2
<1>4. \A j \in 1 .. n : s[j] \in S /\ s[j + 1] \in S
  BY <1>1
<1>5. e \in [1 .. n -> S]
  BY <1>2, <1>4
<1>6. e \in Seq(S) /\ Len(e) = n
  BY <1>1, <1>2, <1>5, SeqDef, LenProperties
<1> QED BY <1>2, <1>3, <1>6

LEMMA InitTyped == ContextsInit => ContextsTypeOK
BY ClientType DEF ContextsInit, ContextsTypeOK

LEMMA NextTyped ==
  ASSUME ContextsTypeOK, [ContextsNext]_contextsVars
  PROVE  ContextsTypeOK'
<1> USE DEF ContextsTypeOK
<1>1. CASE UNCHANGED contextsVars
  BY <1>1 DEF contextsVars, registryVars, memberVars, modifierVars
<1>2. ASSUME NEW t \in Threads, Register(t)
      PROVE  ContextsTypeOK'
  <2>1. frame[t].context \in Contexts
    BY <1>2, FrameType DEF Register, At
  <2>2. frame' \in [Threads -> Frames]
    BY <1>2, GoesType DEF Register
  <2> QED BY <1>2, <2>1, <2>2 DEF Register, memberVars, modifierVars
<1>3. ASSUME NEW t \in Threads, Enable(t)
      PROVE  ContextsTypeOK'
  <2>1. flags' \in [Contexts -> SUBSET ContextFlags]
    BY <1>3 DEF Enable, Switch, ContextFlags
  <2> QED BY <1>3, <2>1, ClientType DEF Enable, Returns, registryVars, modifierVars
<1>4. ASSUME NEW t \in Threads, Unregister(t)
      PROVE  ContextsTypeOK'
  <2>1. registryStack' \in Seq(Contexts)
    BY <1>4, ErasedAtType DEF Unregister
  <2>2. frame' \in [Threads -> Frames]
    BY <1>4, GoesType DEF Unregister
  <2> QED BY <1>4, <2>1, <2>2 DEF Unregister, memberVars, modifierVars
<1>5. ASSUME NEW t \in Threads, Free(t)
      PROVE  ContextsTypeOK'
  BY <1>5, ClientType DEF Free, Returns, registryVars
<1>6. ASSUME NEW t \in Threads, SendStores(t)
      PROVE  ContextsTypeOK'
  <2>1. frame[t].context \in Contexts /\ frame[t].signal \in Signals /\ frame[t].mods \in SUBSET Bits
    BY <1>6, FrameType DEF SendStores, At
  <2>2. Applied(frame[t].signal, frame[t].mods) \in SUBSET Bits
    BY <2>1, AppliedType
  <2>3. modifiers' \in [Contexts -> SUBSET Bits] /\ seen' \in [Threads -> SUBSET SUBSET Bits]
    BY <1>6, <2>1, <2>2, StoresType DEF SendStores
  <2> QED BY <1>6, <2>3, ClientType DEF SendStores, Returns, registryVars, memberVars
<1>7. ASSUME NEW t \in Threads, instance(t)
      PROVE  ContextsTypeOK'
  <2>1. registryStack # <<>> => registryStack[Len(registryStack)] \in Contexts
    OBVIOUS
  <2> QED BY <1>7, <2>1 DEF instance, registryVars, memberVars, modifierVars
<1>8. ASSUME NEW t \in Threads, NEW signal \in Signals, send(t, signal)
      PROVE  ContextsTypeOK'
  <2>1. signal.context \in Contexts
    BY ContextsAssumption
  <2>2. modifiers[signal.context] \in SUBSET Bits
    BY <2>1
  <2>3. [at |-> "store", context |-> signal.context, signal |-> signal,
         mods |-> modifiers[signal.context]] \in Frames
    BY <2>1, <2>2 DEF Frames
  <2>4. frame' \in [Threads -> Frames]
    BY <1>8, <2>3 DEF send
  <2>5. seen' \in [Threads -> SUBSET SUBSET Bits]
    BY <1>8, <2>2 DEF send
  <2> QED BY <1>8, <2>4, <2>5 DEF send, registryVars, memberVars
<1>9. ASSUME NEW t \in Threads, NEW c \in Contexts, Destroy(t, c)
      PROVE  ContextsTypeOK'
  <2>1. [at |-> "unregister", context |-> c] \in Frames
    BY DEF Frames
  <2> QED BY <1>9, <2>1 DEF Destroy, registryVars, memberVars, modifierVars
<1>10. ASSUME NEW t \in Threads, NEW c \in Contexts, NEW enabled \in Created,
              Construct(t, c, enabled)
       PROVE  ContextsTypeOK'
  <2>1. [at |-> "register", context |-> c, enabled |-> enabled] \in Frames
    BY ContextsAssumption DEF Frames
  <2> QED BY <1>10, <2>1 DEF Construct, registryVars, modifierVars
<1>11. ASSUME NEW t \in Threads, NEW s \in Switched, NEW val \in BOOLEAN,
              setFlag(t, s[1], s[2], val)
       PROVE  ContextsTypeOK'
  <2>1. s[1] \in Contexts /\ s[2] \in ContextFlags
    BY ContextsAssumption
  <2>2. flags' \in [Contexts -> SUBSET ContextFlags]
    BY <1>11, <2>1 DEF setFlag, Switch
  <2> QED BY <1>11, <2>2 DEF setFlag, registryVars, modifierVars
<1>12. ASSUME NEW t \in Threads, NEW s \in SetByProgram, setModifiers(t, s[1], s[2])
       PROVE  ContextsTypeOK'
  <2>1. s[1] \in Contexts /\ s[2] \in SUBSET Bits
    BY ContextsAssumption
  <2>2. modifiers' \in [Contexts -> SUBSET Bits] /\ seen' \in [Threads -> SUBSET SUBSET Bits]
    BY <1>12, <2>1, StoresType DEF setModifiers
  <2> QED BY <1>12, <2>2 DEF setModifiers, registryVars, memberVars
<1> QED
  BY <1>1, <1>2, <1>3, <1>4, <1>5, <1>6, <1>7, <1>8, <1>9, <1>10, <1>11, <1>12
  DEF ContextsNext

(* The variables are of their types. *)
THEOREM ContextsTypeCorrect == ContextsSpec => []ContextsTypeOK
<1>1. ContextsInit => ContextsTypeOK
  BY InitTyped
<1>2. ContextsTypeOK /\ [ContextsNext]_contextsVars => ContextsTypeOK'
  BY NextTyped
<1> QED BY <1>1, <1>2, PTL DEF ContextsSpec

-----------------------------------------------------------------------------
(* How the threads move. *)

Moved(t, place, c) ==
  /\ frame'[t].at = place
  /\ frame'[t].context = c
  /\ \A u \in Threads \ {t} : frame'[u] = frame[u]

LEMMA Moves ==
  ASSUME ContextsTypeOK, NEW t \in Threads
  PROVE  /\ Register(t) => Moved(t, "enable", frame[t].context)
         /\ Unregister(t) => Moved(t, "free", frame[t].context)
         /\ Enable(t) \/ Free(t) \/ SendStores(t) => Moved(t, "client", None)
         /\ \A signal \in Signals : send(t, signal) => Moved(t, "store", signal.context)
         /\ \A c \in Contexts : Destroy(t, c) => Moved(t, "unregister", c)
         /\ \A c \in Contexts, enabled \in Created :
              Construct(t, c, enabled) => Moved(t, "register", c)
<1>1. frame \in [Threads -> Frames] /\ frame[t] \in Frames
  BY DEF ContextsTypeOK
<1>2. ASSUME Register(t) PROVE Moved(t, "enable", frame[t].context)
  <2>1. frame[t] \in [at : {"register", "enable"}, context : Contexts, enabled : BOOLEAN]
    BY <1>1, <1>2 DEF Register, At, Frames, Client
  <2> QED BY <1>1, <1>2, <2>1 DEF Register, Goes, Moved
<1>3. ASSUME Unregister(t) PROVE Moved(t, "free", frame[t].context)
  <2>1. frame[t] \in [at : {"unregister", "free"}, context : Contexts]
    BY <1>1, <1>3 DEF Unregister, At, Frames, Client
  <2>2. Goes(t, "free")
    BY <1>3 DEF Unregister
  <2> QED BY <1>1, <2>1, <2>2 DEF Goes, Moved
<1>4. Enable(t) \/ Free(t) \/ SendStores(t) => Moved(t, "client", None)
  BY <1>1, ClientType DEF Enable, Free, SendStores, Returns, Moved
<1>5. \A signal \in Signals : send(t, signal) => Moved(t, "store", signal.context)
  BY <1>1 DEF send, Moved
<1>6. \A c \in Contexts : Destroy(t, c) => Moved(t, "unregister", c)
  BY <1>1 DEF Destroy, Moved
<1>7. \A c \in Contexts, enabled \in Created :
        Construct(t, c, enabled) => Moved(t, "register", c)
  BY <1>1 DEF Construct, Moved
<1> QED BY <1>2, <1>3, <1>4, <1>5, <1>6, <1>7

(* The steps that leave the registry, the members and the threads alone. *)
Elsewhere == UNCHANGED <<registryStack, registrySet, built, frame>>

LEMMA Elsewheres ==
  ASSUME NEW t \in Threads
  PROVE  /\ instance(t) => Elsewhere
         /\ \A c, flag, val : setFlag(t, c, flag, val) => Elsewhere
         /\ \A c, mods : setModifiers(t, c, mods) => Elsewhere
         /\ UNCHANGED contextsVars => Elsewhere
BY DEF instance, setFlag, setModifiers, contextsVars, registryVars, memberVars, Elsewhere

-----------------------------------------------------------------------------
(* The stack. *)

LEMMA StackAppended ==
  ASSUME ContextsTypeOK, StackInv, FrameInv, NEW t \in Threads, Register(t)
  PROVE  /\ frame[t].context \in Contexts /\ frame[t].context \notin registrySet
         /\ registryStack \in Seq(Contexts)
         /\ StackInv'
<1> DEFINE c == frame[t].context
           n == Len(registryStack)
<1>1. c \in Contexts /\ c \notin registrySet /\ registryStack \in Seq(Contexts)
  BY FrameType DEF Register, At, FrameInv, ContextsTypeOK
<1>2. /\ registryStack' = Append(registryStack, c)
      /\ registrySet' = registrySet \cup {c}
  BY DEF Register
<1>3. /\ DOMAIN registryStack = 1 .. n /\ DOMAIN registryStack' = 1 .. n + 1
      /\ \A i \in 1 .. n : registryStack'[i] = registryStack[i]
      /\ registryStack'[n + 1] = c
      /\ n \in Nat
  BY <1>1, <1>2
<1>4. \A i \in 1 .. n : registryStack[i] # c
  BY <1>1, <1>3 DEF StackInv, Elements
<1>5. \A i, j \in DOMAIN registryStack' : registryStack'[i] = registryStack'[j] => i = j
  BY <1>3, <1>4 DEF StackInv
<1>6. registrySet' = Elements(registryStack')
  BY <1>2, <1>3 DEF StackInv, Elements
<1> QED BY <1>1, <1>5, <1>6 DEF StackInv

(* What a destructor erases: the one entry that is its context. *)
LEMMA StackErased ==
  ASSUME ContextsTypeOK, StackInv, FrameInv, NEW t \in Threads, Unregister(t)
  PROVE  /\ frame[t].context \in registrySet
         /\ \E i \in DOMAIN registryStack :
              /\ registryStack[i] = frame[t].context
              /\ registryStack' = ErasedAt(registryStack, i)
         /\ StackInv'
<1> DEFINE c == frame[t].context
<1>1. c \in registrySet /\ registryStack \in Seq(Contexts)
  BY DEF Unregister, At, FrameInv, ContextsTypeOK
<1>2. PICK i \in DOMAIN registryStack :
        registryStack[i] = c /\ registryStack' = ErasedAt(registryStack, i)
  BY <1>1 DEF Unregister, StackInv, Elements
<1> DEFINE n == Len(registryStack) - 1
<1>3. /\ n \in Nat /\ i \in 1 .. n + 1
      /\ DOMAIN registryStack = 1 .. n + 1 /\ DOMAIN registryStack' = 1 .. n
      /\ \A j \in 1 .. n :
           registryStack'[j] = IF j < i THEN registryStack[j] ELSE registryStack[j + 1]
  <2>1. Len(registryStack) \in Nat /\ DOMAIN registryStack = 1 .. Len(registryStack)
    BY <1>1, LenProperties
  <2>2. i \in 1 .. Len(registryStack) /\ n \in Nat
    BY <2>1
  <2>3. DOMAIN ErasedAt(registryStack, i) = 1 .. n
    BY <1>1, ErasedAtType
  <2>4. \A j \in 1 .. n : ErasedAt(registryStack, i)[j]
          = IF j < i THEN registryStack[j] ELSE registryStack[j + 1]
    BY <1>1, ErasedAtType
  <2> QED BY <1>2, <2>1, <2>2, <2>3, <2>4
<1>4. \A j, k \in 1 .. n : registryStack'[j] = registryStack'[k] => j = k
  BY <1>3 DEF StackInv
<1>5. registrySet' = Elements(registryStack')
  <2>1. registrySet' = registrySet \ {c}
    BY DEF Unregister
  <2>2. ASSUME NEW d \in registrySet' PROVE d \in Elements(registryStack')
    <3>1. PICK k \in 1 .. n + 1 : registryStack[k] = d
      BY <1>3, <2>1 DEF StackInv, Elements
    <3>2. k # i
      BY <1>2, <2>1, <3>1
    <3>3. CASE k < i
      BY <1>3, <3>1, <3>3 DEF Elements
    <3>4. CASE k > i
      <4>1. k - 1 \in 1 .. n /\ ~(k - 1 < i) /\ (k - 1) + 1 = k
        BY <1>3, <3>4
      <4>2. registryStack'[k - 1] = d
        BY <1>3, <3>1, <4>1
      <4> QED BY <1>3, <4>1, <4>2 DEF Elements
    <3> QED BY <1>3, <3>2, <3>3, <3>4
  <2>3. ASSUME NEW d \in Elements(registryStack') PROVE d \in registrySet'
    <3>1. PICK j \in 1 .. n : registryStack'[j] = d
      BY <1>3 DEF Elements
    <3>2. PICK k \in 1 .. n + 1 : k # i /\ registryStack[k] = d
      BY <1>3, <3>1
    <3>3. d # c /\ d \in registrySet
      BY <1>2, <1>3, <3>2 DEF StackInv, Elements
    <3> QED BY <2>1, <3>3
  <2> QED BY <2>2, <2>3
<1> QED BY <1>1, <1>2, <1>3, <1>4, <1>5 DEF StackInv

-----------------------------------------------------------------------------
(* The invariant holds initially, and each step keeps each part. *)

LEMMA ContextsInitially == ContextsInit => ContextsInv
BY InitTyped, ClientType DEF ContextsInit, ContextsInv, StackInv, Elements, FrameInv, BuiltInv,
                             SendInv, Client

LEMMA ElsewhereKeeps ==
  ASSUME ContextsInv, Elsewhere
  PROVE  StackInv' /\ FrameInv' /\ BuiltInv'
BY DEF ContextsInv, Elsewhere, StackInv, Elements, FrameInv, BuiltInv, Unused

(* A thread without a context has none that another could share. *)
LEMMA Owners ==
  ASSUME ContextsTypeOK, NEW t \in Threads, frame[t].at # "client"
  PROVE  frame[t].context \in Contexts /\ frame[t].context # None
BY FrameType, ContextsAssumption DEF ContextsTypeOK

LEMMA RegisterKeeps ==
  ASSUME ContextsInv, NEW t \in Threads, Register(t)
  PROVE  StackInv' /\ FrameInv' /\ BuiltInv'
<1>1. /\ Moved(t, "enable", frame[t].context) /\ frame[t].at = "register"
      /\ registrySet' = registrySet \cup {frame[t].context} /\ built' = built
  BY Moves DEF Register, At, memberVars, ContextsInv
<1>2. FrameInv'
  BY <1>1 DEF FrameInv, Moved, ContextsInv
<1>3. BuiltInv'
  BY <1>1 DEF FrameInv, BuiltInv, Moved, Unused, ContextsInv
<1> QED BY <1>2, <1>3, StackAppended DEF ContextsInv

LEMMA UnregisterKeeps ==
  ASSUME ContextsInv, NEW t \in Threads, Unregister(t)
  PROVE  StackInv' /\ FrameInv' /\ BuiltInv'
<1>1. /\ Moved(t, "free", frame[t].context) /\ frame[t].at = "unregister"
      /\ registrySet' = registrySet \ {frame[t].context} /\ built' = built
  BY Moves DEF Unregister, At, memberVars, ContextsInv
<1>2. FrameInv'
  BY <1>1 DEF FrameInv, BuiltInv, Moved, ContextsInv
<1>3. BuiltInv'
  BY <1>1 DEF FrameInv, BuiltInv, Moved, Unused, ContextsInv
<1> QED BY <1>2, <1>3, StackErased DEF ContextsInv

(* A thread that returns leaves its context registered, or not built. *)
LEMMA ReturnKeeps ==
  ASSUME ContextsInv, NEW t \in Threads, Enable(t) \/ Free(t) \/ SendStores(t)
  PROVE  StackInv' /\ FrameInv' /\ BuiltInv'
<1>1. /\ Moved(t, "client", None) /\ UNCHANGED <<registryStack, registrySet>>
      /\ frame[t].at \in {"enable", "free", "store"}
      /\ built' = IF frame[t].at = "free" THEN built \ {frame[t].context} ELSE built
  BY Moves DEF Enable, Free, SendStores, At, registryVars, memberVars, ContextsInv
<1>2. StackInv'
  BY <1>1 DEF StackInv, Elements, ContextsInv
<1>3. \A u \in Threads : frame[u].at # "client" => frame[u].context # None
  BY Owners DEF ContextsInv
<1>4. FrameInv'
  BY <1>1, <1>3 DEF FrameInv, Moved, ContextsInv
<1>5. BuiltInv'
  BY <1>1 DEF FrameInv, BuiltInv, Moved, Unused, ContextsInv
<1> QED BY <1>2, <1>4, <1>5

LEMMA SendKeeps ==
  ASSUME ContextsInv, NEW t \in Threads, NEW signal \in Signals, send(t, signal)
  PROVE  StackInv' /\ FrameInv' /\ BuiltInv'
<1> DEFINE c == signal.context
<1>1. /\ Moved(t, "store", c) /\ UNCHANGED <<registryStack, registrySet, built>>
      /\ frame[t].at = "client" /\ Usable(c)
  BY Moves DEF send, At, registryVars, memberVars, ContextsInv
<1>2. StackInv'
  BY <1>1 DEF StackInv, Elements, ContextsInv
<1>3. FrameInv'
  BY <1>1 DEF FrameInv, Moved, Usable, ContextsInv
<1>4. frame[t].context \notin Contexts
  BY <1>1, FrameType, ContextsAssumption DEF ContextsInv, ContextsTypeOK, Client
<1>5. BuiltInv'
  BY <1>1, <1>4 DEF BuiltInv, Moved, Unused, Usable, ContextsInv, ContextsTypeOK
<1> QED BY <1>2, <1>3, <1>5

LEMMA DestroyKeeps ==
  ASSUME ContextsInv, NEW t \in Threads, NEW c \in Contexts, Destroy(t, c)
  PROVE  StackInv' /\ FrameInv' /\ BuiltInv'
<1>1. /\ Moved(t, "unregister", c) /\ UNCHANGED <<registryStack, registrySet, built>>
      /\ frame[t].at = "client" /\ c \in built /\ Unused(c)
  BY Moves DEF Destroy, At, registryVars, memberVars, ContextsInv
<1>2. StackInv'
  BY <1>1 DEF StackInv, Elements, ContextsInv
<1>3. c \in registrySet
  BY <1>1 DEF BuiltInv, ContextsInv
<1>4. FrameInv'
  BY <1>1, <1>3 DEF FrameInv, Moved, Unused, ContextsInv
<1>5. frame[t].context \notin Contexts
  BY <1>1, FrameType, ContextsAssumption DEF ContextsInv, ContextsTypeOK, Client
<1>6. BuiltInv'
  BY <1>1, <1>5 DEF BuiltInv, Moved, Unused, ContextsInv, ContextsTypeOK
<1> QED BY <1>2, <1>4, <1>6

LEMMA ConstructKeeps ==
  ASSUME ContextsInv, NEW t \in Threads, NEW c \in Contexts, NEW enabled \in Created,
         Construct(t, c, enabled)
  PROVE  StackInv' /\ FrameInv' /\ BuiltInv'
<1>1. /\ Moved(t, "register", c) /\ UNCHANGED <<registryStack, registrySet>>
      /\ built' = built \cup {c} /\ c \notin built
      /\ frame[t].at = "client" /\ Unused(c)
  BY Moves DEF Construct, At, registryVars, ContextsInv
<1>2. StackInv'
  BY <1>1 DEF StackInv, Elements, ContextsInv
<1>3. c \notin registrySet
  BY <1>1 DEF BuiltInv, ContextsInv
<1>4. FrameInv'
  BY <1>1, <1>3 DEF FrameInv, Moved, Unused, ContextsInv
<1>5. frame[t].context \notin Contexts
  BY <1>1, FrameType, ContextsAssumption DEF ContextsInv, ContextsTypeOK, Client
<1>6. BuiltInv'
  BY <1>1, <1>5 DEF BuiltInv, Moved, Unused, ContextsInv, ContextsTypeOK
<1> QED BY <1>2, <1>4, <1>6

(* A send keeps what it has read among what it overlaps with. *)
LEMMA SeenKept ==
  ASSUME ContextsInv, [ContextsNext]_contextsVars
  PROVE  SendInv'
<1>1. SUFFICES ASSUME NEW u \in Threads, frame'[u].at = "store"
               PROVE  frame'[u].mods \in seen'[u]
  BY DEF SendInv
<1>2. CASE UNCHANGED contextsVars
  BY <1>1, <1>2 DEF contextsVars, modifierVars, ContextsInv, SendInv
<1>3. ASSUME NEW t \in Threads, Register(t) \/ Enable(t) \/ Unregister(t) \/ Free(t)
      PROVE  frame'[u].mods \in seen'[u]
  <2>1. seen' = seen /\ \E place, c : place # "store" /\ Moved(t, place, c)
    BY <1>3, Moves DEF Register, Enable, Unregister, Free, modifierVars, ContextsInv
  <2> QED BY <1>1, <2>1 DEF Moved, SendInv, ContextsInv
<1>4. ASSUME NEW t \in Threads, SendStores(t)
      PROVE  frame'[u].mods \in seen'[u]
  <2>1. Moved(t, "client", None) /\ u # t /\ frame'[u] = frame[u]
    BY <1>1, <1>4, Moves DEF Moved, ContextsInv
  <2>2. seen[u] \subseteq seen'[u]
    BY <1>4, <2>1 DEF SendStores, Stores
  <2> QED BY <1>1, <2>1, <2>2 DEF SendInv, ContextsInv
<1>5. ASSUME NEW t \in Threads, NEW s \in SetByProgram, setModifiers(t, s[1], s[2])
      PROVE  frame'[u].mods \in seen'[u]
  <2>1. frame' = frame /\ u # t
    BY <1>1, <1>5 DEF setModifiers, At
  <2>2. seen[u] \subseteq seen'[u]
    BY <1>5, <2>1 DEF setModifiers, Stores
  <2> QED BY <1>1, <2>1, <2>2 DEF SendInv, ContextsInv
<1>6. ASSUME NEW t \in Threads, NEW signal \in Signals, send(t, signal)
      PROVE  frame'[u].mods \in seen'[u]
  <2>1. CASE u = t
    BY <1>6, <2>1 DEF send, ContextsInv, ContextsTypeOK
  <2>2. CASE u # t
    BY <1>1, <1>6, <2>2 DEF send, SendInv, ContextsInv, ContextsTypeOK
  <2> QED BY <2>1, <2>2
<1>7. ASSUME NEW t \in Threads,
             \/ instance(t)
             \/ \E s \in Switched, val \in BOOLEAN : setFlag(t, s[1], s[2], val)
      PROVE  frame'[u].mods \in seen'[u]
  BY <1>1, <1>7 DEF instance, setFlag, modifierVars, SendInv, ContextsInv
<1>8. ASSUME NEW t \in Threads, NEW c \in Contexts, Destroy(t, c)
      PROVE  frame'[u].mods \in seen'[u]
  <2>1. seen' = seen /\ Moved(t, "unregister", c)
    BY <1>8, Moves DEF Destroy, modifierVars, ContextsInv
  <2> QED BY <1>1, <2>1 DEF Moved, SendInv, ContextsInv
<1>9. ASSUME NEW t \in Threads, NEW c \in Contexts, NEW enabled \in Created,
             Construct(t, c, enabled)
      PROVE  frame'[u].mods \in seen'[u]
  <2>1. seen' = seen /\ Moved(t, "register", c)
    BY <1>9, Moves DEF Construct, modifierVars, ContextsInv
  <2> QED BY <1>1, <2>1 DEF Moved, SendInv, ContextsInv
<1> QED
  BY <1>2, <1>3, <1>4, <1>5, <1>6, <1>7, <1>8, <1>9 DEF ContextsNext

LEMMA ContextsKept ==
  ASSUME ContextsInv, [ContextsNext]_contextsVars
  PROVE  ContextsInv'
<1>1. ContextsTypeOK' /\ SendInv'
  BY NextTyped, SeenKept DEF ContextsInv
<1>2. StackInv' /\ FrameInv' /\ BuiltInv'
  <2>1. CASE UNCHANGED contextsVars
    BY <2>1, ElsewhereKeeps DEF Elsewhere, contextsVars, registryVars, memberVars
  <2>2. ASSUME NEW t \in Threads, Register(t) PROVE StackInv' /\ FrameInv' /\ BuiltInv'
    BY <2>2, RegisterKeeps
  <2>3. ASSUME NEW t \in Threads, Unregister(t) PROVE StackInv' /\ FrameInv' /\ BuiltInv'
    BY <2>3, UnregisterKeeps
  <2>4. ASSUME NEW t \in Threads, Enable(t) \/ Free(t) \/ SendStores(t)
        PROVE  StackInv' /\ FrameInv' /\ BuiltInv'
    BY <2>4, ReturnKeeps
  <2>5. ASSUME NEW t \in Threads,
               \/ instance(t)
               \/ \E s \in Switched, val \in BOOLEAN : setFlag(t, s[1], s[2], val)
               \/ \E s \in SetByProgram : setModifiers(t, s[1], s[2])
        PROVE  StackInv' /\ FrameInv' /\ BuiltInv'
    BY <2>5, Elsewheres, ElsewhereKeeps
  <2>6. ASSUME NEW t \in Threads, NEW signal \in Signals, send(t, signal)
        PROVE  StackInv' /\ FrameInv' /\ BuiltInv'
    BY <2>6, SendKeeps
  <2>7. ASSUME NEW t \in Threads, NEW c \in Contexts,
               Destroy(t, c) \/ \E enabled \in Created : Construct(t, c, enabled)
        PROVE  StackInv' /\ FrameInv' /\ BuiltInv'
    BY <2>7, DestroyKeeps, ConstructKeeps
  <2> QED BY <2>1, <2>2, <2>3, <2>4, <2>5, <2>6, <2>7 DEF ContextsNext
<1> QED BY <1>1, <1>2 DEF ContextsInv

LEMMA ContextsAlways == ContextsSpec => []ContextsInv
<1>1. ContextsInit => ContextsInv
  BY ContextsInitially
<1>2. ContextsInv /\ [ContextsNext]_contextsVars => ContextsInv'
  BY ContextsKept
<1> QED BY <1>1, <1>2, PTL DEF ContextsSpec

-----------------------------------------------------------------------------
(* Every context in the registry is built. *)
THEOREM RegisteredAreBuilt == ContextsSpec => []RegisteredBuilt
<1>1. ContextsInv => RegisteredBuilt
  BY DEF ContextsInv, StackInv, BuiltInv, Elements, RegisteredBuilt, hasInstance
<1> QED BY <1>1, ContextsAlways, PTL

(* A send stores what it makes of the modifiers at one moment of the send:  *)
(* the moment it read them.                                                 *)
SentFromSeen == \A t \in Threads : At(t, "store") /\ frame'[t] = Client =>
  \E mods \in seen[t] : modifiers'[frame[t].context] = Applied(frame[t].signal, mods)

LEMMA SendsStep ==
  ASSUME ContextsInv, [ContextsNext]_contextsVars
  PROVE  SentFromSeen
<1>1. SUFFICES ASSUME NEW u \in Threads, frame[u].at = "store", frame'[u] = Client
               PROVE  \E mods \in seen[u] :
                        modifiers'[frame[u].context] = Applied(frame[u].signal, mods)
  BY DEF SentFromSeen, At
<1>2. frame'[u] # frame[u]
  BY <1>1, ClientType
<1>3. PICK t \in Threads :
        \/ Register(t) \/ Enable(t) \/ Unregister(t) \/ Free(t) \/ SendStores(t)
        \/ \E signal \in Signals : send(t, signal)
        \/ \E c \in Contexts : Destroy(t, c) \/ \E enabled \in Created : Construct(t, c, enabled)
  BY <1>2 DEF ContextsNext, contextsVars, instance, setFlag, setModifiers
<1>4. t = u
  BY <1>2, <1>3, Moves DEF Moved, ContextsInv
<1>5. SendStores(u)
  BY <1>1, <1>3, <1>4 DEF Register, Enable, Unregister, Free, send, Destroy, Construct, At
<1>6. frame[u].context \in Contexts /\ frame[u].mods \in seen[u]
  BY <1>1, Owners DEF ContextsInv, SendInv
<1>7. modifiers'[frame[u].context] = Applied(frame[u].signal, frame[u].mods)
  BY <1>5, <1>6 DEF SendStores, Stores, ContextsInv, ContextsTypeOK
<1> QED BY <1>6, <1>7

THEOREM SendsFromOneMoment == ContextsSpec => SendsOneMoment
<1>1. ContextsInv /\ [ContextsNext]_contextsVars => [SentFromSeen]_contextsVars
  BY SendsStep
<1>2. SendsOneMoment <=> [][SentFromSeen]_contextsVars
  BY DEF SendsOneMoment, SentFromSeen
<1> QED BY <1>1, <1>2, ContextsAlways, PTL DEF ContextsSpec

-----------------------------------------------------------------------------
(* The refinement: what the age of the contexts is in the stack. *)

PairsOf(s) ==
  {<<s[p[1]], s[p[2]]>> : p \in {q \in (DOMAIN s) \X (DOMAIN s) : q[1] < q[2]}}

Before(s, a, b) == \E i, j \in DOMAIN s : i < j /\ s[i] = a /\ s[j] = b

LEMMA PairsIn ==
  ASSUME NEW s
  PROVE  /\ \A p \in PairsOf(s) : p = <<p[1], p[2]>>
         /\ \A a, b : <<a, b>> \in PairsOf(s) <=> Before(s, a, b)
<1>1. \A p \in PairsOf(s) : p = <<p[1], p[2]>>
  BY DEF PairsOf
<1>2. ASSUME NEW a, NEW b, <<a, b>> \in PairsOf(s)
      PROVE  Before(s, a, b)
  BY <1>2 DEF PairsOf, Before
<1>3. ASSUME NEW i \in DOMAIN s, NEW j \in DOMAIN s, i < j
      PROVE  <<s[i], s[j]>> \in PairsOf(s)
  <2>1. <<i, j>> \in {q \in (DOMAIN s) \X (DOMAIN s) : q[1] < q[2]}
    BY <1>3
  <2>2. <<i, j>>[1] = i /\ <<i, j>>[2] = j
    OBVIOUS
  <2> QED BY <2>1, <2>2 DEF PairsOf
<1> QED BY <1>1, <1>2, <1>3 DEF Before

LEMMA OlderIs ==
  /\ \A p \in Older : p = <<p[1], p[2]>>
  /\ \A p \in Older' : p = <<p[1], p[2]>>
  /\ \A a, b : <<a, b>> \in Older <=> Before(registryStack, a, b)
  /\ \A a, b : <<a, b>> \in Older' <=> Before(registryStack', a, b)
<1>1. Older = PairsOf(registryStack) /\ Older' = PairsOf(registryStack')
  BY DEF Older, PairsOf
<1> QED BY <1>1, PairsIn

(* A set of pairs is the other if it has the same pairs. *)
LEMMA SamePairs ==
  ASSUME NEW P, NEW Q,
         \A p \in P : p = <<p[1], p[2]>>, \A q \in Q : q = <<q[1], q[2]>>,
         \A a, b : <<a, b>> \in P <=> <<a, b>> \in Q
  PROVE  P = Q
<1>1. ASSUME NEW p \in P PROVE p \in Q
  BY <1>1
<1>2. ASSUME NEW q \in Q PROVE q \in P
  BY <1>2
<1> QED BY <1>1, <1>2

(* A constructor begins the youngest context. *)
LEMMA BeginsYoungest ==
  ASSUME ContextsInv, NEW t \in Threads, Register(t)
  PROVE  Abstract!Begin(frame[t].context)
<1> DEFINE c == frame[t].context
           n == Len(registryStack)
           older == Older \cup (registrySet \X {c})
<1>1. /\ c \in Contexts /\ c \notin registrySet /\ registryStack \in Seq(Contexts)
      /\ registrySet = Elements(registryStack)
  BY StackAppended DEF ContextsInv, StackInv
<1>2. /\ registryStack' = Append(registryStack, c)
      /\ registrySet' = registrySet \cup {c}
      /\ latest' = latest
  BY DEF Register
<1>3. /\ n \in Nat /\ DOMAIN registryStack = 1 .. n /\ DOMAIN registryStack' = 1 .. n + 1
      /\ \A i \in 1 .. n : registryStack'[i] = registryStack[i]
      /\ registryStack'[n + 1] = c
  BY <1>1, <1>2
<1>4. \A i \in 1 .. n : i \in 1 .. n + 1 /\ i < n + 1 /\ n + 1 \in 1 .. n + 1
  BY <1>3
<1>5. ASSUME NEW a, NEW b, <<a, b>> \in Older' PROVE <<a, b>> \in older
  <2>1. PICK i, j \in 1 .. n + 1 : i < j /\ registryStack'[i] = a /\ registryStack'[j] = b
    <3>1. Before(registryStack', a, b)
      BY <1>5, OlderIs
    <3> QED BY <1>3, <3>1 DEF Before
  <2>2. i \in 1 .. n /\ registryStack[i] = a
    BY <1>3, <2>1
  <2>3. CASE j = n + 1
    <3>1. b = c /\ a \in registrySet
      BY <1>1, <1>3, <2>1, <2>2, <2>3 DEF Elements
    <3> QED BY <3>1
  <2>4. CASE j # n + 1
    <3>1. j \in 1 .. n /\ registryStack[j] = b
      BY <1>3, <2>1, <2>4
    <3>2. Before(registryStack, a, b)
      BY <1>3, <2>1, <2>2, <3>1 DEF Before
    <3> QED BY <3>2, OlderIs
  <2> QED BY <2>3, <2>4
<1>6. ASSUME NEW a, NEW b, <<a, b>> \in older PROVE <<a, b>> \in Older'
  <2>1. CASE <<a, b>> \in Older
    <3>1. PICK i, j \in 1 .. n : i < j /\ registryStack[i] = a /\ registryStack[j] = b
      <4>1. Before(registryStack, a, b)
        BY <2>1, OlderIs
      <4> QED BY <1>3, <4>1 DEF Before
    <3>2. Before(registryStack', a, b)
      BY <1>3, <1>4, <3>1 DEF Before
    <3> QED BY <3>2, OlderIs
  <2>2. CASE <<a, b>> \in registrySet \X {c}
    <3>1. b = c /\ \E i \in 1 .. n : registryStack[i] = a
      BY <1>1, <1>3, <2>2 DEF Elements
    <3>2. PICK i \in 1 .. n : registryStack[i] = a
      BY <3>1
    <3>3. Before(registryStack', a, b)
      BY <1>3, <1>4, <3>1, <3>2 DEF Before
    <3> QED BY <3>3, OlderIs
  <2> QED BY <1>6, <2>1, <2>2
<1>7. \A p \in Older' : p = <<p[1], p[2]>>
  BY OlderIs
<1>8. \A p \in older : p = <<p[1], p[2]>>
  BY OlderIs
<1>9. Older' = older
  <2> HIDE DEF older
  <2> QED BY <1>5, <1>6, <1>7, <1>8, SamePairs
<1> QED BY <1>1, <1>2, <1>9 DEF Abstract!Begin

(* A destructor ends its context, wherever that is in the stack. *)
LEMMA EndsItsOwn ==
  ASSUME ContextsInv, NEW t \in Threads, Unregister(t)
  PROVE  Abstract!End(frame[t].context)
<1> DEFINE c == frame[t].context
           n == Len(registryStack) - 1
           older == {p \in Older : c \notin {p[1], p[2]}}
<1>1. c \in registrySet /\ registryStack \in Seq(Contexts)
  BY StackErased DEF ContextsInv, ContextsTypeOK
<1>2. PICK i \in DOMAIN registryStack :
        registryStack[i] = c /\ registryStack' = ErasedAt(registryStack, i)
  BY StackErased DEF ContextsInv
<1>3. /\ n \in Nat /\ DOMAIN registryStack = 1 .. n + 1 /\ i \in 1 .. n + 1
      /\ DOMAIN registryStack' = 1 .. n
      /\ \A j \in 1 .. n :
           registryStack'[j] = IF j < i THEN registryStack[j] ELSE registryStack[j + 1]
  <2>1. Len(registryStack) \in Nat /\ DOMAIN registryStack = 1 .. Len(registryStack)
    BY <1>1, LenProperties
  <2>2. i \in 1 .. Len(registryStack) /\ n \in Nat
    BY <2>1
  <2>3. DOMAIN ErasedAt(registryStack, i) = 1 .. n
    BY <1>1, ErasedAtType
  <2>4. \A j \in 1 .. n : ErasedAt(registryStack, i)[j]
          = IF j < i THEN registryStack[j] ELSE registryStack[j + 1]
    BY <1>1, ErasedAtType
  <2> QED BY <1>2, <2>1, <2>2, <2>3, <2>4
<1>4. \A j \in 1 .. n + 1 : j \in DOMAIN registryStack
  BY <1>3
<1>5. \A j \in 1 .. n : j \in DOMAIN registryStack'
  BY <1>3
<1>6. \A j \in 1 .. n + 1 : registryStack[j] = c => j = i
  BY <1>2, <1>3 DEF ContextsInv, StackInv
<1>7. ASSUME NEW a, NEW b, <<a, b>> \in Older' PROVE <<a, b>> \in older
  <2>1. PICK j, k \in 1 .. n : j < k /\ registryStack'[j] = a /\ registryStack'[k] = b
    <3>1. Before(registryStack', a, b)
      BY <1>7, OlderIs
    <3> QED BY <1>3, <3>1 DEF Before
  <2> DEFINE up(x) == IF x < i THEN x ELSE x + 1
  <2>2. /\ up(j) \in 1 .. n + 1 /\ up(k) \in 1 .. n + 1 /\ up(j) < up(k)
        /\ up(j) # i /\ up(k) # i
    BY <1>3, <2>1
  <2>3. registryStack[up(j)] = a /\ registryStack[up(k)] = b
    BY <1>3, <2>1
  <2>4. <<a, b>> \in Older /\ a # c /\ b # c
    <3> HIDE DEF up
    <3>1. Before(registryStack, a, b)
      BY <1>4, <2>2, <2>3 DEF Before
    <3> QED BY <1>6, <2>2, <2>3, <3>1, OlderIs
  <2> QED BY <2>4
<1>8. ASSUME NEW a, NEW b, <<a, b>> \in older PROVE <<a, b>> \in Older'
  <2>1. <<a, b>> \in Older /\ a # c /\ b # c
    BY <1>8
  <2>2. PICK j, k \in 1 .. n + 1 : j < k /\ registryStack[j] = a /\ registryStack[k] = b
    <3>1. Before(registryStack, a, b)
      BY <2>1, OlderIs
    <3> QED BY <1>3, <3>1 DEF Before
  <2>3. j # i /\ k # i
    BY <1>2, <2>1, <2>2
  <2> DEFINE down(x) == IF x < i THEN x ELSE x - 1
  <2>4. down(j) \in 1 .. n /\ down(k) \in 1 .. n /\ down(j) < down(k)
    BY <1>3, <2>2, <2>3
  <2>5. registryStack'[down(j)] = a /\ registryStack'[down(k)] = b
    BY <1>3, <2>2, <2>3
  <2> HIDE DEF down
  <2>6. Before(registryStack', a, b)
    BY <1>5, <2>4, <2>5 DEF Before
  <2> QED BY <2>6, OlderIs
<1>9. \A p \in Older' : p = <<p[1], p[2]>>
  BY OlderIs
<1>10. \A p \in older : p = <<p[1], p[2]>>
  BY OlderIs
<1>11. Older' = older
  <2> HIDE DEF older
  <2> QED BY <1>7, <1>8, <1>9, <1>10, SamePairs
<1> QED BY <1>1, <1>11 DEF Abstract!End, Unregister

(* instance() returns the youngest. *)
LEMMA AsksYoungest ==
  ASSUME ContextsInv, NEW t \in Threads, instance(t)
  PROVE  Abstract!Ask
<1> DEFINE n == Len(registryStack)
           c == registryStack[n]
<1>1. /\ registryStack \in Seq(Contexts) /\ n \in Nat /\ DOMAIN registryStack = 1 .. n
      /\ registrySet = Elements(registryStack)
  BY LenProperties DEF ContextsInv, ContextsTypeOK, StackInv
<1>2. UNCHANGED <<registrySet, Older>>
  BY DEF instance, registryVars, Older
<1>3. CASE registryStack = <<>>
  <2>1. registrySet = {} /\ latest' = None
    BY <1>1, <1>3 DEF Elements, instance
  <2> QED BY <1>2, <2>1 DEF Abstract!Ask
<1>4. CASE registryStack # <<>>
  <2>1. n \in 1 .. n /\ c \in registrySet
    BY <1>1, <1>4 DEF Elements
  <2>2. ASSUME NEW d \in registrySet \ {c} PROVE <<d, c>> \in Older
    <3>1. PICK i \in 1 .. n : registryStack[i] = d
      BY <1>1, <2>2 DEF Elements
    <3>2. i < n
      BY <1>1, <2>2, <3>1
    <3>3. Before(registryStack, d, c)
      BY <1>1, <2>1, <3>1, <3>2 DEF Before
    <3> QED BY <3>3, OlderIs
  <2>3. latest' = c
    BY <1>4 DEF instance
  <2> QED BY <1>2, <2>1, <2>2, <2>3 DEF Abstract!Ask, Abstract!Youngest
<1> QED BY <1>3, <1>4

LEMMA StepImplements ==
  ASSUME ContextsInv, [ContextsNext]_contextsVars
  PROVE  [Abstract!Next]_(Abstract!vars)
<1>1. UNCHANGED <<registryStack, registrySet, latest>> => UNCHANGED Abstract!vars
  BY DEF Abstract!vars, Older
<1>2. CASE UNCHANGED contextsVars
  BY <1>1, <1>2 DEF contextsVars, registryVars
<1>3. ASSUME NEW t \in Threads, Register(t) PROVE Abstract!Next
  BY <1>3, BeginsYoungest, StackAppended DEF Abstract!Next, ContextsInv
<1>4. ASSUME NEW t \in Threads, Unregister(t) PROVE Abstract!Next
  <2>1. frame[t].context \in Contexts
    BY <1>4, Owners DEF Unregister, At, ContextsInv
  <2> QED BY <1>4, <2>1, EndsItsOwn DEF Abstract!Next
<1>5. ASSUME NEW t \in Threads, instance(t) PROVE Abstract!Next
  BY <1>5, AsksYoungest DEF Abstract!Next
<1>6. ASSUME NEW t \in Threads,
             \/ Enable(t) \/ Free(t) \/ SendStores(t)
             \/ \E signal \in Signals : send(t, signal)
             \/ \E c \in Contexts :
                  Destroy(t, c) \/ \E enabled \in Created : Construct(t, c, enabled)
             \/ \E s \in Switched, val \in BOOLEAN : setFlag(t, s[1], s[2], val)
             \/ \E s \in SetByProgram : setModifiers(t, s[1], s[2])
      PROVE  UNCHANGED Abstract!vars
  BY <1>1, <1>6 DEF Enable, Free, SendStores, send, Destroy, Construct, setFlag, setModifiers,
                    registryVars
<1> QED BY <1>2, <1>3, <1>4, <1>5, <1>6 DEF ContextsNext

(* The stack and the set implement the promise: the last created of the     *)
(* contexts there are, or none.                                             *)
THEOREM ImplementsLatest == ContextsSpec => LastCreated
<1>1. ContextsInit => Abstract!Init
  <2>1. ASSUME registryStack = <<>> PROVE Older = {}
    BY <2>1 DEF Older
  <2> QED BY <2>1 DEF ContextsInit, Abstract!Init
<1>2. ContextsInv /\ [ContextsNext]_contextsVars => [Abstract!Next]_(Abstract!vars)
  BY StepImplements
<1> QED BY <1>1, <1>2, ContextsAlways, PTL DEF ContextsSpec, LastCreated, Abstract!Spec
=============================================================================
