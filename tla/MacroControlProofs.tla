-------------------------- MODULE MacroControlProofs --------------------------
(***************************************************************************)
(* What controls a macro: its interruptor, its registration, its mutex and *)
(* the handles of its threads.                                             *)
(*                                                                         *)
(* The first part is a catalogue: for each of these, who may write it,     *)
(* from where and what, and where a step leads.  It is proved once, from   *)
(* the actions.  The theorems then look at the places that matter to them  *)
(* and at no action.                                                       *)
(***************************************************************************)
EXTENDS MacroThreadsProofs

-----------------------------------------------------------------------------
(* Places. *)

(* start() holds _mutex between two steps. *)
InSection == {"resume", "reserve", "test", "increment", "check", "emplace"}

(* An unlocked dequeue() comes next. *)
Dequeues  == {"drain", "disable", "clear", "drainAgain"}

(* a holds _mutex of m, in start() or between the test and the wait of      *)
(* pauseLoop().                                                             *)
Holds(a, m) ==
  \/ call[a].at \in InSection /\ call[a].m = m
  \/ run[a].at = "block" /\ run[a].m = m

-----------------------------------------------------------------------------
(* Who writes what. *)

WritesInterruptor(a, m) ==
  /\ call[a].m = m
  /\ \/ /\ call[a].at = "resume"
        /\ macro'[m].mutex = NoOne /\ macro'[m].waiting = {}
        /\ macro'[m].interruptor = CONTINUE
     \/ /\ call[a].at = "write"
        /\ macro[m].mutex = NoOne /\ macro'[m].waiting = {}
        /\ \/ macro'[m].interruptor = call[a].val
           \/ macro'[m].interruptor = CONTINUE /\ call[a].val = INTERRUPT_ALL
     \/ /\ call[a].at \in Dequeues
        /\ macro'[m].interruptor = ClearType(a)
     \/ /\ call[a].at = "assign"
        /\ macro'[m].interruptor = Setups[call[a].val].interruptor

WritesRegistered(a, m) == call[a].m = m /\ call[a].at \in {"apply", "unregister"}

WritesHandles(a, m) ==
  /\ call[a].m = m
  /\ \/ /\ call[a].at = "emplace"
        /\ \E t \in FreeThreads :
             macro'[m].handles = macro[m].handles \cup {t} /\ run'[t] = Entered(m)
     \/ /\ call[a].at = "join" /\ macro'[m].handles = {}
        /\ \A t \in macro[m].handles \ {a} : Ended(t)

WritesMutex(a, m) ==
  \/ macro[m].mutex = NoOne /\ macro'[m].mutex = a
  \/ Holds(a, m) /\ macro'[m].mutex = NoOne

WritesLife(a, m) ==
  /\ call[a].m = m /\ call[a].at = "erase"
  /\ \/ Erasable(a) /\ call[a].op = "destroy" /\ macro'[m].life = "freed"
     \/ ~Erasable(a) /\ macro'[m].life = "terminated"

Waits(a, m) ==
  /\ macro'[m].waiting = macro[m].waiting \cup {a}
  /\ \/ call[a].at = "wait" /\ call[a].m = m /\ call'[a] = call[a]
     \/ /\ call[a].at = "none" /\ run[a].at = "block" /\ run[a].m = m
        /\ UNCHANGED macro[m].interruptor

MemberEffect(a, m) ==
  /\ macro'[m].interruptor = macro[m].interruptor \/ WritesInterruptor(a, m)
  /\ macro'[m].registered = macro[m].registered \/ WritesRegistered(a, m)
  /\ macro'[m].handles = macro[m].handles \/ WritesHandles(a, m)
  /\ macro'[m].mutex = macro[m].mutex \/ WritesMutex(a, m)
  /\ macro'[m].life = macro[m].life \/ WritesLife(a, m)
  /\ macro'[m].waiting \subseteq macro[m].waiting \/ Waits(a, m)

MacroEffect(a) == \A m \in Macros : MemberEffect(a, m)

(* The frames of the others: a thread may begin or be joined, a reset       *)
(* thread may begin.                                                        *)
CallsOfOthers(a) == \A b \in Actors \ {a} : call'[b] = call[b]
RunsOfOthers(a)  == \A b \in Actors \ {a} : run'[b] = run[b]

BeginsReset(a, x) ==
  /\ call[a].at = "detach" /\ call'[a] = NoCall
  /\ x \in Resets \ {a} /\ call[x].at = "none"
  /\ call'[x] = CallOf("reset", call[a].m, "reset", 0)
  /\ \A b \in Actors \ {a, x} : call'[b] = call[b]

ThreadEffect(a, b) ==
  \/ run'[b] = run[b]
  \/ /\ call[a].at = "emplace" /\ b \in FreeThreads /\ run'[b] = Entered(call[a].m)
     /\ macro'[call[a].m].handles = macro[call[a].m].handles \cup {b}
  \/ /\ call[a].at = "join" /\ run[b].at = "gone" /\ run'[b] = NoFrame
     /\ b \in macro[call[a].m].handles /\ macro'[call[a].m].handles = {}

OthersEffect(a) ==
  /\ CallsOfOthers(a) \/ \E x \in Actors : BeginsReset(a, x)
  /\ \A b \in Actors \ {a} : ThreadEffect(a, b)

(* The call frame of a: where a call goes from where. *)
Goes(old, new, r, n, a) ==
  \/ old.at = "start" /\ new.at = "reserve" /\ CanStart(r) /\ r.mutex = NoOne /\ n.mutex = a
  \/ /\ old.at = "start" /\ new.at = "resume" /\ r.interruptor = INTERRUPT
     /\ r.mutex = NoOne /\ n.mutex = a
  \/ old.at = "reserve" /\ new.at = "test" /\ n.mutex = r.mutex
  \/ old.at = "test" /\ new.at \in {"increment", "check"} /\ n.mutex = r.mutex
  \/ old.at = "increment" /\ new.at = "check" /\ n.mutex = r.mutex
  \/ old.at = "check" /\ new.at = "emplace" /\ n.mutex = r.mutex
  \/ old.at \in {"reserve", "check", "emplace", "assign", "setThreadMax"} /\ new.at = "limit"
  \/ old.at = "limit" /\ new.at = "apply" /\ old.op = "copy"
  \/ old.at = "interrupt" /\ new.at = "compare" /\ new.prev = r.interruptor
  \/ old.at = "compare" /\ new.at = "write" /\ r.interruptor # old.val
  \/ /\ old.at = "write" /\ new.at = "apply" /\ ChangesDispatch(old.prev, old.val)
     /\ new.spawn =>
          old.val = INTERRUPT_ALL /\ r.mutex = NoOne /\ n.interruptor = INTERRUPT_ALL
  \/ /\ old.at = "write" /\ new.at = "detach" /\ ~ChangesDispatch(old.prev, old.val)
     /\ old.val = INTERRUPT_ALL /\ r.mutex = NoOne /\ n.interruptor = INTERRUPT_ALL
  \/ old.at = "apply" /\ new.at = "detach" /\ old.spawn /\ n.registered = Enabled(r)
  \/ old.at = "reset" /\ new.at = "drain" /\ new.prev = r.interruptor
  \/ old.at = "drain" /\ new.at = "resetting"
  \/ old.at = "resetting" /\ new.at \in {"clear", "restore"}
  \/ old.at = "disable" /\ new.at = "unregister"
  \/ old.at = "unregister" /\ new.at = "clear"
  \/ old.at = "clear" /\ new.at = "wait" /\ old.op = "reset"
  \/ old.at = "clear" /\ new.at = "sticky" /\ old.op # "reset"
  \/ old.at = "sticky" /\ new.at \in {"drainAgain", "unset"}
  \/ old.at = "drainAgain" /\ new.at = "wait"
  \/ old.at = "unset" /\ new.at \in {"forget", "join"}
  \/ old.at = "forget" /\ new.at = "join"
  \/ old.at = "wait" /\ new.at = "join" /\ old.op = "reset" /\ a \notin r.waiting
  \/ old.at = "wait" /\ new.at = "waited" /\ old.op # "reset" /\ a \notin r.waiting
  \/ old.at = "waited" /\ new.at \in {"drainAgain", "join"}
  \/ old.at = "join" /\ new.at = "erase" /\ n.handles = {}
  \/ old.at = "erase" /\ new.at = "restore" /\ old.op = "reset"
  \/ old.at = "erase" /\ new.at = "assign" /\ old.op = "copy"

MovesTo(a) ==
  LET old == call[a]
      new == call'[a]
  IN /\ new.m = old.m /\ new.op = old.op /\ new.val = old.val
     /\ new.spawn => old.spawn \/ (old.at = "write" /\ new.at = "apply")
     /\ new.prev = old.prev \/ new.at \in {"compare", "drain"}
     /\ Goes(old, new, macro[old.m], macro'[old.m], a)

Returns(a) ==
  LET old == call[a]
      r   == macro[old.m]
      n   == macro'[old.m]
  IN /\ call'[a] = NoCall
     /\ \/ old.at \in {"start", "resume", "emplace", "interrupt", "compare", "detach",
                       "setSignals", "setThreadMax", "setSticky"}
        \/ old.at = "limit" /\ old.op # "copy"
        \/ old.at = "write" /\ ~ChangesDispatch(old.prev, old.val)
        \/ old.at = "apply" /\ ~old.spawn /\ n.registered = Enabled(r)
        \/ old.at = "erase" /\ old.op \notin {"reset", "copy"} /\ Erasable(a)
           /\ (old.op = "destroy" => n.life = "freed")
        \/ old.at = "restore" /\ old.prev = DISABLE

(* A reset thread that has cleared the macro goes on to setInterruptor(). *)
Restores(a) ==
  /\ call[a].at = "restore"
  /\ call'[a] = CallOf("interrupt", call[a].m, "setInterruptor", CONTINUE)

(* A run calls its macro, for the INTERRUPT it has seen or by a signal. *)
Begins(a) ==
  /\ call[a].at = "none"
  /\ \/ /\ run[a].at \in {"consume", "loop"} /\ run'[a].at = "leave"
        /\ macro[run[a].m].interruptor = INTERRUPT
        /\ call'[a] = CallOf("interrupt", run[a].m, "setInterruptor", CONTINUE)
     \/ /\ run[a].at = "send" /\ run'[a].at = "send" /\ Sends(macro[run[a].m])
        /\ \E n \in DOMAIN SignalLists : \E i \in 1 .. Len(SignalLists[n]) :
             /\ SignalLists[n][i].name # "send"
             /\ call'[a] = CallOf(EntryOf(SignalLists[n][i].name), run[a].m,
                                  SignalLists[n][i].name, SignalLists[n][i].val)

Remains(a) ==
  /\ call'[a] = call[a]
  /\ \/ call[a].at \in {"none", "wait"}
     \/ call[a].at = "erase" /\ ~Erasable(a)

CallEffect(a) ==
  \/ Remains(a)
  \/ call[a].at # "none" /\ (Returns(a) \/ MovesTo(a))
  \/ Restores(a)
  \/ Begins(a)

(* The run frame of a. *)
RunEffect(a) ==
  \/ run'[a] = run[a] /\ call[a].at # "none"
  \/ /\ run[a].at \notin {"none", "gone"} /\ run'[a].at \notin {"none", "enter", "gone"}
     /\ run'[a].m = run[a].m
     /\ call[a].at # "none" =>
          run[a].at = "send" /\ run'[a].at = "leave" /\ call'[a] = NoCall
     /\ call'[a].at # "none" => run'[a].at \in {"send", "leave"}
     /\ run'[a].at = "block" =>
          /\ run[a].at = "pausing" /\ Paused(macro[run[a].m])
          /\ macro[run[a].m].mutex = NoOne /\ macro'[run[a].m].mutex = a
     /\ run[a].at = "block" => run'[a].at = "pausing"
     /\ run[a].at = "pausing" => a \notin macro[run[a].m].waiting
     /\ run'[a].at = "pausing" => run[a].at \in {"pause", "block"}
  \/ /\ run[a].at = "notify" /\ call[a].at = "none" /\ call'[a] = call[a]
     /\ run'[a] = Ending(a)

Effects(a) ==
  /\ ~Terminated
  /\ MacroEffect(a) /\ OthersEffect(a) /\ CallEffect(a) /\ RunEffect(a)

(* What a client does that calls a macro. *)
InvokeEffect(c, m, o) ==
  /\ call[c].at = "none" /\ run[c].at = "none" /\ ~Terminated
  /\ o \in Ops[c] /\ macro[m].life = "alive"
  /\ CallsOfOthers(c) /\ RunsOfOthers(c)
  /\ \/ /\ o.name = "run" /\ UNCHANGED macro
        /\ call'[c] = call[c] /\ run'[c] = Entered(m)
     \/ /\ o.name = "destroy" /\ run'[c] = run[c]
        /\ call'[c] = CallOf("disable", m, "destroy", o.val)
        /\ \A d \in Clients : ~InCall(d, m) /\ ~InRun(d, m)
        /\ macro' = [macro EXCEPT ![m] = [macro[m] EXCEPT !.life = "dying"]]
     \/ /\ o.name \notin {"run", "destroy"} /\ UNCHANGED macro /\ run'[c] = run[c]
        /\ call'[c] = CallOf(EntryOf(o.name), m, o.name, o.val)

-----------------------------------------------------------------------------
(* The frames of an actor agree: a call that run() has made is on the macro *)
(* that runs, from "send" or "leave"; a thread only calls from run(); a     *)
(* reset thread is never in run().                                          *)
AgreesOn(a) ==
  /\ call[a].at # "none" => run[a].at \in {"none", "send", "leave"}
  /\ call[a].at # "none" /\ run[a].at # "none" => call[a].m = run[a].m
  /\ a \in Threads /\ call[a].at # "none" => run[a].at # "none"
  /\ a \in Resets => run[a].at = "none"

FramesOK == \A a \in Actors : AgreesOn(a)

FrameInv == TypeOK /\ FramesOK

-----------------------------------------------------------------------------
(* The members that control a macro, and what keeps them. *)

Keeps(r, n) ==
  /\ n.interruptor = r.interruptor /\ n.registered = r.registered
  /\ n.handles = r.handles /\ n.mutex = r.mutex /\ n.life = r.life
  /\ n.waiting \subseteq r.waiting

LEMMA KeepsControl ==
  ASSUME NEW r \in MacroRecord
  PROVE  /\ Keeps(r, r) /\ Keeps(r, Notified(r)) /\ Keeps(r, Emptied(r))
         /\ Keeps(r, Limited(r))
         /\ \A n : Keeps(r, Limited(QueuedBy(r, n))) /\ Keeps(r, QueuedBy(r, n))
         /\ Keeps(r, Notified(CountedIn(r))) /\ Keeps(r, CountedOut(r))
         /\ Keeps(r, Notified(Uncounted(r)))
         /\ \A v : /\ Keeps(r, [r EXCEPT !.signals = v])
                   /\ Keeps(r, [r EXCEPT !.threadMax = v])
                   /\ Keeps(r, [r EXCEPT !.sticky = v])
<1> USE DEF Keeps, MacroRecord
<1>1. Keeps(r, r) /\ Keeps(r, Notified(r))
  BY DEF Notified
<1>2. Keeps(r, Emptied(r)) /\ Keeps(r, Limited(r))
  BY DEF Limited, Emptied
<1>3. ASSUME NEW n PROVE Keeps(r, Limited(QueuedBy(r, n))) /\ Keeps(r, QueuedBy(r, n))
  BY DEF Limited, Emptied, QueuedBy
<1>4. Keeps(r, Notified(CountedIn(r))) /\ Keeps(r, CountedOut(r))
  BY DEF Notified, CountedIn, CountedOut
<1>5. Keeps(r, Notified(Uncounted(r)))
  BY DEF Notified, Uncounted
<1>6. ASSUME NEW v
      PROVE  /\ Keeps(r, [r EXCEPT !.signals = v])
             /\ Keeps(r, [r EXCEPT !.threadMax = v])
             /\ Keeps(r, [r EXCEPT !.sticky = v])
  OBVIOUS
<1> HIDE DEF Keeps, MacroRecord
<1> QED BY <1>1, <1>2, <1>3, <1>4, <1>5, <1>6

(* A step that leaves the macros alone, or changes one and keeps that. *)
LEMMA UnchangedMacro ==
  ASSUME NEW a, UNCHANGED macro
  PROVE  MacroEffect(a)
BY DEF MacroEffect, MemberEffect

LEMMA KeepsMacro ==
  ASSUME MacrosOK, NEW a, NEW m \in Macros, NEW n, Set(m, n), Keeps(macro[m], n)
  PROVE  MacroEffect(a)
BY DEF MacrosOK, Set, Keeps, MacroEffect, MemberEffect

LEMMA OneMacro ==
  ASSUME MacrosOK, NEW a, NEW m \in Macros, NEW n, Set(m, n),
         macro'[m] = n => MemberEffect(a, m)
  PROVE  MacroEffect(a) /\ macro'[m] = n
<1>1. macro'[m] = n
  BY DEF MacrosOK, Set
<1>2. \A k \in Macros \ {m} : macro'[k] = macro[k]
  BY DEF MacrosOK, Set
<1>3. \A k \in Macros \ {m} : MemberEffect(a, k)
  BY <1>2 DEF MemberEffect
<1> QED BY <1>1, <1>3 DEF MacroEffect, MemberEffect

-----------------------------------------------------------------------------
(* The frames, pointwise. *)

LEMMA FrameIs ==
  ASSUME CallsOK, NEW a \in Actors, NEW f, call' = [call EXCEPT ![a] = f]
  PROVE  call'[a] = f /\ CallsOfOthers(a)
BY DEF CallsOK, CallsOfOthers

LEMMA GotoIs ==
  ASSUME CallsOK, NEW a \in Actors, NEW l, Goto(a, l)
  PROVE  /\ call'[a].at = l /\ call'[a].m = call[a].m /\ call'[a].op = call[a].op
         /\ call'[a].val = call[a].val /\ call'[a].prev = call[a].prev
         /\ call'[a].spawn = call[a].spawn
         /\ CallsOfOthers(a)
BY DEF CallsOK, CallFrame, Goto, CallsOfOthers

LEMMA ReturnIs ==
  ASSUME CallsOK, NEW a \in Actors, Return(a)
  PROVE  call'[a] = NoCall /\ call'[a].at = "none" /\ CallsOfOthers(a)
<1>1. NoCall.at = "none"
  BY DEF NoCall, CallOf
<1> QED BY <1>1, FrameIs DEF Return

LEMMA ThrowIs ==
  ASSUME TypeOK, NEW a \in Actors, Throw(a)
  PROVE  /\ call'[a] = NoCall /\ call'[a].at = "none" /\ CallsOfOthers(a)
         /\ RunsOfOthers(a)
         /\ \/ run'[a] = run[a]
            \/ run[a].at = "send" /\ run'[a].at = "leave" /\ run'[a].m = run[a].m
<1>1. Return(a)
  BY DEF Throw
<1>2. /\ RunsOfOthers(a)
      /\ \/ run'[a] = run[a]
         \/ run[a].at = "send" /\ run'[a].at = "leave" /\ run'[a].m = run[a].m
  BY DEF Throw, TypeOK, RunsOK, RunFrame, RunsOfOthers
<1> QED BY <1>1, <1>2, ReturnIs DEF TypeOK

(* A step of a call that changes no other frame. *)
LEMMA CallEffects ==
  ASSUME TypeOK, NEW a \in Actors, call[a].at # "none", ~Terminated, MacroEffect(a),
         CallsOfOthers(a), CallEffect(a), UNCHANGED run \/ Throw(a)
  PROVE  Effects(a)
<1>1. \A b \in Actors \ {a} : ThreadEffect(a, b)
  BY ThrowIs DEF RunsOfOthers, ThreadEffect
<1>2. OthersEffect(a)
  BY <1>1 DEF OthersEffect
<1>3. RunEffect(a)
  <2>1. CASE UNCHANGED run
    BY <2>1 DEF RunEffect
  <2>2. CASE Throw(a)
    BY <2>2, ThrowIs DEF RunEffect
  <2> QED BY <2>1, <2>2
<1> QED BY <1>2, <1>3 DEF Effects

-----------------------------------------------------------------------------
(* The catalogue is complete: start(). *)

LEMMA StartMacros ==
  ASSUME TypeOK, NEW a \in Actors, StartStep(a)
  PROVE  MacroEffect(a)
<1> USE DEF TypeOK, CallAt
<1>1. CallM(a) \in Macros /\ CallR(a) \in MacroRecord /\ CallR(a) = macro[CallM(a)]
      /\ call[a].m = CallM(a)
  BY InFrame DEF CallR, CallM
<1>2. CASE StartLock(a)
  <2>1. CASE Set(CallM(a), Locked(CallR(a), a))
    BY <1>1, <1>2, <2>1, OneMacro DEF StartLock, Lock, Locked, MemberEffect, WritesMutex, MacroRecord
  <2>2. CASE UNCHANGED macro
    BY <2>2, UnchangedMacro
  <2> QED BY <1>2, <2>1, <2>2 DEF StartLock
<1>12. CASE Resume(a)
  <2> DEFINE n == Unlocked(Notified(Interrupt(CallR(a), CONTINUE)))
  <2>1. /\ n.interruptor = CONTINUE /\ n.waiting = {} /\ n.mutex = NoOne
        /\ n.registered = CallR(a).registered /\ n.handles = CallR(a).handles
        /\ n.life = CallR(a).life
    BY <1>1 DEF Unlocked, Notified, Interrupt, MacroRecord
  <2>2. call[a].at = "resume" /\ Set(CallM(a), n)
    BY <1>12 DEF Resume
  <2>3. Holds(a, CallM(a))
    BY <1>1, <2>2 DEF Holds, InSection
  <2> HIDE DEF n
  <2> QED BY <1>1, <2>1, <2>2, <2>3, OneMacro DEF MemberEffect, WritesInterruptor, WritesMutex
<1>3. ASSUME NEW n, Set(CallM(a), Unlocked(n)), Keeps(CallR(a), n), n \in MacroRecord,
             call[a].at \in InSection
      PROVE  MacroEffect(a)
  BY <1>1, <1>3, OneMacro
     DEF Unlocked, MemberEffect, WritesMutex, Holds, MacroRecord, Keeps
<1>4. Keeps(CallR(a), Emptied(CallR(a))) /\ Emptied(CallR(a)) \in MacroRecord
  BY <1>1, UpdateType, KeepsControl
<1>5. CASE Reserve(a)
  <2>1. call[a].at \in InSection
    BY <1>5 DEF Reserve, InSection
  <2>2. UNCHANGED macro \/ Set(CallM(a), Unlocked(Emptied(CallR(a))))
    BY <1>5 DEF Reserve
  <2> QED BY <1>3, <1>4, <2>1, <2>2, UnchangedMacro
<1>6. CASE IncQueuedTest(a)
  BY <1>6, UnchangedMacro DEF IncQueuedTest
<1>7. CASE IncQueued(a)
  BY <1>1, <1>7, KeepsControl, KeepsMacro DEF IncQueued
<1>8. CASE CheckQueued(a)
  BY <1>3, <1>4, <1>8, UnchangedMacro DEF CheckQueued, InSection
<1>9. CASE Spawn(a)
  <2>1. PICK t \in FreeThreads :
          /\ run' = [run EXCEPT ![t] = Entered(CallM(a))]
          /\ Set(CallM(a), Unlocked(WithHandle(CallR(a), t)))
    BY <1>9 DEF Spawn
  <2>2. run'[t] = Entered(CallM(a))
    BY <2>1 DEF FreeThreads, Actors, RunsOK
  <2>3. call[a].at = "emplace"
    BY <1>9 DEF Spawn
  <2> DEFINE n == Unlocked(WithHandle(CallR(a), t))
  <2>4. /\ n.handles = CallR(a).handles \cup {t} /\ n.mutex = NoOne
        /\ n.waiting = CallR(a).waiting /\ n.interruptor = CallR(a).interruptor
        /\ n.registered = CallR(a).registered /\ n.life = CallR(a).life
    BY <1>1 DEF Unlocked, WithHandle, MacroRecord
  <2>5. Set(CallM(a), n)
    BY <2>1
  <2>6. Holds(a, CallM(a))
    BY <1>1, <2>3 DEF Holds, InSection
  <2> HIDE DEF n
  <2> QED BY <1>1, <2>2, <2>3, <2>4, <2>5, <2>6, OneMacro
          DEF MemberEffect, WritesMutex, WritesHandles
<1>10. CASE SpawnFails(a)
  BY <1>1, <1>3, <1>10, KeepsControl DEF SpawnFails, InSection
<1>11. CASE LimitMaxThreads(a)
  BY <1>1, <1>11, KeepsControl, KeepsMacro DEF LimitMaxThreads
<1> QED BY <1>2, <1>5, <1>6, <1>7, <1>8, <1>9, <1>10, <1>11, <1>12 DEF StartStep

(* Where a call of start() goes. *)
LEMMA StartCalls ==
  ASSUME TypeOK, NEW a \in Actors, StartStep(a)
  PROVE  CallEffect(a) /\ CallsOfOthers(a)
<1> USE DEF TypeOK, CallAt
<1>1. CallM(a) \in Macros /\ CallR(a) \in MacroRecord /\ CallR(a) = macro[call[a].m]
      /\ call[a].m = CallM(a)
  BY InFrame DEF CallR, CallM
<1>2. CASE StartLock(a)
  <2>1. CASE CanStart(CallR(a)) /\ Set(CallM(a), Locked(CallR(a), a)) /\ Goto(a, "reserve")
    <3>1. macro'[CallM(a)].mutex = a
      BY <1>1, <2>1 DEF Set, MacrosOK, Locked, MacroRecord
    <3>2. MovesTo(a)
      BY <1>1, <1>2, <2>1, <3>1, GotoIs DEF StartLock, Lock, MovesTo, Goes
    <3> QED BY <1>2, <2>1, <3>2, GotoIs DEF StartLock, CallEffect
  <2>2. CASE CallR(a).interruptor = INTERRUPT /\ Set(CallM(a), Locked(CallR(a), a)) /\ Goto(a, "resume")
    <3>1. macro'[CallM(a)].mutex = a
      BY <1>1, <2>2 DEF Set, MacrosOK, Locked, MacroRecord
    <3>2. MovesTo(a)
      BY <1>1, <1>2, <2>2, <3>1, GotoIs DEF StartLock, Lock, MovesTo, Goes
    <3> QED BY <1>2, <2>2, <3>2, GotoIs DEF StartLock, CallEffect
  <2>3. CASE Return(a)
    BY <1>2, <2>3, ReturnIs DEF StartLock, CallEffect, Returns
  <2> QED BY <1>2, <2>1, <2>2, <2>3 DEF StartLock
<1>11. CASE Resume(a)
  BY <1>11, ReturnIs DEF Resume, CallEffect, Returns
<1>3. ASSUME NEW n \in MacroRecord, Set(CallM(a), n), n.mutex = CallR(a).mutex
      PROVE  macro'[CallM(a)].mutex = CallR(a).mutex
  BY <1>1, <1>3 DEF Set, MacrosOK
<1>4. CASE Reserve(a)
  <2>1. MovesTo(a) /\ CallsOfOthers(a)
    BY <1>1, <1>4, GotoIs DEF Reserve, MovesTo, Goes
  <2> QED BY <1>4, <2>1 DEF Reserve, CallEffect
<1>5. CASE IncQueuedTest(a)
  <2>1. MovesTo(a) /\ CallsOfOthers(a)
    BY <1>1, <1>5, GotoIs DEF IncQueuedTest, MovesTo, Goes
  <2> QED BY <1>5, <2>1 DEF IncQueuedTest, CallEffect
<1>6. CASE IncQueued(a)
  <2>1. macro'[CallM(a)].mutex = CallR(a).mutex
    BY <1>1, <1>6, KeepsControl DEF IncQueued, Set, MacrosOK, Keeps
  <2>2. MovesTo(a) /\ CallsOfOthers(a)
    BY <1>1, <1>6, <2>1, GotoIs DEF IncQueued, MovesTo, Goes
  <2> QED BY <1>6, <2>2 DEF IncQueued, CallEffect
<1>7. CASE CheckQueued(a)
  <2>1. MovesTo(a) /\ CallsOfOthers(a)
    BY <1>1, <1>7, GotoIs DEF CheckQueued, MovesTo, Goes
  <2> QED BY <1>7, <2>1 DEF CheckQueued, CallEffect
<1>8. CASE Spawn(a)
  BY <1>8, ReturnIs DEF Spawn, CallEffect, Returns
<1>9. CASE SpawnFails(a)
  <2>1. MovesTo(a) /\ CallsOfOthers(a)
    BY <1>1, <1>9, GotoIs DEF SpawnFails, MovesTo, Goes
  <2> QED BY <1>9, <2>1 DEF SpawnFails, CallEffect
<1>10. CASE LimitMaxThreads(a)
  <2>1. CASE call[a].op = "copy"
    <3>1. MovesTo(a) /\ CallsOfOthers(a)
      BY <1>1, <1>10, <2>1, GotoIs DEF LimitMaxThreads, MovesTo, Goes
    <3> QED BY <1>10, <3>1 DEF LimitMaxThreads, CallEffect
  <2>2. CASE call[a].op # "copy"
    BY <1>10, <2>2, ReturnIs DEF LimitMaxThreads, CallEffect, Returns
  <2> QED BY <2>1, <2>2
<1> QED BY <1>2, <1>4, <1>5, <1>6, <1>7, <1>8, <1>9, <1>10, <1>11 DEF StartStep

LEMMA StartEffects ==
  ASSUME FrameInv, NEW a \in Actors, StartStep(a)
  PROVE  Effects(a)
<1>1. /\ MacroEffect(a) /\ CallEffect(a) /\ CallsOfOthers(a)
      /\ call[a].at # "none" /\ ~Terminated
  BY StartMacros, StartCalls
     DEF FrameInv, StartStep, StartLock, Resume, Reserve, IncQueuedTest, IncQueued,
         CheckQueued, Spawn, SpawnFails, LimitMaxThreads, CallAt
<1>2. CASE UNCHANGED run
  BY <1>1, <1>2, CallEffects DEF FrameInv
<1>3. CASE Spawn(a)
  <2>1. PICK t \in FreeThreads :
          /\ run' = [run EXCEPT ![t] = Entered(CallM(a))]
          /\ Set(CallM(a), Unlocked(WithHandle(CallR(a), t)))
    BY <1>3 DEF Spawn
  <2>2. t \in Threads /\ t \in Actors /\ run[t].at = "none" /\ call[a].at = "emplace"
    BY <1>3 DEF FreeThreads, Actors, Spawn, CallAt
  <2>3. a # t
    BY <1>1, <2>2 DEF FrameInv, FramesOK, AgreesOn
  <2>4. run'[a] = run[a] /\ run'[t] = Entered(call[a].m)
        /\ \A b \in Actors \ {t} : run'[b] = run[b]
    BY <2>1, <2>2, <2>3 DEF FrameInv, TypeOK, RunsOK, CallM
  <2>5. CallM(a) \in Macros /\ CallR(a) = macro[call[a].m] /\ CallR(a) \in MacroRecord
        /\ call[a].m = CallM(a)
    BY InFrame DEF CallR, CallM, FrameInv
  <2>6. macro'[call[a].m].handles = macro[call[a].m].handles \cup {t}
    BY <2>1, <2>5 DEF Set, Unlocked, WithHandle, MacroRecord, FrameInv, TypeOK, MacrosOK
  <2>7. \A b \in Actors \ {a} : ThreadEffect(a, b)
    BY <2>1, <2>2, <2>4, <2>6 DEF ThreadEffect
  <2> QED BY <1>1, <2>4, <2>7 DEF Effects, OthersEffect, RunEffect
<1> QED BY <1>2, <1>3
        DEF StartStep, StartLock, Resume, Reserve, IncQueuedTest, IncQueued, CheckQueued,
            SpawnFails, LimitMaxThreads

-----------------------------------------------------------------------------
(* setInterruptor(). *)

LEMMA WrittenFields ==
  ASSUME NEW r \in MacroRecord, NEW val
  PROVE  LET n == Written(r, val) IN
         /\ n.waiting = {} /\ n.mutex = r.mutex /\ n.registered = r.registered
         /\ n.handles = r.handles /\ n.life = r.life
         /\ n.interruptor = val \/ (n.interruptor = CONTINUE /\ val = INTERRUPT_ALL)
         /\ val = INTERRUPT_ALL /\ Running(r) => n.interruptor = INTERRUPT_ALL
<1> USE DEF MacroRecord, Notified, Interrupt, Dequeued, Emptied
<1>1. CASE val # INTERRUPT_ALL
  BY <1>1 DEF Written
<1>2. CASE val = INTERRUPT_ALL /\ Running(r)
  BY <1>2 DEF Written
<1>3. CASE val = INTERRUPT_ALL /\ ~Running(r)
  BY <1>3 DEF Written, NothingToInterrupt
<1> QED BY <1>1, <1>2, <1>3

LEMMA SetInterruptorMacros ==
  ASSUME TypeOK, NEW a \in Actors, SetInterruptorStep(a)
  PROVE  MacroEffect(a)
<1> USE DEF TypeOK, CallAt
<1>1. CallM(a) \in Macros /\ CallR(a) \in MacroRecord /\ CallR(a) = macro[CallM(a)]
      /\ call[a].m = CallM(a)
  BY InFrame DEF CallR, CallM
<1>2. CASE UNCHANGED macro
  BY <1>2, UnchangedMacro
<1>3. CASE WriteInterruptor(a)
  <2> DEFINE n == Written(CallR(a), call[a].val)
  <2>1. call[a].at = "write" /\ CallR(a).mutex = NoOne /\ Set(CallM(a), n)
    BY <1>1, <1>3 DEF WriteInterruptor, Lock
  <2>2. /\ n.waiting = {} /\ n.mutex = CallR(a).mutex /\ n.registered = CallR(a).registered
        /\ n.handles = CallR(a).handles /\ n.life = CallR(a).life
        /\ \/ n.interruptor = call[a].val
           \/ n.interruptor = CONTINUE /\ call[a].val = INTERRUPT_ALL
    BY <1>1, WrittenFields
  <2> HIDE DEF n
  <2> QED BY <1>1, <2>1, <2>2, OneMacro DEF MemberEffect, WritesInterruptor
<1>4. CASE ApplyDispatch(a)
  <2> DEFINE n == [CallR(a) EXCEPT !.registered = Enabled(CallR(a))]
  <2>1. /\ n.waiting = CallR(a).waiting /\ n.mutex = CallR(a).mutex
        /\ n.handles = CallR(a).handles /\ n.life = CallR(a).life
        /\ n.interruptor = CallR(a).interruptor
    BY <1>1 DEF MacroRecord
  <2>2. call[a].at = "apply" /\ Set(CallM(a), n)
    BY <1>4 DEF ApplyDispatch
  <2> HIDE DEF n
  <2> QED BY <1>1, <2>1, <2>2, OneMacro DEF MemberEffect, WritesRegistered
<1> QED BY <1>2, <1>3, <1>4
        DEF SetInterruptorStep, ReadInterruptor, CompareInterruptor, DetachReset, DetachFails

LEMMA SetInterruptorEffects ==
  ASSUME FrameInv, NEW a \in Actors, SetInterruptorStep(a)
  PROVE  Effects(a)
<1> USE DEF FrameInv, TypeOK, CallAt
<1>1. CallM(a) \in Macros /\ CallR(a) \in MacroRecord /\ CallR(a) = macro[call[a].m]
      /\ call[a].m = CallM(a)
  BY InFrame DEF CallR, CallM
<1>2. MacroEffect(a) /\ call[a].at # "none" /\ ~Terminated
  BY SetInterruptorMacros
     DEF SetInterruptorStep, ReadInterruptor, CompareInterruptor, WriteInterruptor,
         ApplyDispatch, DetachReset, DetachFails
<1>3. ASSUME MovesTo(a) \/ Returns(a), CallsOfOthers(a), UNCHANGED run \/ Throw(a)
      PROVE  Effects(a)
  BY <1>2, <1>3, CallEffects DEF CallEffect
<1>4. CASE ReadInterruptor(a)
  <2>1. CASE Throw(a)
    <3>1. Returns(a) /\ CallsOfOthers(a)
      BY <1>4, <2>1, ThrowIs DEF ReadInterruptor, Returns
    <3> QED BY <1>3, <2>1, <3>1
  <2>2. CASE UNCHANGED run /\ Remember(a, "compare", CallR(a).interruptor)
    <3> DEFINE f == [at |-> "compare", m |-> call[a].m, op |-> call[a].op,
                     val |-> call[a].val, prev |-> CallR(a).interruptor, spawn |-> FALSE]
    <3>1. call'[a] = f /\ CallsOfOthers(a)
      BY <2>2, FrameIs DEF Remember
    <3>2. MovesTo(a)
      BY <1>1, <1>4, <3>1 DEF ReadInterruptor, MovesTo, Goes
    <3> QED BY <1>3, <2>2, <3>1, <3>2
  <2> QED BY <1>4, <2>1, <2>2 DEF ReadInterruptor
<1>5. CASE CompareInterruptor(a)
  <2>1. CASE CallR(a).interruptor # call[a].val
    <3>1. MovesTo(a) /\ CallsOfOthers(a)
      BY <1>1, <1>5, <2>1, GotoIs DEF CompareInterruptor, MovesTo, Goes
    <3> QED BY <1>3, <1>5, <3>1 DEF CompareInterruptor
  <2>2. CASE CallR(a).interruptor = call[a].val
    <3>1. Returns(a) /\ CallsOfOthers(a)
      BY <1>5, <2>2, ReturnIs DEF CompareInterruptor, Returns
    <3> QED BY <1>3, <1>5, <3>1 DEF CompareInterruptor
  <2> QED BY <2>1, <2>2
<1>6. CASE WriteInterruptor(a)
  <2> DEFINE val   == call[a].val
             spawn == val = INTERRUPT_ALL /\ Running(CallR(a))
             n     == macro'[call[a].m]
  <2>1. n = Written(CallR(a), val)
    BY <1>1, <1>6 DEF WriteInterruptor, Set, MacrosOK
  <2>2. spawn => n.interruptor = INTERRUPT_ALL
    BY <1>1, <2>1, WrittenFields
  <2>3. call[a].at = "write" /\ CallR(a).mutex = NoOne /\ UNCHANGED run
    BY <1>1, <1>6 DEF WriteInterruptor, Lock
  <2>4. CASE /\ ChangesDispatch(call[a].prev, val)
             /\ call' = [call EXCEPT ![a] = Spawning(call[a], spawn)]
    <3>1. call'[a] = Spawning(call[a], spawn) /\ CallsOfOthers(a)
      BY <2>4, FrameIs
    <3>2. /\ call'[a].at = "apply" /\ call'[a].m = call[a].m /\ call'[a].op = call[a].op
          /\ call'[a].val = val /\ call'[a].prev = call[a].prev /\ call'[a].spawn = spawn
      BY <3>1 DEF Spawning
    <3>3. call'[a].spawn => val = INTERRUPT_ALL /\ n.interruptor = INTERRUPT_ALL
      BY <2>2, <3>2
    <3>4. MovesTo(a)
      BY <1>1, <2>3, <2>4, <3>2, <3>3 DEF MovesTo, Goes
    <3> QED BY <1>3, <2>3, <3>1, <3>4
  <2>5. CASE ~ChangesDispatch(call[a].prev, val) /\ spawn /\ Goto(a, "detach")
    <3>1. MovesTo(a) /\ CallsOfOthers(a)
      BY <1>1, <2>2, <2>3, <2>5, GotoIs DEF MovesTo, Goes
    <3> QED BY <1>3, <2>3, <3>1
  <2>6. CASE ~ChangesDispatch(call[a].prev, val) /\ Return(a)
    <3>1. Returns(a) /\ CallsOfOthers(a)
      BY <2>3, <2>6, ReturnIs DEF Returns
    <3> QED BY <1>3, <2>3, <3>1
  <2> QED BY <1>6, <2>4, <2>5, <2>6 DEF WriteInterruptor
<1>7. CASE ApplyDispatch(a)
  <2>1. macro'[call[a].m].registered = Enabled(macro[call[a].m])
    BY <1>1, <1>7 DEF ApplyDispatch, Set, MacrosOK, MacroRecord
  <2>2. CASE call[a].spawn
    <3>1. MovesTo(a) /\ CallsOfOthers(a)
      BY <1>1, <1>7, <2>1, <2>2, GotoIs DEF ApplyDispatch, MovesTo, Goes
    <3> QED BY <1>3, <1>7, <3>1 DEF ApplyDispatch
  <2>3. CASE ~call[a].spawn
    <3>1. Returns(a) /\ CallsOfOthers(a)
      BY <1>7, <2>1, <2>3, ReturnIs DEF ApplyDispatch, Returns
    <3> QED BY <1>3, <1>7, <3>1 DEF ApplyDispatch
  <2> QED BY <2>2, <2>3
<1>8. CASE DetachReset(a)
  <2> DEFINE f == CallOf("reset", call[a].m, "reset", 0)
  <2>1. PICK x \in FreeResets : call' = [call EXCEPT ![a] = NoCall, ![x] = f]
    BY <1>1, <1>8 DEF DetachReset
  <2>2. x \in Resets /\ x \in Actors /\ call[x].at = "none" /\ call[a].at = "detach"
    BY <1>8 DEF FreeResets, Actors, DetachReset
  <2> HIDE DEF f
  <2>3. call'[a] = NoCall /\ call'[x] = f /\ \A b \in Actors \ {a, x} : call'[b] = call[b]
    BY <2>1, <2>2 DEF CallsOK
  <2>4. BeginsReset(a, x)
    BY <2>2, <2>3 DEF BeginsReset, f
  <2>5. Returns(a)
    BY <2>2, <2>3 DEF Returns
  <2>6. UNCHANGED run
    BY <1>8 DEF DetachReset
  <2> QED BY <1>2, <2>2, <2>4, <2>5, <2>6
          DEF Effects, OthersEffect, ThreadEffect, CallEffect, RunEffect
<1>9. CASE DetachFails(a)
  <2>1. Returns(a) /\ CallsOfOthers(a) /\ Throw(a)
    BY <1>9, ThrowIs DEF DetachFails, Returns
  <2> QED BY <1>3, <2>1
<1> QED BY <1>4, <1>5, <1>6, <1>7, <1>8, <1>9 DEF SetInterruptorStep

-----------------------------------------------------------------------------
(* The functions that clear the threads of a macro. *)

LEMMA ClearMacros ==
  ASSUME TypeOK, NEW a \in Actors, ClearStep(a)
  PROVE  MacroEffect(a)
<1> USE DEF TypeOK, CallAt
<1>1. CallM(a) \in Macros /\ CallR(a) \in MacroRecord /\ CallR(a) = macro[CallM(a)]
      /\ call[a].m = CallM(a)
  BY InFrame DEF CallR, CallM
<1>2. CASE UNCHANGED macro
  BY <1>2, UnchangedMacro
<1>3. CASE Dequeue(a)
  <2> DEFINE n == Dequeued(CallR(a), ClearType(a))
  <2>1. call[a].at \in Dequeues /\ Set(CallM(a), n)
    BY <1>3 DEF Dequeue, Dequeues
  <2>2. /\ n.waiting = {} /\ n.mutex = CallR(a).mutex /\ n.registered = CallR(a).registered
        /\ n.handles = CallR(a).handles /\ n.life = CallR(a).life
        /\ n.interruptor = ClearType(a)
    BY <1>1 DEF Dequeued, Notified, Interrupt, Emptied, MacroRecord
  <2> HIDE DEF n
  <2> QED BY <1>1, <2>1, <2>2, OneMacro DEF MemberEffect, WritesInterruptor
<1>4. CASE Unregister(a)
  <2> DEFINE n == [CallR(a) EXCEPT !.registered = FALSE]
  <2>1. /\ n.waiting = CallR(a).waiting /\ n.mutex = CallR(a).mutex
        /\ n.handles = CallR(a).handles /\ n.life = CallR(a).life
        /\ n.interruptor = CallR(a).interruptor
    BY <1>1 DEF MacroRecord
  <2>2. call[a].at = "unregister" /\ Set(CallM(a), n)
    BY <1>4 DEF Unregister
  <2> HIDE DEF n
  <2> QED BY <1>1, <2>1, <2>2, OneMacro DEF MemberEffect, WritesRegistered
<1>5. CASE ForgetThreads(a)
  BY <1>1, <1>5, KeepsControl, KeepsMacro DEF ForgetThreads
<1>6. CASE WaitThreadsChanged(a) /\ Set(CallM(a), Blocked(CallR(a), a)) /\ UNCHANGED call
  <2> DEFINE n == Blocked(CallR(a), a)
  <2>1. /\ n.waiting = CallR(a).waiting \cup {a} /\ n.mutex = CallR(a).mutex
        /\ n.registered = CallR(a).registered
        /\ n.handles = CallR(a).handles /\ n.life = CallR(a).life
        /\ n.interruptor = CallR(a).interruptor
    BY <1>1 DEF Blocked, MacroRecord
  <2>2. call[a].at = "wait" /\ Set(CallM(a), n) /\ call'[a] = call[a]
    BY <1>6 DEF WaitThreadsChanged
  <2> HIDE DEF n
  <2> QED BY <1>1, <2>1, <2>2, OneMacro DEF MemberEffect, Waits
<1>7. CASE EraseHandles(a)
  <2>1. CASE Erasable(a)
    <3> DEFINE n == LivesOn(CallR(a), call[a].op)
    <3>1. /\ n.waiting = CallR(a).waiting /\ n.mutex = CallR(a).mutex
          /\ n.registered = CallR(a).registered /\ n.handles = CallR(a).handles
          /\ n.interruptor = CallR(a).interruptor
          /\ n.life = CallR(a).life \/ (call[a].op = "destroy" /\ n.life = "freed")
      BY <1>1 DEF LivesOn, MacroRecord
    <3>2. call[a].at = "erase" /\ Set(CallM(a), n)
      BY <1>7, <2>1 DEF EraseHandles
    <3> HIDE DEF n
    <3> QED BY <1>1, <2>1, <3>1, <3>2, OneMacro DEF MemberEffect, WritesLife
  <2>2. CASE ~Erasable(a)
    <3> DEFINE n == [CallR(a) EXCEPT !.life = "terminated"]
    <3>1. /\ n.waiting = CallR(a).waiting /\ n.mutex = CallR(a).mutex
          /\ n.registered = CallR(a).registered /\ n.handles = CallR(a).handles
          /\ n.interruptor = CallR(a).interruptor /\ n.life = "terminated"
      BY <1>1 DEF MacroRecord
    <3>2. call[a].at = "erase" /\ Set(CallM(a), n)
      BY <1>7, <2>2 DEF EraseHandles
    <3> HIDE DEF n
    <3> QED BY <1>1, <2>2, <3>1, <3>2, OneMacro DEF MemberEffect, WritesLife
  <2> QED BY <2>1, <2>2
<1>8. CASE Assign(a)
  <2> DEFINE n == Copied(CallR(a), Setups[call[a].val])
  <2>1. /\ n.waiting = CallR(a).waiting /\ n.mutex = CallR(a).mutex
        /\ n.registered = CallR(a).registered /\ n.handles = CallR(a).handles
        /\ n.interruptor = Setups[call[a].val].interruptor /\ n.life = CallR(a).life
    BY DEF Copied
  <2>2. call[a].at = "assign" /\ Set(CallM(a), n)
    BY <1>8 DEF Assign
  <2> HIDE DEF n
  <2> QED BY <1>1, <2>1, <2>2, OneMacro DEF MemberEffect, WritesInterruptor
<1>9. CASE JoinAll(a)
  <2> DEFINE n == NoHandles(CallR(a))
  <2>1. /\ n.waiting = CallR(a).waiting /\ n.mutex = CallR(a).mutex
        /\ n.registered = CallR(a).registered /\ n.handles = {}
        /\ n.interruptor = CallR(a).interruptor /\ n.life = CallR(a).life
    BY <1>1 DEF NoHandles, MacroRecord
  <2>2. call[a].at = "join" /\ Set(CallM(a), n) /\ \A t \in CallR(a).handles \ {a} : Ended(t)
    BY <1>9 DEF JoinAll
  <2> HIDE DEF n
  <2> QED BY <1>1, <2>1, <2>2, OneMacro DEF MemberEffect, WritesHandles
<1> QED BY <1>2, <1>3, <1>4, <1>5, <1>6, <1>7, <1>8, <1>9
        DEF ClearStep, ResetReads, TestRunning, TestUnsetStatus, WaitThreadsChanged, Restore

LEMMA ClearCalls ==
  ASSUME TypeOK, NEW a \in Actors, ClearStep(a)
  PROVE  CallEffect(a) /\ CallsOfOthers(a)
<1> USE DEF TypeOK, CallAt
<1>1. CallM(a) \in Macros /\ CallR(a) \in MacroRecord /\ CallR(a) = macro[call[a].m]
      /\ call[a].m = CallM(a)
  BY InFrame DEF CallR, CallM
<1>2. CASE ResetReads(a)
  <2> DEFINE f == [at |-> "drain", m |-> call[a].m, op |-> call[a].op,
                   val |-> call[a].val, prev |-> CallR(a).interruptor, spawn |-> FALSE]
  <2>1. call'[a] = f /\ CallsOfOthers(a)
    BY <1>2, FrameIs DEF ResetReads, Remember
  <2>2. MovesTo(a)
    BY <1>1, <1>2, <2>1 DEF ResetReads, MovesTo, Goes
  <2> QED BY <1>2, <2>1, <2>2 DEF ResetReads, CallEffect
<1>3. CASE Dequeue(a)
  <2>1. MovesTo(a) /\ CallsOfOthers(a)
    BY <1>1, <1>3, GotoIs DEF Dequeue, AfterDequeue, IsReset, MovesTo, Goes
  <2> QED BY <1>3, <2>1 DEF Dequeue, CallEffect
<1>4. CASE Unregister(a)
  <2>1. MovesTo(a) /\ CallsOfOthers(a)
    BY <1>1, <1>4, GotoIs DEF Unregister, MovesTo, Goes
  <2> QED BY <1>4, <2>1 DEF Unregister, CallEffect
<1>5. CASE TestRunning(a)
  <2>1. MovesTo(a) /\ CallsOfOthers(a)
    BY <1>1, <1>5, GotoIs DEF TestRunning, MovesTo, Goes
  <2> QED BY <1>5, <2>1 DEF TestRunning, CallEffect
<1>6. CASE TestUnsetStatus(a)
  <2>1. MovesTo(a) /\ CallsOfOthers(a)
    BY <1>1, <1>6, GotoIs DEF TestUnsetStatus, MovesTo, Goes
  <2> QED BY <1>6, <2>1 DEF TestUnsetStatus, CallEffect
<1>7. CASE ForgetThreads(a)
  <2>1. MovesTo(a) /\ CallsOfOthers(a)
    BY <1>1, <1>7, GotoIs DEF ForgetThreads, MovesTo, Goes
  <2> QED BY <1>7, <2>1 DEF ForgetThreads, CallEffect
<1>8. CASE WaitThreadsChanged(a)
  <2>1. CASE UNCHANGED call
    BY <1>8, <2>1 DEF WaitThreadsChanged, CallEffect, Remains, CallsOfOthers
  <2>2. CASE Goto(a, IF IsReset(a) THEN "join" ELSE "waited")
    <3>1. MovesTo(a) /\ CallsOfOthers(a)
      BY <1>1, <1>8, <2>2, GotoIs DEF WaitThreadsChanged, Lock, IsReset, MovesTo, Goes
    <3> QED BY <1>8, <3>1 DEF WaitThreadsChanged, CallEffect
  <2> QED BY <1>8, <2>1, <2>2 DEF WaitThreadsChanged
<1>9. CASE JoinAll(a)
  <2>1. macro'[CallM(a)].handles = {}
    BY <1>1, <1>9 DEF JoinAll, Set, MacrosOK, NoHandles, MacroRecord
  <2>2. MovesTo(a) /\ CallsOfOthers(a)
    BY <1>1, <1>9, <2>1, GotoIs DEF JoinAll, MovesTo, Goes
  <2> QED BY <1>9, <2>2 DEF JoinAll, CallEffect
<1>10. CASE EraseHandles(a)
  <2>1. call[a].at = "erase"
    BY <1>10 DEF EraseHandles
  <2>2. CASE ~Erasable(a)
    BY <1>10, <2>1, <2>2 DEF EraseHandles, CallEffect, Remains, CallsOfOthers
  <2>3. CASE Erasable(a) /\ call[a].op \in {"reset", "copy"}
    <3>1. /\ call[a].op = "reset" => Goto(a, "restore")
          /\ call[a].op = "copy" => Goto(a, "assign")
      BY <1>10, <2>3 DEF EraseHandles, AfterErase
    <3>2. MovesTo(a) /\ CallsOfOthers(a)
      BY <1>1, <2>1, <2>3, <3>1, GotoIs DEF MovesTo, Goes
    <3> QED BY <2>1, <3>2 DEF CallEffect
  <2>4. CASE Erasable(a) /\ call[a].op \notin {"reset", "copy"}
    <3>1. Return(a)
      BY <1>10, <2>4 DEF EraseHandles, AfterErase
    <3>2. call[a].op = "destroy" => macro'[call[a].m].life = "freed"
      <4> DEFINE n == LivesOn(CallR(a), call[a].op)
      <4>1. call[a].op = "destroy" => n.life = "freed"
        BY <1>1 DEF LivesOn, MacroRecord
      <4>2. Set(CallM(a), n)
        BY <1>10, <2>4 DEF EraseHandles
      <4> HIDE DEF n
      <4> QED BY <1>1, <4>1, <4>2 DEF Set, MacrosOK
    <3> QED BY <2>1, <2>4, <3>1, <3>2, ReturnIs DEF CallEffect, Returns
  <2> QED BY <2>2, <2>3, <2>4
<1>11. CASE Restore(a)
  <2>1. CASE call[a].prev # DISABLE
    BY <1>1, <1>11, <2>1, FrameIs DEF Restore, Restores, CallEffect
  <2>2. CASE call[a].prev = DISABLE
    BY <1>11, <2>2, ReturnIs DEF Restore, Returns, CallEffect
  <2> QED BY <2>1, <2>2
<1>12. CASE Assign(a)
  <2>1. MovesTo(a) /\ CallsOfOthers(a)
    BY <1>1, <1>12, GotoIs DEF Assign, MovesTo, Goes
  <2> QED BY <1>12, <2>1 DEF Assign, CallEffect
<1> QED BY <1>2, <1>3, <1>4, <1>5, <1>6, <1>7, <1>8, <1>9, <1>10, <1>11, <1>12 DEF ClearStep

LEMMA ClearEffects ==
  ASSUME FrameInv, NEW a \in Actors, ClearStep(a)
  PROVE  Effects(a)
<1>1. /\ MacroEffect(a) /\ CallEffect(a) /\ CallsOfOthers(a)
      /\ call[a].at # "none" /\ ~Terminated
  BY ClearMacros, ClearCalls
     DEF FrameInv, ClearStep, ResetReads, Dequeue, Unregister, TestRunning, TestUnsetStatus,
         ForgetThreads, WaitThreadsChanged, JoinAll, EraseHandles, Restore, Assign, CallAt
<1>2. CASE UNCHANGED run
  BY <1>1, <1>2, CallEffects DEF FrameInv
<1>3. CASE JoinAll(a)
  <2>1. /\ CallM(a) \in Macros /\ CallR(a) \in MacroRecord /\ CallR(a) = macro[call[a].m]
        /\ call[a].m = CallM(a) /\ call[a].at = "join"
    BY <1>3, InFrame DEF CallR, CallM, FrameInv, JoinAll, CallAt
  <2>2. macro'[call[a].m].handles = {}
    BY <1>3, <2>1 DEF JoinAll, Set, NoHandles, MacroRecord, FrameInv, TypeOK, MacrosOK
  <2>3. /\ \A t \in CallR(a).handles \ {a} : Ended(t)
        /\ run' = [t \in Actors |-> IF t \in CallR(a).handles \ {a} THEN NoFrame ELSE run[t]]
    BY <1>3 DEF JoinAll
  <2>4. run'[a] = run[a]
    BY <2>3
  <2>5. \A b \in Actors \ {a} : ThreadEffect(a, b)
    BY <2>1, <2>2, <2>3 DEF Ended, ThreadEffect
  <2> QED BY <1>1, <2>4, <2>5 DEF Effects, OthersEffect, RunEffect
<1> QED BY <1>2, <1>3
        DEF ClearStep, ResetReads, Dequeue, Unregister, TestRunning, TestUnsetStatus,
            ForgetThreads, WaitThreadsChanged, EraseHandles, Restore, Assign

LEMMA SetterEffects ==
  ASSUME FrameInv, NEW a \in Actors, SetterStep(a)
  PROVE  Effects(a)
<1> USE DEF FrameInv, TypeOK, CallAt
<1>1. CallM(a) \in Macros /\ CallR(a) \in MacroRecord /\ CallR(a) = macro[CallM(a)]
      /\ call[a].m = CallM(a)
  BY InFrame DEF CallR, CallM
<1>2. /\ call[a].at \in {"setSignals", "setThreadMax", "setSticky"} /\ ~Terminated
      /\ UNCHANGED run \/ Throw(a)
  BY DEF SetterStep, SetSignals, SetThreadMax, SetSticky
<1>3. MacroEffect(a)
  <2>1. CASE SetSignals(a)
    BY <1>1, <2>1, KeepsControl, KeepsMacro, UnchangedMacro DEF SetSignals
  <2>2. CASE SetThreadMax(a)
    BY <1>1, <2>2, KeepsControl, KeepsMacro, UnchangedMacro DEF SetThreadMax
  <2>3. CASE SetSticky(a)
    BY <1>1, <2>3, KeepsControl, KeepsMacro DEF SetSticky
  <2> QED BY <2>1, <2>2, <2>3 DEF SetterStep
<1>4. CallEffect(a) /\ CallsOfOthers(a)
  <2>1. CASE Return(a) \/ Throw(a)
    BY <1>2, <2>1, ReturnIs DEF Throw, Returns, CallEffect
  <2>2. CASE call[a].at = "setThreadMax" /\ Goto(a, "limit")
    <3>1. MovesTo(a) /\ CallsOfOthers(a)
      BY <1>1, <2>2, GotoIs DEF MovesTo, Goes
    <3> QED BY <2>2, <3>1 DEF CallEffect
  <2> QED BY <2>1, <2>2 DEF SetterStep, SetSignals, SetThreadMax, SetSticky
<1> QED BY <1>2, <1>3, <1>4, CallEffects

-----------------------------------------------------------------------------
(* run(). *)

LEMMA RunToIs ==
  ASSUME RunsOK, NEW a \in Actors, NEW l, RunTo(a, l)
  PROVE  run'[a].at = l /\ run'[a].m = run[a].m /\ RunsOfOthers(a)
BY DEF RunsOK, RunFrame, RunTo, RunsOfOthers

LEMMA SendFromIs ==
  ASSUME RunsOK, NEW a \in Actors, NEW i, SendFrom(a, i)
  PROVE  run'[a].at = "send" /\ run'[a].m = run[a].m /\ RunsOfOthers(a)
BY DEF RunsOK, RunFrame, SendFrom, RunsOfOthers

(* A step of run() that makes no call. *)
LEMMA RunEffects ==
  ASSUME TypeOK, NEW a \in Actors, call[a].at = "none", ~Terminated, MacroEffect(a),
         UNCHANGED call, RunsOfOthers(a), RunEffect(a)
  PROVE  Effects(a)
BY DEF Effects, OthersEffect, CallsOfOthers, RunsOfOthers, ThreadEffect, CallEffect, Remains

LEMMA RunMacros ==
  ASSUME TypeOK, NEW a \in Actors, RunStep(a)
  PROVE  MacroEffect(a)
<1> USE DEF TypeOK, RunAt
<1>1. RunM(a) \in Macros /\ RunR(a) \in MacroRecord /\ RunR(a) = macro[RunM(a)]
      /\ run[a].m = RunM(a)
  BY InFrame DEF RunR, RunM
<1>2. CASE UNCHANGED macro
  BY <1>2, UnchangedMacro
<1>3. CASE Enter(a)
  BY <1>1, <1>3, KeepsControl, KeepsMacro DEF Enter
<1>4. CASE TestPauseLoop(a) /\ Set(RunM(a), Locked(RunR(a), a))
  <2> DEFINE n == Locked(RunR(a), a)
  <2>1. /\ n.waiting = RunR(a).waiting /\ n.mutex = a /\ n.registered = RunR(a).registered
        /\ n.handles = RunR(a).handles /\ n.life = RunR(a).life
        /\ n.interruptor = RunR(a).interruptor
    BY <1>1 DEF Locked, MacroRecord
  <2>2. RunR(a).mutex = NoOne /\ Set(RunM(a), n)
    BY <1>1, <1>4 DEF TestPauseLoop, Lock
  <2> HIDE DEF n
  <2> QED BY <1>1, <2>1, <2>2, OneMacro DEF MemberEffect, WritesMutex
<1>5. CASE BlockInPause(a)
  <2> DEFINE n == Unlocked(Blocked(RunR(a), a))
  <2>1. /\ n.waiting = RunR(a).waiting \cup {a} /\ n.mutex = NoOne
        /\ n.registered = RunR(a).registered
        /\ n.handles = RunR(a).handles /\ n.life = RunR(a).life
        /\ n.interruptor = RunR(a).interruptor
    BY <1>1 DEF Unlocked, Blocked, MacroRecord
  <2>2. /\ run[a].at = "block" /\ call[a].at = "none" /\ Set(RunM(a), n)
    BY <1>5 DEF BlockInPause
  <2> HIDE DEF n
  <2> QED BY <1>1, <2>1, <2>2, OneMacro DEF MemberEffect, WritesMutex, Holds, Waits
<1>6. CASE DecQueued(a)
  BY <1>1, <1>6, KeepsControl, KeepsMacro DEF DecQueued
<1>7. CASE ClampQueued(a)
  BY <1>1, <1>7, KeepsControl, KeepsMacro DEF ClampQueued
<1>8. CASE RunComplete(a)
  BY <1>1, <1>8, KeepsControl, KeepsMacro DEF RunComplete
<1>9. CASE NotifyThreadsChanged(a)
  BY <1>1, <1>9, KeepsControl, KeepsMacro DEF NotifyThreadsChanged
<1> QED BY <1>2, <1>3, <1>4, <1>5, <1>6, <1>7, <1>8, <1>9
        DEF RunStep, ConsumeInterrupt, TestSignals, TestPause, TestPauseLoop, TestStopped,
            TestIdle, TestQueued, DispatchSignal, Release

(* A step of run() that neither pauses nor calls nor ends. *)
LEMMA RunsOn ==
  ASSUME TypeOK, NEW a \in Actors, call[a].at = "none", ~Terminated, MacroEffect(a),
         UNCHANGED call, run[a].at \notin {"none", "gone", "block"}, RunsOfOthers(a),
         run'[a].at \notin {"none", "enter", "gone", "block"}, run'[a].m = run[a].m,
         run'[a].at = "pausing" => run[a].at = "pause",
         run[a].at = "pausing" => a \notin macro[run[a].m].waiting
  PROVE  Effects(a)
BY RunEffects DEF RunEffect

LEMMA RunStepEffects ==
  ASSUME FrameInv, NEW a \in Actors, RunStep(a)
  PROVE  Effects(a)
<1> USE DEF FrameInv, TypeOK, RunAt
<1>1. /\ RunM(a) \in Macros /\ RunR(a) \in MacroRecord /\ RunR(a) = macro[RunM(a)]
      /\ run[a].m = RunM(a) /\ run[a].i \in Nat \ {0}
  BY InFrame DEF RunR, RunM
<1>2. /\ MacroEffect(a) /\ call[a].at = "none" /\ run[a].at \notin {"none", "gone"}
      /\ ~Terminated
  BY RunMacros
     DEF RunStep, Enter, ConsumeInterrupt, TestSignals, TestPause, TestPauseLoop, BlockInPause,
         TestStopped, TestIdle, TestQueued, DecQueued, ClampQueued, DispatchSignal, RunComplete,
         Release, NotifyThreadsChanged
<1>3. CASE Enter(a)
  BY <1>2, <1>3, RunToIs, RunsOn DEF Enter
<1>4. CASE ConsumeInterrupt(a)
  <2>1. CASE RunTo(a, AfterConsume(a)) /\ UNCHANGED call
    BY <1>2, <1>4, <2>1, RunToIs, RunsOn DEF ConsumeInterrupt, AfterConsume
  <2>2. CASE /\ Interrupted(RunR(a)) /\ RunTo(a, "leave")
             /\ Begin(a, RunM(a), [name |-> "setInterruptor", val |-> CONTINUE])
    <3> DEFINE f == CallOf("interrupt", run[a].m, "setInterruptor", CONTINUE)
    <3>1. call' = [call EXCEPT ![a] = f]
      BY <1>1, <2>2 DEF Begin, EntryOf
    <3> HIDE DEF f
    <3>2. call'[a] = f /\ CallsOfOthers(a)
      BY <3>1, FrameIs
    <3>3. Begins(a)
      BY <1>1, <1>2, <1>4, <2>2, <3>2, RunToIs DEF Begins, f, Interrupted, ConsumeInterrupt
    <3>4. RunEffect(a) /\ RunsOfOthers(a)
      BY <1>2, <1>4, <2>2, RunToIs DEF RunEffect, ConsumeInterrupt
    <3> QED BY <1>2, <3>2, <3>3, <3>4
            DEF Effects, OthersEffect, CallEffect, RunsOfOthers, ThreadEffect
  <2> QED BY <1>4, <2>1, <2>2 DEF ConsumeInterrupt
<1>5. CASE TestSignals(a)
  BY <1>2, <1>5, RunToIs, RunsOn DEF TestSignals
<1>6. CASE TestPause(a)
  BY <1>2, <1>6, RunToIs, RunsOn DEF TestPause
<1>7. CASE TestPauseLoop(a)
  <2>1. CASE Paused(RunR(a)) /\ Set(RunM(a), Locked(RunR(a), a)) /\ RunTo(a, "block")
    <3>1. macro'[RunM(a)].mutex = a
      BY <1>1, <2>1 DEF Set, MacrosOK, Locked, MacroRecord
    <3>2. RunEffect(a)
      BY <1>1, <1>2, <1>7, <2>1, <3>1, RunToIs DEF TestPauseLoop, Lock, RunEffect
    <3> QED BY <1>2, <1>7, <2>1, <3>2, RunToIs, RunEffects DEF TestPauseLoop
  <2>2. CASE RunTo(a, "loop")
    BY <1>1, <1>2, <1>7, <2>2, RunToIs, RunsOn DEF TestPauseLoop, Lock
  <2> QED BY <1>7, <2>1, <2>2 DEF TestPauseLoop
<1>8. CASE BlockInPause(a)
  <2>1. RunEffect(a)
    BY <1>2, <1>8, RunToIs DEF BlockInPause, RunEffect
  <2> QED BY <1>2, <1>8, <2>1, RunToIs, RunEffects DEF BlockInPause
<1>9. CASE TestStopped(a)
  BY <1>2, <1>9, RunToIs, RunsOn DEF TestStopped
<1>10. CASE TestIdle(a)
  BY <1>2, <1>10, RunToIs, SendFromIs, RunsOn DEF TestIdle
<1>11. CASE TestQueued(a)
  BY <1>2, <1>11, RunToIs, SendFromIs, RunsOn DEF TestQueued
<1>12. CASE DecQueued(a)
  BY <1>2, <1>12, RunToIs, RunsOn DEF DecQueued
<1>13. CASE ClampQueued(a)
  BY <1>2, <1>13, SendFromIs, RunsOn DEF ClampQueued
<1>14. CASE DispatchSignal(a)
  <2>1. CASE UNCHANGED call
    BY <1>2, <1>14, <2>1, RunToIs, SendFromIs, RunsOn DEF DispatchSignal
  <2> DEFINE n == RunR(a).signals
             i == run[a].i
             o == SignalLists[n][i]
  <2>2. CASE /\ i <= Len(SignalLists[n]) /\ o.name # "send" /\ SendFrom(a, i + 1)
             /\ Begin(a, RunM(a), o) /\ Sends(RunR(a))
    <3>1. n \in DOMAIN SignalLists
      BY <1>1, MemberType
    <3>2. i \in 1 .. Len(SignalLists[n])
      BY <1>1, <2>2, <3>1, SignalListsAssumption
    <3> DEFINE f == CallOf(EntryOf(o.name), run[a].m, o.name, o.val)
    <3>3. call' = [call EXCEPT ![a] = f]
      BY <1>1, <2>2 DEF Begin
    <3>4. call'[a] = f /\ CallsOfOthers(a)
      BY <3>3, FrameIs
    <3>5. run[a].at = "send" /\ run'[a].at = "send" /\ run'[a].m = run[a].m /\ RunsOfOthers(a)
      BY <1>14, <2>2, SendFromIs DEF DispatchSignal
    <3>6. Begins(a)
      BY <1>1, <1>2, <2>2, <3>1, <3>2, <3>4, <3>5 DEF Begins
    <3>7. RunEffect(a)
      BY <1>2, <3>5 DEF RunEffect
    <3> QED BY <1>2, <3>4, <3>5, <3>6, <3>7
            DEF Effects, OthersEffect, CallEffect, RunsOfOthers, ThreadEffect
  <2> QED BY <1>14, <2>1, <2>2 DEF DispatchSignal
<1>15. CASE RunComplete(a)
  BY <1>2, <1>15, RunToIs, RunsOn DEF RunComplete
<1>16. CASE Release(a)
  BY <1>2, <1>16, RunToIs, RunsOn DEF Release
<1>17. CASE NotifyThreadsChanged(a)
  <2>1. run'[a] = Ending(a) /\ RunsOfOthers(a)
    BY <1>17 DEF NotifyThreadsChanged, RunsOK, RunsOfOthers
  <2>2. RunEffect(a)
    BY <1>2, <1>17, <2>1 DEF NotifyThreadsChanged, RunEffect
  <2> QED BY <1>2, <1>17, <2>1, <2>2, RunEffects DEF NotifyThreadsChanged
<1> QED BY <1>3, <1>4, <1>5, <1>6, <1>7, <1>8, <1>9, <1>10, <1>11, <1>12, <1>13, <1>14,
           <1>15, <1>16, <1>17 DEF RunStep

-----------------------------------------------------------------------------
(* The catalogue, of all steps. *)

LEMMA StepEffects ==
  ASSUME FrameInv, NEW a \in Actors, Step(a)
  PROVE  Effects(a)
BY StartEffects, SetInterruptorEffects, ClearEffects, SetterEffects, RunStepEffects
   DEF Step, CallStep

LEMMA InvokeEffects ==
  ASSUME FrameInv, NEW c \in Clients, Invoke(c)
  PROVE  \E m \in Macros, o \in Ops[c] : InvokeEffect(c, m, o)
<1> USE DEF FrameInv, TypeOK
<1>1. PICK m \in Macros, o \in Ops[c] :
        /\ macro[m].life = "alive"
        /\ \/ /\ o.name = "run"
              /\ run' = [run EXCEPT ![c] = Entered(m)]
              /\ UNCHANGED <<macro, call>>
           \/ /\ o.name = "destroy"
              /\ \A d \in Clients : ~InCall(d, m) /\ ~InRun(d, m)
              /\ Set(m, [macro[m] EXCEPT !.life = "dying"])
              /\ Begin(c, m, o)
              /\ UNCHANGED run
           \/ /\ o.name \notin {"run", "destroy"}
              /\ Begin(c, m, o)
              /\ UNCHANGED <<macro, run>>
  BY DEF Invoke
<1>2. c \in Actors /\ call[c].at = "none" /\ run[c].at = "none" /\ ~Terminated
  BY DEF Actors, Invoke, RunAt
<1>3. CASE o.name = "run"
  <2>1. run'[c] = Entered(m) /\ RunsOfOthers(c) /\ CallsOfOthers(c)
    BY <1>1, <1>2, <1>3 DEF RunsOK, RunsOfOthers, CallsOfOthers
  <2> QED BY <1>1, <1>2, <1>3, <2>1 DEF InvokeEffect
<1>4. CASE o.name # "run"
  <2> DEFINE f == CallOf(EntryOf(o.name), m, o.name, o.val)
  <2>1. call'[c] = f /\ CallsOfOthers(c)
    BY <1>1, <1>2, <1>4, FrameIs DEF Begin
  <2>2. run'[c] = run[c] /\ RunsOfOthers(c)
    BY <1>1, <1>4 DEF RunsOfOthers
  <2>3. CASE o.name = "destroy"
    <3>1. EntryOf(o.name) = "disable"
      BY <2>3 DEF EntryOf
    <3> QED BY <1>1, <1>2, <2>1, <2>2, <2>3, <3>1 DEF InvokeEffect, Set
  <2>4. CASE o.name # "destroy"
    BY <1>1, <1>2, <1>4, <2>1, <2>2, <2>4 DEF InvokeEffect
  <2> QED BY <2>3, <2>4
<1> QED BY <1>3, <1>4

(* What a step may be. *)
Moves ==
  \/ UNCHANGED vars
  \/ \E a \in Actors : Effects(a)
  \/ \E c \in Clients, m \in Macros : \E o \in Ops[c] : InvokeEffect(c, m, o)

LEMMA NextEffects ==
  ASSUME FrameInv, [Next]_vars
  PROVE  Moves
BY StepEffects, InvokeEffects DEF Next, Moves

-----------------------------------------------------------------------------
(* The frames of an actor go on agreeing. *)

LEMMA EmptyFrames ==
  /\ NoCall.at = "none" /\ NoCall.spawn = FALSE /\ NoFrame.at = "none"
  /\ \A l, m, op, val : /\ CallOf(l, m, op, val).at = l /\ CallOf(l, m, op, val).m = m
                       /\ CallOf(l, m, op, val).op = op /\ CallOf(l, m, op, val).val = val
                       /\ CallOf(l, m, op, val).spawn = FALSE
  /\ \A m : Entered(m).at = "enter" /\ Entered(m).m = m
  /\ \A a : /\ Ending(a).at \in {"none", "gone"}
            /\ Ending(a).at = "gone" => a \in RunR(a).handles /\ Ending(a).m = RunM(a)
  /\ \A name : name \in OpNames \ {"run"} => EntryOf(name) # "none"
<1>1. NoCall.at = "none" /\ NoCall.spawn = FALSE /\ NoFrame.at = "none"
  BY DEF NoCall, NoFrame, CallOf
<1>2. \A l, m, op, val : /\ CallOf(l, m, op, val).at = l /\ CallOf(l, m, op, val).m = m
                         /\ CallOf(l, m, op, val).op = op /\ CallOf(l, m, op, val).val = val
                         /\ CallOf(l, m, op, val).spawn = FALSE
  BY DEF CallOf
<1>3. \A m : Entered(m).at = "enter" /\ Entered(m).m = m
  BY DEF Entered
<1>4. \A a : /\ Ending(a).at \in {"none", "gone"}
             /\ Ending(a).at = "gone" => a \in RunR(a).handles /\ Ending(a).m = RunM(a)
  BY DEF Ending, NoFrame
<1>5. \A name : name \in OpNames \ {"run"} => EntryOf(name) # "none"
  BY DEF OpNames, SignalNames, EntryOf
<1> QED BY <1>1, <1>2, <1>3, <1>4, <1>5

LEMMA OwnAgrees ==
  ASSUME FrameInv, NEW a \in Actors, Effects(a)
  PROVE  AgreesOn(a)'
<1>1. AgreesOn(a) /\ CallEffect(a) /\ RunEffect(a)
  BY DEF FrameInv, FramesOK, AgreesOn, Effects
<1>2. CASE call[a].at # "none"
  <2>1. /\ run'[a] = run[a] \/ (run[a].at = "send" /\ run'[a].at = "leave" /\ run'[a].m = run[a].m
                                 /\ call'[a] = NoCall)
    BY <1>1, <1>2 DEF RunEffect
  <2>2. call'[a] = NoCall \/ call'[a].m = call[a].m
    BY <1>1, <1>2, EmptyFrames DEF CallEffect, Remains, Returns, MovesTo, Restores, Begins
  <2> QED BY <1>1, <1>2, <2>1, <2>2, EmptyFrames DEF AgreesOn
<1>3. CASE call[a].at = "none"
  <2>1. call'[a] = call[a] \/ (run'[a].at \in {"send", "leave"} /\ call'[a].m = run[a].m)
    BY <1>1, <1>3, EmptyFrames DEF CallEffect, Remains, Restores, Begins
  <2>2. run[a].at \notin {"none", "gone"}
    BY <1>1, <1>3 DEF RunEffect
  <2>3. run'[a].at \in {"send", "leave"} => run'[a].m = run[a].m
    BY <1>1, <1>3, EmptyFrames DEF RunEffect
  <2> QED BY <1>1, <1>3, <2>1, <2>2, <2>3 DEF AgreesOn
<1> QED BY <1>2, <1>3

LEMMA OthersAgree ==
  ASSUME FrameInv, NEW a \in Actors, Effects(a), NEW b \in Actors \ {a}
  PROVE  AgreesOn(b)'
<1>1. AgreesOn(b) /\ OthersEffect(a)
  BY DEF FrameInv, FramesOK, AgreesOn, Effects
<1>2. \A x \in Threads : x \notin Resets
  BY ActorsAssumption
<1>3. run'[b] = run[b] \/ (b \in Threads /\ call[b].at = "none" /\ run[b].at \in {"none", "gone"})
  <2>1. CASE b \in FreeThreads
    BY <1>1, <2>1 DEF FreeThreads, AgreesOn
  <2>2. CASE run[b].at = "gone" /\ b \in macro[call[a].m].handles
    <3>1. macro[call[a].m].handles \subseteq Threads
      BY InFrame, MemberType DEF FrameInv, CallR
    <3> QED BY <1>1, <2>2, <3>1 DEF AgreesOn
  <2> QED BY <1>1, <2>1, <2>2 DEF OthersEffect, ThreadEffect
<1>4. CASE call'[b] = call[b]
  BY <1>1, <1>2, <1>3, <1>4 DEF AgreesOn
<1>5. CASE BeginsReset(a, b)
  BY <1>1, <1>2, <1>3, <1>5 DEF AgreesOn, BeginsReset
<1> QED BY <1>1, <1>4, <1>5 DEF OthersEffect, CallsOfOthers, BeginsReset

LEMMA InvokeAgrees ==
  ASSUME FrameInv, NEW c \in Clients, NEW m \in Macros, NEW o \in Ops[c], InvokeEffect(c, m, o),
         NEW b \in Actors
  PROVE  AgreesOn(b)'
<1>1. AgreesOn(b) /\ c \notin Threads /\ c \notin Resets
  BY ActorsAssumption DEF FrameInv, FramesOK, AgreesOn
<1> QED BY <1>1, EmptyFrames DEF InvokeEffect, AgreesOn, CallsOfOthers, RunsOfOthers

LEMMA FrameKept ==
  ASSUME FrameInv, [Next]_vars
  PROVE  FrameInv'
<1>1. TypeOK'
  BY NextTyped DEF FrameInv
<1>2. ASSUME NEW b \in Actors PROVE AgreesOn(b)'
  <2>1. CASE UNCHANGED vars
    BY <2>1 DEF vars, FrameInv, FramesOK, AgreesOn
  <2>2. ASSUME NEW a \in Actors, Effects(a) PROVE AgreesOn(b)'
    BY <2>2, OwnAgrees, OthersAgree
  <2>3. ASSUME NEW c \in Clients, NEW m \in Macros, NEW o \in Ops[c], InvokeEffect(c, m, o)
        PROVE  AgreesOn(b)'
    BY <2>3, InvokeAgrees
  <2> QED BY <2>1, <2>2, <2>3, NextEffects DEF Moves
<1> QED BY <1>1, <1>2 DEF FrameInv, FramesOK, AgreesOn

LEMMA FrameInitially ==
  ASSUME Init
  PROVE  FrameInv
<1>1. \A a \in Actors : call[a].at = "none" /\ run[a].at = "none"
  BY EmptyFrames DEF Init
<1> QED BY <1>1, InitTyped DEF FrameInv, FramesOK, AgreesOn

-----------------------------------------------------------------------------
(* Which call is at which place. *)

ClearingLabels == {"clear", "wait", "join", "erase"}
StickyLabels   == {"disable", "unregister", "sticky", "unset", "drainAgain", "waited", "forget"}
OpOK(a) == LET f == call[a] IN
  /\ f.at \in {"interrupt", "compare", "write", "detach"} => f.op = "setInterruptor"
  /\ f.at = "apply" => f.op \in {"setInterruptor", "copy"}
  /\ f.at \in {"reset", "drain", "resetting", "restore"} => f.op = "reset"
  /\ f.at \in StickyLabels => f.op \in {"copy", "destroy"}
  /\ f.at \in ClearingLabels => f.op \in {"copy", "destroy", "reset"}
  /\ f.at = "assign" => f.op = "copy"
  /\ f.at = "start" \/ f.at \in InSection => f.op = "start"
  /\ f.at = "limit" => f.op \in {"start", "setThreadMax", "copy"}
  /\ f.at \in {"setSignals", "setThreadMax", "setSticky"} => f.op = f.at
  /\ f.at = "detach" \/ f.spawn => f.op = "setInterruptor" /\ f.val = INTERRUPT_ALL
  /\ f.at # "none" /\ f.op = "reset" => a \in Resets
  /\ f.at # "none" /\ a \in Resets => f.op \in {"reset", "setInterruptor"}
OpsOK == \A a \in Actors : OpOK(a)

HeldOK    == \A m \in Macros, a \in Actors : Holds(a, m) => macro[m].mutex = a
HandlesOK == \A m \in Macros : \A t \in macro[m].handles : run[t].m = m /\ run[t].at # "none"

(* Where the calls begin. *)
LEMMA EntryPlaces ==
  ASSUME NEW name \in OpNames \ {"run"}
  PROVE  \/ EntryOf(name) = "interrupt" /\ name = "setInterruptor"
         \/ EntryOf(name) = "disable" /\ name \in {"copy", "destroy"}
         \/ EntryOf(name) = name /\ name \in {"start", "setSignals", "setThreadMax", "setSticky"}
BY DEF OpNames, SignalNames, EntryOf

(* A run calls setInterruptor(), or a signal calls what it is made for. *)
LEMMA BegunCalls ==
  ASSUME NEW a, Begins(a)
  PROVE  \E o : /\ call'[a] = CallOf(EntryOf(o.name), run[a].m, o.name, o.val)
                /\ o.name \in SignalNames \ {"send"}
<1>1. CASE call'[a] = CallOf("interrupt", run[a].m, "setInterruptor", CONTINUE)
  <2> DEFINE o == [name |-> "setInterruptor", val |-> CONTINUE]
  <2>1. o.name = "setInterruptor" /\ o.val = CONTINUE
    OBVIOUS
  <2>2. EntryOf("setInterruptor") = "interrupt" /\ "setInterruptor" \in SignalNames \ {"send"}
    BY DEF EntryOf, SignalNames
  <2> HIDE DEF o
  <2> QED BY <1>1, <2>1, <2>2
<1>2. ASSUME NEW n \in DOMAIN SignalLists, NEW i \in 1 .. Len(SignalLists[n]),
             SignalLists[n][i].name # "send",
             call'[a] = CallOf(EntryOf(SignalLists[n][i].name), run[a].m,
                               SignalLists[n][i].name, SignalLists[n][i].val)
      PROVE  \E o : /\ call'[a] = CallOf(EntryOf(o.name), run[a].m, o.name, o.val)
                    /\ o.name \in SignalNames \ {"send"}
  <2>1. SignalLists[n][i].name \in SignalNames
    BY SignalListsAssumption DEF LegalCall
  <2> QED BY <1>2, <2>1
<1> QED BY <1>1, <1>2 DEF Begins

LEMMA InvokedNames ==
  ASSUME NEW c \in Clients, NEW o \in Ops[c]
  PROVE  o.name \in OpNames
BY OpsAssumption DEF LegalCall

LEMMA OwnOp ==
  ASSUME FrameInv, OpsOK, NEW a \in Actors, Effects(a)
  PROVE  OpOK(a)'
<1> USE DEF OpOK, InSection, StickyLabels, ClearingLabels
<1>1. OpOK(a) /\ CallEffect(a)
  BY DEF OpsOK, Effects
<1>2. CASE Remains(a)
  BY <1>1, <1>2 DEF Remains
<1>3. CASE Returns(a)
  BY <1>3, EmptyFrames DEF Returns
<1>4. CASE call[a].at # "none" /\ MovesTo(a)
  <2>1. call'[a].op = call[a].op /\ Goes(call[a], call'[a], macro[call[a].m], macro'[call[a].m], a)
    BY <1>4 DEF MovesTo
  <2>0. call'[a].at = "detach" \/ call'[a].spawn =>
          call'[a].op = "setInterruptor" /\ call'[a].val = INTERRUPT_ALL
    BY <1>1, <1>4 DEF MovesTo, Goes
  <2>2. /\ call'[a].at \in {"interrupt", "compare", "write", "detach"} => call'[a].op = "setInterruptor"
        /\ call'[a].at = "apply" => call'[a].op \in {"setInterruptor", "copy"}
    BY <1>1, <2>1 DEF Goes
  <2>3. call'[a].at \in {"reset", "drain", "resetting", "restore"} => call'[a].op = "reset"
    BY <1>1, <2>1 DEF Goes
  <2>4. call'[a].at \in StickyLabels => call'[a].op \in {"copy", "destroy"}
    BY <1>1, <2>1 DEF Goes
  <2>5. /\ call'[a].at \in ClearingLabels => call'[a].op \in {"copy", "destroy", "reset"}
        /\ call'[a].at = "assign" => call'[a].op = "copy"
    BY <1>1, <2>1 DEF Goes
  <2>6. /\ call'[a].at = "start" \/ call'[a].at \in InSection => call'[a].op = "start"
        /\ call'[a].at = "limit" => call'[a].op \in {"start", "setThreadMax", "copy"}
        /\ call'[a].at \notin {"setSignals", "setThreadMax", "setSticky"}
    BY <1>1, <2>1 DEF Goes
  <2> QED BY <1>1, <1>4, <2>0, <2>1, <2>2, <2>3, <2>4, <2>5, <2>6
<1>5. CASE Restores(a)
  BY <1>1, <1>5, EmptyFrames DEF Restores
<1>6. CASE Begins(a)
  <2>1. PICK o : /\ call'[a] = CallOf(EntryOf(o.name), run[a].m, o.name, o.val)
                 /\ o.name \in SignalNames \ {"send"}
    BY <1>6, BegunCalls
  <2>2. o.name \in OpNames \ {"run"} /\ o.name # "destroy"
    BY <2>1 DEF OpNames, SignalNames
  <2>3. call'[a].at = EntryOf(o.name) /\ call'[a].op = o.name /\ ~call'[a].spawn
    BY <2>1, EmptyFrames
  <2>4. a \notin Resets
    BY <1>6 DEF Begins, FrameInv, FramesOK, AgreesOn
  <2> QED BY <2>2, <2>3, <2>4, EntryPlaces
<1> QED BY <1>1, <1>2, <1>3, <1>4, <1>5, <1>6 DEF CallEffect

LEMMA InvokedOp ==
  ASSUME FrameInv, OpsOK, NEW c \in Clients, NEW m \in Macros, NEW o \in Ops[c],
         InvokeEffect(c, m, o)
  PROVE  OpOK(c)'
<1>1. c \in Actors /\ c \notin Resets /\ OpOK(c)
  BY ActorsAssumption DEF Actors, OpsOK
<1>2. CASE o.name = "run"
  BY <1>1, <1>2 DEF InvokeEffect, OpOK
<1>3. CASE o.name # "run"
  <2>1. o.name \in OpNames \ {"run"}
    BY <1>3, InvokedNames
  <2>2. EntryOf("destroy") = "disable"
    BY DEF EntryOf
  <2>3. call'[c].at = EntryOf(o.name) /\ call'[c].op = o.name /\ ~call'[c].spawn
    BY <1>3, <2>2, EmptyFrames DEF InvokeEffect
  <2> QED BY <1>1, <2>1, <2>3, EntryPlaces
          DEF OpOK, InSection, StickyLabels, ClearingLabels, OpNames, SignalNames
<1> QED BY <1>2, <1>3

LEMMA OpsKept ==
  ASSUME FrameInv, OpsOK, [Next]_vars
  PROVE  OpsOK'
<1> SUFFICES ASSUME NEW b \in Actors PROVE OpOK(b)'
  BY DEF OpsOK
<1>1. OpOK(b)
  BY DEF OpsOK
<1>2. CASE UNCHANGED vars
  BY <1>1, <1>2 DEF vars, OpOK
<1>3. CASE call'[b] = call[b]
  BY <1>1, <1>3 DEF OpOK
<1>4. ASSUME NEW a \in Actors, Effects(a) PROVE OpOK(b)'
  <2>1. CASE a = b
    BY <1>4, <2>1, OwnOp
  <2>2. CASE BeginsReset(a, b)
    BY <2>2, EmptyFrames DEF BeginsReset, OpOK, InSection, StickyLabels, ClearingLabels
  <2> QED BY <1>3, <1>4, <2>1, <2>2 DEF Effects, OthersEffect, CallsOfOthers, BeginsReset
<1>5. ASSUME NEW c \in Clients, NEW m \in Macros, NEW o \in Ops[c], InvokeEffect(c, m, o)
      PROVE  OpOK(b)'
  BY <1>3, <1>5, InvokedOp DEF InvokeEffect, CallsOfOthers
<1> QED BY <1>2, <1>4, <1>5, NextEffects DEF Moves

-----------------------------------------------------------------------------
(* Only the actor in a section of start() or pauseLoop() has its mutex. *)

LEMMA OwnHeld ==
  ASSUME FrameInv, HeldOK, NEW a \in Actors, Effects(a), NEW m \in Macros, Holds(a, m)'
  PROVE  macro'[m].mutex = a
<1>1. AgreesOn(a) /\ CallEffect(a) /\ RunEffect(a)
  BY DEF FrameInv, FramesOK, Effects
<1>2. CASE call'[a].at \in InSection /\ call'[a].m = m
  <2>1. ~Remains(a) /\ ~Returns(a) /\ ~Restores(a)
    BY <1>2, EmptyFrames DEF Remains, Returns, Restores, InSection
  <2>2. ~Begins(a)
    <3>1. ASSUME Begins(a) PROVE FALSE
      <4>1. PICK o : /\ call'[a] = CallOf(EntryOf(o.name), run[a].m, o.name, o.val)
                     /\ o.name \in SignalNames \ {"send"}
        BY <3>1, BegunCalls
      <4>2. o.name \in OpNames \ {"run"}
        BY <4>1 DEF OpNames, SignalNames
      <4> QED BY <1>2, <4>1, <4>2, EmptyFrames, EntryPlaces DEF InSection
    <3> QED BY <3>1
  <2>3. MovesTo(a)
    BY <1>1, <2>1, <2>2 DEF CallEffect
  <2>4. call[a].m = m /\ Goes(call[a], call'[a], macro[m], macro'[m], a)
    BY <1>2, <2>3 DEF MovesTo
  <2>5. \/ macro'[m].mutex = a
        \/ call[a].at \in InSection /\ macro'[m].mutex = macro[m].mutex
    BY <1>2, <2>4 DEF Goes, InSection
  <2> QED BY <2>4, <2>5 DEF HeldOK, Holds
<1>3. CASE run'[a].at = "block" /\ run'[a].m = m
  BY <1>1, <1>3, EmptyFrames DEF RunEffect, AgreesOn
<1> QED BY <1>2, <1>3 DEF Holds

LEMMA OthersHeld ==
  ASSUME FrameInv, HeldOK, NEW a \in Actors, Effects(a), NEW b \in Actors \ {a},
         NEW m \in Macros, Holds(b, m)'
  PROVE  macro'[m].mutex = b
<1>1. OthersEffect(a) /\ MemberEffect(a, m)
  BY DEF Effects, MacroEffect
<1>2. call'[b].at \in InSection => call'[b] = call[b]
  BY <1>1, EmptyFrames DEF OthersEffect, CallsOfOthers, BeginsReset, InSection
<1>3. run'[b].at = "block" => run'[b] = run[b]
  BY <1>1, EmptyFrames DEF OthersEffect, ThreadEffect
<1>4. Holds(b, m)
  BY <1>2, <1>3 DEF Holds
<1>5. macro[m].mutex = b /\ b # NoOne
  BY <1>4, ActorsAssumption DEF HeldOK
<1>6. ~Holds(a, m)
  BY <1>5 DEF HeldOK
<1> QED BY <1>1, <1>5, <1>6 DEF MemberEffect, WritesMutex

LEMMA InvokeHeld ==
  ASSUME FrameInv, HeldOK, NEW c \in Clients, NEW n \in Macros, NEW o \in Ops[c],
         InvokeEffect(c, n, o), NEW b \in Actors, NEW m \in Macros, Holds(b, m)'
  PROVE  macro'[m].mutex = b
<1>1. macro'[m].mutex = macro[m].mutex
  BY DEF InvokeEffect, FrameInv, TypeOK, MacrosOK, MacroRecord
<1>2. call'[b].at \in InSection => call'[b] = call[b]
  <2>1. CASE b # c
    BY <2>1 DEF InvokeEffect, CallsOfOthers
  <2>2. CASE b = c /\ o.name # "run" /\ o.name # "destroy"
    <3>1. o.name \in OpNames \ {"run"}
      BY <2>2, InvokedNames
    <3> QED BY <2>2, <3>1, EmptyFrames, EntryPlaces DEF InvokeEffect, InSection
  <2>3. CASE b = c /\ o.name \in {"run", "destroy"}
    BY <2>3, EmptyFrames DEF InvokeEffect, InSection
  <2> QED BY <2>1, <2>2, <2>3
<1>3. run'[b].at = "block" => run'[b] = run[b]
  BY EmptyFrames DEF InvokeEffect, RunsOfOthers
<1>4. Holds(b, m)
  BY <1>2, <1>3 DEF Holds
<1> QED BY <1>1, <1>4 DEF HeldOK

LEMMA HeldKept ==
  ASSUME FrameInv, HeldOK, [Next]_vars
  PROVE  HeldOK'
<1> SUFFICES ASSUME NEW m \in Macros, NEW b \in Actors, Holds(b, m)' PROVE macro'[m].mutex = b
  BY DEF HeldOK
<1>1. CASE UNCHANGED vars
  BY <1>1 DEF vars, HeldOK, Holds
<1>2. ASSUME NEW a \in Actors, Effects(a) PROVE macro'[m].mutex = b
  BY <1>2, OwnHeld, OthersHeld
<1>3. ASSUME NEW c \in Clients, NEW n \in Macros, NEW o \in Ops[c], InvokeEffect(c, n, o)
      PROVE  macro'[m].mutex = b
  BY <1>3, InvokeHeld
<1> QED BY <1>1, <1>2, <1>3, NextEffects DEF Moves

-----------------------------------------------------------------------------
(* A handle of a macro is the handle of a thread that runs it or has. *)

LEMMA OwnHandles ==
  ASSUME FrameInv, HandlesOK, NEW a \in Actors, Effects(a), NEW m \in Macros,
         NEW t \in macro'[m].handles
  PROVE  run'[t].m = m /\ run'[t].at # "none"
<1>1. /\ MemberEffect(a, m) /\ OthersEffect(a) /\ RunEffect(a)
      /\ call[a].m \in Macros /\ \A k \in Macros : macro[k].handles \subseteq Threads
  BY DEF Effects, MacroEffect, FrameInv, TypeOK, MacrosOK, MacroRecord, CallsOK, CallFrame
<1>2. CASE t \notin macro[m].handles
  BY <1>1, <1>2, EmptyFrames DEF MemberEffect, WritesHandles
<1>3. CASE t \in macro[m].handles
  <2>1. run[t].m = m /\ run[t].at # "none" /\ t \in Actors
    BY <1>1, <1>3 DEF HandlesOK, Actors
  <2>2. CASE t = a
    <3>1. CASE run'[a] = Ending(a)
      <4>1. run'[a] = [at |-> "gone", m |-> m, i |-> 1]
        BY <1>3, <2>1, <2>2, <3>1 DEF Ending, RunR, RunM
      <4> QED BY <2>2, <4>1
    <3> QED BY <1>1, <2>1, <2>2, <3>1 DEF RunEffect
  <2>3. CASE t # a
    <3>1. ThreadEffect(a, t)
      BY <1>1, <2>1, <2>3 DEF OthersEffect
    <3>2. CASE t \in FreeThreads
      BY <2>1, <3>2 DEF FreeThreads
    <3>3. CASE t \in macro[call[a].m].handles /\ macro'[call[a].m].handles = {}
      BY <1>1, <2>1, <3>3 DEF HandlesOK
    <3> QED BY <2>1, <3>1, <3>2, <3>3 DEF ThreadEffect
  <2> QED BY <2>2, <2>3
<1> QED BY <1>2, <1>3

LEMMA HandlesKept ==
  ASSUME FrameInv, HandlesOK, [Next]_vars
  PROVE  HandlesOK'
<1> SUFFICES ASSUME NEW m \in Macros, NEW t \in macro'[m].handles
             PROVE  run'[t].m = m /\ run'[t].at # "none"
  BY DEF HandlesOK
<1>1. CASE UNCHANGED vars
  BY <1>1 DEF vars, HandlesOK
<1>2. ASSUME NEW a \in Actors, Effects(a) PROVE run'[t].m = m /\ run'[t].at # "none"
  BY <1>2, OwnHandles
<1>3. ASSUME NEW c \in Clients, NEW n \in Macros, NEW o \in Ops[c], InvokeEffect(c, n, o)
      PROVE  run'[t].m = m /\ run'[t].at # "none"
  <2>1. macro'[m].handles = macro[m].handles /\ macro[m].handles \subseteq Threads
    BY <1>3 DEF InvokeEffect, FrameInv, TypeOK, MacrosOK, MacroRecord
  <2>2. t \in Actors /\ t # c
    BY <2>1, ActorsAssumption DEF Actors
  <2> QED BY <1>3, <2>1, <2>2 DEF InvokeEffect, RunsOfOthers, HandlesOK
<1> QED BY <1>1, <1>2, <1>3, NextEffects DEF Moves

-----------------------------------------------------------------------------
(* Where the calls come from: a client's own, a signal's, one that run() or *)
(* a reset thread makes to go on with CONTINUE, or a reset thread itself.   *)

Called == UNION {Ops[c] : c \in Clients}
Sent   == UNION {{SignalLists[n][i] : i \in 1 .. Len(SignalLists[n])} : n \in DOMAIN SignalLists}

Own(a)    == a \in Clients /\ run[a].at = "none"
Makes(f, o) == f.op = o.name /\ f.val = o.val

CameFrom(a) == call[a].at # "none" =>
  \/ call[a].op = "reset" /\ a \in Resets
  \/ call[a].op = "setInterruptor" /\ call[a].val = CONTINUE
  \/ Own(a) /\ \E o \in Ops[a] : Makes(call[a], o)
  \/ run[a].at = "send" /\ \E o \in Sent : Makes(call[a], o)
Provenance == \A a \in Actors : CameFrom(a)

LEMMA OwnCameFrom ==
  ASSUME FrameInv, Provenance, NEW a \in Actors, Effects(a)
  PROVE  CameFrom(a)'
<1>1. CameFrom(a) /\ CallEffect(a) /\ RunEffect(a)
  BY DEF Provenance, Effects
<1>2. CASE call'[a] = NoCall
  BY <1>2, EmptyFrames DEF CameFrom
<1>3. CASE call[a].at = "none" /\ call'[a] = call[a]
  BY <1>3 DEF CameFrom
<1>4. CASE /\ call[a].at # "none" /\ call'[a].at # "none"
           /\ call'[a].op = call[a].op /\ call'[a].val = call[a].val
  <2>1. run'[a] = run[a]
    BY <1>1, <1>4, EmptyFrames DEF RunEffect
  <2> QED BY <1>1, <1>4, <2>1 DEF CameFrom, Own, Makes
<1>5. CASE MovesTo(a) /\ call[a].at # "none"
  <2>1. call'[a].at # "none"
    BY <1>5 DEF MovesTo, Goes
  <2> QED BY <1>4, <1>5, <2>1 DEF MovesTo
<1>6. CASE Restores(a)
  BY <1>6, EmptyFrames DEF Restores, CameFrom
<1>7. CASE Begins(a)
  <2>1. CASE call'[a] = CallOf("interrupt", run[a].m, "setInterruptor", CONTINUE)
    BY <2>1, EmptyFrames DEF CameFrom
  <2>2. ASSUME NEW n \in DOMAIN SignalLists, NEW i \in 1 .. Len(SignalLists[n]),
               run'[a].at = "send",
               call'[a] = CallOf(EntryOf(SignalLists[n][i].name), run[a].m,
                                 SignalLists[n][i].name, SignalLists[n][i].val)
        PROVE  CameFrom(a)'
    <3>1. SignalLists[n][i] \in Sent
      BY DEF Sent
    <3>2. Makes(call'[a], SignalLists[n][i])
      BY <2>2, EmptyFrames DEF Makes
    <3> QED BY <2>2, <3>1, <3>2 DEF CameFrom
  <2> QED BY <1>7, <2>1, <2>2 DEF Begins
<1> QED BY <1>1, <1>2, <1>3, <1>4, <1>5, <1>6, <1>7 DEF CallEffect, Remains, Returns

(* The frames of the others: nothing happens to one that is at work. *)
LEMMA OthersFrames ==
  ASSUME FrameInv, NEW a \in Actors, OthersEffect(a), NEW b \in Actors \ {a}
  PROVE  /\ \/ call'[b] = call[b]
            \/ call[b].at = "none" /\ BeginsReset(a, b)
         /\ \/ run'[b] = run[b]
            \/ /\ call[b].at = "none" /\ run[b].at \in {"none", "gone"} /\ b \in Threads
               /\ run'[b] = NoFrame \/ run'[b] = Entered(call[a].m)
         /\ call[b].at # "none" => call'[b] = call[b] /\ run'[b] = run[b]
         /\ run[b].at \notin {"none", "gone"} => call'[b] = call[b] /\ run'[b] = run[b]
<1>1. AgreesOn(b)
  BY DEF FrameInv, FramesOK
<1>2. call'[b] = call[b] \/ (call[b].at = "none" /\ b \in Resets /\ BeginsReset(a, b))
  BY DEF OthersEffect, CallsOfOthers, BeginsReset
<1>3. macro[call[a].m].handles \subseteq Threads
  BY InFrame, MemberType DEF FrameInv, CallR
<1>4. \/ run'[b] = run[b]
      \/ /\ call[b].at = "none" /\ run[b].at \in {"none", "gone"} /\ b \in Threads
         /\ run'[b] = NoFrame \/ run'[b] = Entered(call[a].m)
  <2>1. ThreadEffect(a, b)
    BY DEF OthersEffect
  <2>2. CASE b \in FreeThreads /\ run'[b] = Entered(call[a].m)
    BY <1>1, <2>2 DEF FreeThreads, AgreesOn
  <2>3. CASE run[b].at = "gone" /\ run'[b] = NoFrame /\ b \in macro[call[a].m].handles
    BY <1>1, <1>3, <2>3 DEF AgreesOn
  <2> QED BY <2>1, <2>2, <2>3 DEF ThreadEffect
<1> QED BY <1>1, <1>2, <1>4 DEF AgreesOn

LEMMA ProvenanceKept ==
  ASSUME FrameInv, Provenance, [Next]_vars
  PROVE  Provenance'
<1> SUFFICES ASSUME NEW b \in Actors PROVE CameFrom(b)'
  BY DEF Provenance
<1>1. CameFrom(b)
  BY DEF Provenance
<1>2. CASE UNCHANGED vars
  BY <1>1, <1>2 DEF vars, CameFrom, Own, Makes
<1>3. CASE call[b].at = "none" /\ call'[b] = call[b]
  BY <1>3 DEF CameFrom
<1>4. CASE call'[b] = call[b] /\ run'[b] = run[b]
  BY <1>1, <1>4 DEF CameFrom, Own, Makes
<1>5. ASSUME NEW a \in Actors, Effects(a) PROVE CameFrom(b)'
  <2>1. CASE a = b
    BY <1>5, <2>1, OwnCameFrom
  <2>2. CASE a # b
    <3>1. CASE BeginsReset(a, b)
      BY <3>1, EmptyFrames DEF BeginsReset, CameFrom
    <3> QED BY <1>3, <1>4, <1>5, <2>2, <3>1, OthersFrames DEF Effects
  <2> QED BY <2>1, <2>2
<1>6. ASSUME NEW c \in Clients, NEW m \in Macros, NEW o \in Ops[c], InvokeEffect(c, m, o)
      PROVE  CameFrom(b)'
  <2>1. CASE b # c
    BY <1>4, <1>6, <2>1 DEF InvokeEffect, CallsOfOthers, RunsOfOthers
  <2>2. CASE b = c /\ o.name = "run"
    BY <1>3, <1>6, <2>2 DEF InvokeEffect
  <2>3. CASE b = c /\ o.name # "run"
    <3>1. Makes(call'[c], o)
      BY <1>6, <2>3, EmptyFrames DEF InvokeEffect, Makes
    <3>2. Own(c)'
      BY <1>6, <2>3 DEF InvokeEffect, Own
    <3> QED BY <2>3, <3>1, <3>2 DEF CameFrom
  <2> QED BY <2>1, <2>2, <2>3
<1> QED BY <1>2, <1>5, <1>6, NextEffects DEF Moves

-----------------------------------------------------------------------------
StructInv == FrameInv /\ OpsOK /\ HeldOK /\ HandlesOK /\ Provenance

LEMMA StructKept ==
  ASSUME StructInv, [Next]_vars
  PROVE  StructInv'
BY FrameKept, OpsKept, HeldKept, HandlesKept, ProvenanceKept DEF StructInv

LEMMA StructInitially ==
  ASSUME Init
  PROVE  StructInv
<1>1. \A a \in Actors : call[a].at = "none" /\ run[a].at = "none"
  BY EmptyFrames DEF Init
<1>2. \A m \in Macros : macro[m].handles = {}
  BY DEF Init, NewMacro
<1>0. \A a \in Actors : call[a].spawn = FALSE
  BY EmptyFrames DEF Init
<1>3. OpsOK
  BY <1>0, <1>1 DEF OpsOK, OpOK, InSection, StickyLabels, ClearingLabels
<1>4. HeldOK /\ HandlesOK
  BY <1>1, <1>2 DEF HeldOK, Holds, InSection, HandlesOK
<1>5. Provenance
  BY <1>1 DEF Provenance, CameFrom
<1> QED BY <1>3, <1>4, <1>5, FrameInitially DEF StructInv

(* What a client that calls a macro leaves of the macros. *)
LEMMA InvokeKeeps ==
  ASSUME FrameInv, NEW c \in Clients, NEW n \in Macros, NEW o \in Ops[c], InvokeEffect(c, n, o)
  PROVE  /\ \A m \in Macros :
              /\ macro'[m].interruptor = macro[m].interruptor
              /\ macro'[m].registered = macro[m].registered
              /\ macro'[m].handles = macro[m].handles
              /\ macro'[m].life # macro[m].life =>
                   m = n /\ o.name = "destroy" /\ macro'[m].life = "dying"
         /\ o.name = "destroy" => macro'[n].life = "dying"
<1>1. CASE o.name # "destroy"
  BY <1>1 DEF InvokeEffect
<1>2. CASE o.name = "destroy"
  <2> DEFINE r == [macro[n] EXCEPT !.life = "dying"]
  <2>1. macro[n] \in MacroRecord
    BY DEF FrameInv, TypeOK, MacrosOK
  <2>2. r.life = "dying" /\ r.interruptor = macro[n].interruptor /\ r.handles = macro[n].handles
    BY <2>1 DEF MacroRecord
  <2>3. r.registered = macro[n].registered
    BY <2>1 DEF MacroRecord
  <2>4. macro' = [macro EXCEPT ![n] = r]
    BY <1>2 DEF InvokeEffect
  <2> HIDE DEF r
  <2>5. macro'[n] = r /\ \A m \in Macros \ {n} : macro'[m] = macro[m]
    BY <2>4 DEF FrameInv, TypeOK, MacrosOK
  <2> QED BY <1>2, <2>2, <2>3, <2>5
<1> QED BY <1>1, <1>2

LEMMA StructAlways == Spec => []StructInv
<1>1. Init => StructInv
  BY StructInitially
<1>2. StructInv /\ [Next]_vars => StructInv'
  BY StructKept
<1> QED BY <1>1, <1>2, PTL DEF Spec

-----------------------------------------------------------------------------
(* The calls that programs do not make. *)
AsksReset(o)  == o.name = "setInterruptor" /\ o.val = INTERRUPT_ALL
NobodyResets  == Resets = {} \/ \A o \in Called \cup Sent : ~AsksReset(o)
NobodyCopies  == \A o \in Called \cup Sent : o.name # "copy"
NobodyClears  == \A o \in Called \cup Sent : o.name \notin {"copy", "destroy"}

NoResetsNow == \A a \in Actors : call[a].at # "none" => call[a].op # "reset"

(* What was asked for was asked for by a client or by a signal. *)
LEMMA AskedFor ==
  ASSUME StructInv, NEW a \in Actors, call[a].at # "none", call[a].op # "reset",
         ~(call[a].op = "setInterruptor" /\ call[a].val = CONTINUE)
  PROVE  \/ Own(a) /\ \E o \in Ops[a] : o \in Called /\ Makes(call[a], o)
         \/ run[a].at = "send" /\ \E o \in Sent : Makes(call[a], o)
<1>1. CameFrom(a)
  BY DEF StructInv, Provenance
<1>2. Own(a) => \A o \in Ops[a] : o \in Called
  BY DEF Own, Called
<1> QED BY <1>1, <1>2 DEF CameFrom

LEMMA NoResetsKept ==
  ASSUME NobodyResets, StructInv, NoResetsNow, [Next]_vars
  PROVE  NoResetsNow'
<1> SUFFICES ASSUME NEW b \in Actors, call'[b].at # "none", call'[b].op = "reset" PROVE FALSE
  BY DEF NoResetsNow
<1>1. CASE call'[b] = call[b]
  BY <1>1 DEF NoResetsNow
<1>2. ASSUME NEW a \in Actors, Effects(a) PROVE FALSE
  <2>1. ASSUME BeginsReset(a, b) PROVE FALSE
    <3>1. /\ call[a].at = "detach" /\ b \in Resets
          /\ call[a].op = "setInterruptor" /\ call[a].val = INTERRUPT_ALL
      BY <2>1 DEF BeginsReset, StructInv, OpsOK, OpOK
    <3>2. \E o \in Called \cup Sent : Makes(call[a], o)
      BY <3>1, AskedFor DEF CONTINUE, INTERRUPT_ALL
    <3> QED BY <3>1, <3>2 DEF NobodyResets, AsksReset, Makes
  <2>2. CASE a # b
    BY <1>1, <1>2, <2>1, <2>2, OthersFrames DEF Effects, StructInv
  <2>3. CASE a = b
    <3>1. CASE Begins(a)
      BY <2>3, <3>1, BegunCalls, EmptyFrames DEF SignalNames
    <3> QED BY <1>1, <1>2, <2>3, <3>1, EmptyFrames
            DEF Effects, CallEffect, Remains, Returns, MovesTo, Restores, NoResetsNow
  <2> QED BY <2>2, <2>3
<1>3. ASSUME NEW c \in Clients, NEW m \in Macros, NEW o \in Ops[c], InvokeEffect(c, m, o)
      PROVE  FALSE
  <2>1. o.name # "reset"
    BY InvokedNames DEF OpNames, SignalNames
  <2> QED BY <1>1, <1>3, <2>1, EmptyFrames DEF InvokeEffect, CallsOfOthers
<1> QED BY <1>1, <1>2, <1>3, NextEffects DEF Moves, vars, StructInv

-----------------------------------------------------------------------------
(***************************************************************************)
(* No run sleeps through the end of a pause.  dequeue() of a reset thread  *)
(* or of the destructor writes and notifies without _mutex, and a run on   *)
(* its way to sleep misses that; the macro is interrupted or disabled then.*)
(* Whoever lets the macro go on afterwards does it with _mutex and         *)
(* notifies, but for copy(), which does not notify.                        *)
(***************************************************************************)
GoesOn(r) == r.interruptor \in {CONTINUE, INTERRUPT}

(* Who is blocked in the condition variable waits for threads to end or for *)
(* the end of a pause.                                                      *)
WaitsFor(a, m) ==
  \/ call[a].at = "wait" /\ call[a].m = m
  \/ call[a].at = "none" /\ run[a].at = "pausing" /\ run[a].m = m
WaitPlaces == \A m \in Macros : \A a \in macro[m].waiting : WaitsFor(a, m)

(* Between its test and its wait a run has _mutex, so that nobody lets the  *)
(* macro go on; and nobody does so later without the notification.          *)
BlockHalted    == \A a \in Actors : run[a].at = "block" => ~GoesOn(macro[run[a].m])
SleepersHalted == \A m \in Macros : \A a \in macro[m].waiting :
  call[a].at = "none" => ~GoesOn(macro[m])

ResumeInv == StructInv /\ WaitPlaces /\ BlockHalted /\ SleepersHalted

(* Who lets a macro go on has _mutex at that moment, and notifies. *)
LEMMA LetsGoOn ==
  ASSUME NobodyCopies, StructInv, NEW a \in Actors, NEW m \in Macros, MemberEffect(a, m),
         GoesOn(macro'[m])
  PROVE  \/ macro'[m].interruptor = macro[m].interruptor
         \/ /\ macro'[m].waiting = {}
            /\ macro[m].mutex = NoOne \/ (macro[m].mutex = a /\ call[a].at # "none")
<1>1. OpOK(a) /\ HeldOK
  BY DEF StructInv, OpsOK
<1>2. call[a].at # "assign"
  BY <1>1, AskedFor DEF OpOK, Makes, NobodyCopies
<1>3. ClearType(a) \notin {CONTINUE, INTERRUPT}
  BY DEF ClearType, CONTINUE, INTERRUPT, INTERRUPT_ALL, DISABLE
<1>4. CASE call[a].at = "resume" /\ WritesInterruptor(a, m)
  <2>1. Holds(a, m)
    BY <1>4 DEF WritesInterruptor, Holds, InSection
  <2> QED BY <1>1, <1>4, <2>1 DEF WritesInterruptor, HeldOK, Dequeues
<1>5. CASE call[a].at = "write" /\ WritesInterruptor(a, m)
  BY <1>5 DEF WritesInterruptor, Dequeues
<1> QED BY <1>2, <1>3, <1>4, <1>5 DEF MemberEffect, WritesInterruptor, GoesOn

LEMMA StepWaitPlaces ==
  ASSUME ResumeInv, NEW a \in Actors, Effects(a)
  PROVE  WaitPlaces'
<1> SUFFICES ASSUME NEW m \in Macros, NEW b \in macro'[m].waiting
             PROVE  WaitsFor(b, m)'
  BY DEF WaitPlaces
<1>1. /\ CallEffect(a) /\ RunEffect(a) /\ OthersEffect(a) /\ FrameInv /\ OpOK(a)
      /\ MemberEffect(a, m) /\ AgreesOn(a)
  BY DEF Effects, MacroEffect, ResumeInv, StructInv, OpsOK, FrameInv, FramesOK
<1>2. CASE b \in macro[m].waiting
  <2>1. b \in Actors /\ WaitsFor(b, m)
    BY <1>1, <1>2 DEF ResumeInv, WaitPlaces, FrameInv, TypeOK, MacrosOK, MacroRecord
  <2>2. CASE a # b
    <3>1. \/ call[b].at = "wait" /\ call'[b] = call[b]
          \/ call[b].at = "none" /\ run[b].at = "pausing" /\ call'[b] = call[b] /\ run'[b] = run[b]
      BY <1>1, <2>1, <2>2, OthersFrames DEF WaitsFor
    <3> QED BY <2>1, <3>1 DEF WaitsFor
  <2>3. CASE a = b /\ call[a].at = "wait"
    <3>1. call[a].m = m
      BY <2>1, <2>3 DEF WaitsFor
    <3>2. ~MovesTo(a)
      BY <1>2, <2>3, <3>1 DEF MovesTo, Goes
    <3>3. call'[a] = call[a]
      BY <1>1, <2>3, <3>2 DEF CallEffect, Remains, Returns, Restores, Begins
    <3> QED BY <2>1, <2>3, <3>1, <3>3 DEF WaitsFor
  <2>4. CASE a = b /\ call[a].at # "wait"
    <3>1. call[a].at = "none" /\ run[a].at = "pausing" /\ run[a].m = m
      BY <2>1, <2>4 DEF WaitsFor
    <3> QED BY <1>1, <1>2, <2>4, <3>1 DEF RunEffect
  <2> QED BY <2>2, <2>3, <2>4
<1>3. CASE b \notin macro[m].waiting
  <2>1. b = a /\ Waits(a, m)
    BY <1>1, <1>3 DEF MemberEffect, Waits
  <2>2. CASE call[a].at = "wait" /\ call[a].m = m /\ call'[a] = call[a]
    BY <2>1, <2>2 DEF WaitsFor
  <2>3. CASE call[a].at = "none" /\ run[a].at = "block" /\ run[a].m = m
    <3>1. run'[a].at = "pausing" /\ run'[a].m = m
      BY <1>1, <2>3 DEF RunEffect
    <3>2. call'[a].at = "none"
      BY <1>1, <2>3 DEF CallEffect, Remains, Restores, Begins
    <3> QED BY <2>1, <3>1, <3>2 DEF WaitsFor
  <2> QED BY <2>1, <2>2, <2>3 DEF Waits
<1> QED BY <1>2, <1>3

LEMMA StepHalted ==
  ASSUME NobodyCopies, ResumeInv, NEW a \in Actors, Effects(a)
  PROVE  BlockHalted' /\ SleepersHalted'
<1>1. /\ CallEffect(a) /\ RunEffect(a) /\ OthersEffect(a) /\ FrameInv /\ AgreesOn(a)
      /\ StructInv /\ HeldOK /\ \A m \in Macros : MemberEffect(a, m)
  BY DEF Effects, MacroEffect, ResumeInv, StructInv, FrameInv, FramesOK
<1>2. BlockHalted'
  <2> SUFFICES ASSUME NEW b \in Actors, run'[b].at = "block", GoesOn(macro'[run'[b].m])
               PROVE  FALSE
    BY DEF BlockHalted, GoesOn
  <2>1. CASE run'[b] = run[b]
    <3> DEFINE m == run[b].m
    <3>1. m \in Macros /\ macro[m].mutex = b /\ macro[m].mutex # NoOne /\ AgreesOn(b)
      BY <1>1, <2>1, ActorsAssumption
         DEF HeldOK, Holds, FrameInv, FramesOK, TypeOK, RunsOK, RunFrame
    <3>2. macro'[m].interruptor # macro[m].interruptor
      BY <2>1 DEF ResumeInv, BlockHalted, GoesOn
    <3>3. a = b /\ call[a].at # "none"
      BY <1>1, <2>1, <3>1, <3>2, LetsGoOn
    <3> QED BY <2>1, <3>1, <3>3 DEF AgreesOn
  <2>2. CASE run'[b] # run[b]
    <3>1. b = a
      BY <1>1, <2>2, OthersFrames, EmptyFrames
    <3>2. /\ run'[a].m = run[a].m /\ Paused(macro[run[a].m]) /\ call[a].at = "none"
          /\ macro'[run[a].m].mutex # NoOne
      BY <1>1, <2>2, <3>1, EmptyFrames, ActorsAssumption DEF RunEffect
    <3>3. run[a].m \in Macros
      BY <1>1 DEF FrameInv, TypeOK, RunsOK, RunFrame
    <3>4. macro'[run[a].m].interruptor = macro[run[a].m].interruptor
      BY <1>1, <3>2, <3>3 DEF MemberEffect, WritesInterruptor, Dequeues
    <3> QED BY <3>1, <3>2, <3>4 DEF Paused, GoesOn, CONTINUE, PAUSE, INTERRUPT
  <2> QED BY <2>1, <2>2
<1>3. SleepersHalted'
  <2> SUFFICES ASSUME NEW m \in Macros, NEW b \in macro'[m].waiting, call'[b].at = "none",
                      GoesOn(macro'[m])
               PROVE  FALSE
    BY DEF SleepersHalted, GoesOn
  <2>1. macro'[m].interruptor = macro[m].interruptor
    BY <1>1, LetsGoOn
  <2>2. CASE b \in macro[m].waiting
    <3>1. b \in Actors /\ WaitsFor(b, m)
      BY <1>1, <2>2 DEF ResumeInv, WaitPlaces, FrameInv, TypeOK, MacrosOK, MacroRecord
    <3>2. call[b].at # "none"
      BY <2>1, <2>2 DEF ResumeInv, SleepersHalted, GoesOn
    <3>3. call[b].at = "wait" /\ call[b].m = m
      BY <3>1, <3>2 DEF WaitsFor
    <3>4. WaitsFor(b, m)'
      BY StepWaitPlaces DEF WaitPlaces
    <3>5. run[b].at # "pausing"
      BY <1>1, <3>1, <3>3 DEF FrameInv, FramesOK, AgreesOn
    <3>6. run'[b].at # "pausing"
      <4>1. CASE b = a
        BY <1>1, <3>3, <3>5, <4>1 DEF RunEffect
      <4>2. CASE b # a
        BY <1>1, <3>1, <3>3, <3>5, <4>2, OthersFrames
      <4> QED BY <4>1, <4>2
    <3> QED BY <3>4, <3>6 DEF WaitsFor
  <2>3. CASE b \notin macro[m].waiting
    <3>1. b = a /\ Waits(a, m)
      BY <1>1, <2>3 DEF MemberEffect, Waits
    <3>2. call[a].at = "none" /\ run[a].at = "block" /\ run[a].m = m
      BY <3>1 DEF Waits
    <3> QED BY <2>1, <3>2 DEF ResumeInv, BlockHalted, GoesOn
  <2> QED BY <2>2, <2>3
<1> QED BY <1>2, <1>3

LEMMA InvokeResume ==
  ASSUME ResumeInv, NEW c \in Clients, NEW n \in Macros, NEW o \in Ops[c],
         InvokeEffect(c, n, o)
  PROVE  WaitPlaces' /\ BlockHalted' /\ SleepersHalted'
<1>1. \A m \in Macros : /\ macro'[m].waiting = macro[m].waiting
                        /\ macro'[m].interruptor = macro[m].interruptor
                        /\ macro[m].waiting \subseteq Actors
  BY DEF InvokeEffect, ResumeInv, StructInv, FrameInv, TypeOK, MacrosOK, MacroRecord
<1>2. call[c].at = "none" /\ run[c].at = "none" /\ run'[c].at # "block"
      /\ \A b \in Actors \ {c} : call'[b] = call[b] /\ run'[b] = run[b]
  BY EmptyFrames DEF InvokeEffect, CallsOfOthers, RunsOfOthers
<1>3. \A m \in Macros : \A b \in macro[m].waiting : b \in Actors \ {c}
  BY <1>1, <1>2 DEF ResumeInv, WaitPlaces, WaitsFor
<1>4. WaitPlaces' /\ SleepersHalted'
  BY <1>1, <1>2, <1>3 DEF ResumeInv, WaitPlaces, WaitsFor, SleepersHalted, GoesOn
<1>5. BlockHalted'
  <2>1. \A b \in Actors : run[b].m \in Macros
    BY DEF ResumeInv, StructInv, FrameInv, TypeOK, RunsOK, RunFrame
  <2> QED BY <1>1, <1>2, <2>1 DEF ResumeInv, BlockHalted, GoesOn
<1> QED BY <1>4, <1>5

LEMMA ResumeKept ==
  ASSUME NobodyCopies, ResumeInv, [Next]_vars
  PROVE  ResumeInv'
<1>1. StructInv'
  BY StructKept DEF ResumeInv
<1>2. CASE UNCHANGED vars
  BY <1>1, <1>2 DEF vars, ResumeInv, WaitPlaces, WaitsFor, BlockHalted, SleepersHalted, GoesOn
<1>3. CASE ~UNCHANGED vars
  BY <1>1, <1>3, StepWaitPlaces, StepHalted, InvokeResume, NextEffects
     DEF Moves, ResumeInv, StructInv
<1> QED BY <1>2, <1>3

(* When nobody copies, no run sleeps in pauseLoop() on a macro that may go  *)
(* on: not with any number of clients that pause, interrupt, start and      *)
(* destroy, nor with the unlocked dequeue() of their reset threads.         *)
THEOREM NoResumeIsLost ==
  ASSUME NobodyCopies PROVE Spec => []NoLostResume
<1>1. ASSUME Init PROVE ResumeInv
  <2>1. \A a \in Actors : call[a].at = "none" /\ run[a].at = "none"
    BY <1>1, EmptyFrames DEF Init
  <2>2. \A m \in Macros : macro[m].waiting = {}
    BY <1>1 DEF Init, NewMacro
  <2> QED BY <1>1, <2>1, <2>2, StructInitially
          DEF ResumeInv, WaitPlaces, BlockHalted, SleepersHalted
<1>2. ResumeInv /\ [Next]_vars => ResumeInv'
  BY ResumeKept
<1>3. ResumeInv => NoLostResume
  BY DEF ResumeInv, SleepersHalted, NoLostResume, RunAt, GoesOn
<1> QED BY <1>1, <1>2, <1>3, PTL DEF Spec

-----------------------------------------------------------------------------
(***************************************************************************)
(* A disabled macro.  start() and a run that have seen INTERRUPT set       *)
(* CONTINUE, whatever has come in between, and a reset thread does; so     *)
(* DISABLE settles when the last of them has written.                      *)
(***************************************************************************)
LEMMA SettledKept ==
  ASSUME StructInv, NEW m \in Macros, Settled(m), NEW a \in Actors, Effects(a)
  PROVE  Settled(m)'
<1>1. /\ FrameInv /\ OpOK(a) /\ CallEffect(a) /\ OthersEffect(a) /\ MemberEffect(a, m)
      /\ macro[m].interruptor = DISABLE /\ a \notin Commanding(m)
  BY DEF Effects, MacroEffect, StructInv, OpsOK, Settled
<1>2. macro'[m].interruptor = DISABLE
  <2>1. CASE WritesInterruptor(a, m)
    <3>1. call[a].at \notin {"resume", "write", "assign"} /\ call[a].op # "reset"
      BY <1>1, <2>1 DEF OpOK, Commanding, InCall, WritesInterruptor, Dequeues
    <3> QED BY <2>1, <3>1 DEF WritesInterruptor, ClearType, IsReset
  <2> QED BY <1>1, <2>1 DEF MemberEffect
<1>3. ASSUME NEW b \in Actors, b \in Commanding(m)' PROVE FALSE
  <2>1. ~(call'[b] = call[b])
    BY <1>3 DEF Settled, Commanding, InCall
  <2>2. CASE BeginsReset(a, b)
    <3>1. InCall(a, m)
      BY <1>3, <2>2, EmptyFrames DEF BeginsReset, Commanding, InCall
    <3> QED BY <1>1, <2>2, <3>1 DEF BeginsReset, OpOK, Commanding
  <2>3. b = a
    BY <1>1, <2>1, <2>2 DEF OthersEffect, CallsOfOthers, BeginsReset
  <2>4. CASE Returns(a)
    BY <1>3, <2>3, <2>4, EmptyFrames DEF Returns, Commanding, InCall
  <2>5. CASE call[a].at # "none" /\ MovesTo(a)
    <3>1. call'[a].at = "resume" /\ call[a].at = "start" /\ call[a].m = m
      BY <1>1, <1>3, <2>3, <2>5 DEF MovesTo, Goes, Commanding, InCall
    <3> QED BY <1>1, <2>5, <3>1 DEF MovesTo, Goes, DISABLE, INTERRUPT
  <2>6. CASE Restores(a)
    <3>1. call[a].m = m
      BY <1>3, <2>3, <2>6, EmptyFrames DEF Restores, Commanding, InCall
    <3> QED BY <1>1, <2>6, <3>1 DEF Restores, OpOK, Commanding, InCall
  <2>7. CASE Begins(a)
    <3>1. run[a].m = m
      BY <1>3, <2>3, <2>7, EmptyFrames DEF Begins, Commanding, InCall
    <3> QED BY <1>1, <2>7, <3>1 DEF Begins, Sends, DISABLE, INTERRUPT
  <2> QED BY <1>1, <2>1, <2>3, <2>4, <2>5, <2>6, <2>7 DEF CallEffect, Remains
<1>4. Commanding(m)' = {}
  BY <1>3 DEF Commanding
<1> QED BY <1>2, <1>4 DEF Settled

LEMMA SettledInvoke ==
  ASSUME StructInv, NEW m \in Macros, Settled(m),
         NEW c \in Clients, NEW n \in Macros, NEW o \in Ops[c], InvokeEffect(c, n, o)
  PROVE  Settled(m)' \/ (RunAt(c, "none") /\ c \in Commanding(m)')
<1>1. RunAt(c, "none")
  BY DEF InvokeEffect, RunAt
<1>2. macro'[m].interruptor = DISABLE
  BY InvokeKeeps DEF StructInv, Settled
<1>3. \A b \in Actors \ {c} : b \notin Commanding(m)'
  BY DEF InvokeEffect, CallsOfOthers, Settled, Commanding, InCall
<1>4. CASE c \notin Commanding(m)'
  <2>1. Commanding(m)' \subseteq Actors
    BY DEF Commanding
  <2>2. Commanding(m)' = {}
    BY <1>3, <1>4, <2>1
  <2>3. Settled(m)'
    BY <1>2, <2>2 DEF Settled
  <2> QED BY <2>3
<1> QED BY <1>1, <1>4

(* In every program, DISABLE stays once it has settled, and nothing but a   *)
(* client that calls setInterruptor() or copy() takes up a command: no run  *)
(* that goes on, no signal, no start(), no reset thread and no destructor.  *)
THEOREM DisableStaysSettled == Spec => DisableSettles
<1>1. ASSUME StructInv, [Next]_vars, NEW m \in Macros, Settled(m)
      PROVE  Settled(m)' \/ \E c \in Clients : RunAt(c, "none") /\ c \in Commanding(m)'
  <2>1. CASE UNCHANGED vars
    BY <1>1, <2>1 DEF vars, Settled, Commanding, InCall
  <2>2. ASSUME NEW a \in Actors, Effects(a) PROVE Settled(m)'
    BY <1>1, <2>2, SettledKept
  <2>3. ASSUME NEW c \in Clients, NEW n \in Macros, NEW o \in Ops[c], InvokeEffect(c, n, o)
        PROVE  Settled(m)' \/ (RunAt(c, "none") /\ c \in Commanding(m)')
    BY <1>1, <2>3, SettledInvoke
  <2> QED BY <1>1, <2>1, <2>2, <2>3, NextEffects DEF Moves, StructInv
<1>2. StructInv /\ [Next]_vars =>
        [\A m \in Macros : Settled(m) =>
           Settled(m)' \/ \E c \in Clients : RunAt(c, "none") /\ c \in Commanding(m)']_vars
  BY <1>1
<1> QED BY <1>2, StructAlways, PTL DEF Spec, DisableSettles

-----------------------------------------------------------------------------
(***************************************************************************)
(* Programs in which nobody interrupts and only clients command.           *)
(***************************************************************************)
Interrupting == {INTERRUPT, INTERRUPT_ALL}
NobodyInterrupts ==
  /\ \A o \in Called : o.name = "setInterruptor" => o.val \notin Interrupting
  /\ \A o \in Sent : o.name \notin {"setInterruptor", "copy"}
  /\ \A n \in DOMAIN Setups : Setups[n].interruptor \notin Interrupting

CommandNames   == {"setInterruptor", "copy", "destroy"}
Commands(a)    == call[a].at # "none" /\ call[a].op \in CommandNames
Commander(c)   == \E o \in Ops[c] : o.name \in CommandNames
ClientsCommand == \A a \in Actors : Commands(a) => Own(a) /\ Commander(a)
NoneInterrupts == \A m \in Macros : macro[m].interruptor \notin Interrupting

(* Without INTERRUPT, no start() changes it back to CONTINUE. *)
NeverInterrupt == \A m \in Macros : macro[m].interruptor # INTERRUPT
NoneResumes    == \A a \in Actors : call[a].at # "resume"

LEMMA StepNoneResumes ==
  ASSUME StructInv, NeverInterrupt, NoneResumes, NEW a \in Actors, Effects(a)
  PROVE  NoneResumes'
<1> SUFFICES ASSUME NEW b \in Actors, call'[b].at = "resume" PROVE FALSE
  BY DEF NoneResumes
<1>1. FrameInv /\ CallEffect(a) /\ OthersEffect(a) /\ call[b].at # "resume"
  BY DEF StructInv, Effects, NoneResumes
<1>2. b = a
  BY <1>1, EmptyFrames DEF OthersEffect, CallsOfOthers, BeginsReset
<1>3. ~Begins(a)
  BY <1>2, BegunCalls, EntryPlaces, EmptyFrames DEF OpNames, SignalNames
<1>4. MovesTo(a)
  BY <1>1, <1>2, <1>3, EmptyFrames DEF CallEffect, Remains, Returns, Restores
<1>5. call[a].m \in Macros /\ macro[call[a].m].interruptor = INTERRUPT
  BY <1>1, <1>2, <1>4, InFrame DEF MovesTo, Goes, FrameInv, CallM
<1> QED BY <1>5 DEF NeverInterrupt

LEMMA InvokeNoneResumes ==
  ASSUME StructInv, NoneResumes, NEW c \in Clients, NEW n \in Macros, NEW o \in Ops[c],
         InvokeEffect(c, n, o)
  PROVE  NoneResumes'
<1>1. \A b \in Actors \ {c} : call'[b] = call[b]
  BY DEF InvokeEffect, CallsOfOthers
<1>2. call'[c] = call[c] \/ (call'[c].at = EntryOf(o.name) /\ o.name \in OpNames \ {"run"})
  <2>1. o.name \in OpNames
    BY InvokedNames
  <2>2. EntryOf("destroy") = "disable" /\ "destroy" \in OpNames \ {"run"}
    BY DEF EntryOf, OpNames
  <2>3. CASE o.name = "run"
    BY <2>3 DEF InvokeEffect
  <2>4. CASE o.name = "destroy"
    <3>1. call'[c] = CallOf("disable", n, "destroy", o.val)
      BY <2>4 DEF InvokeEffect
    <3> QED BY <2>2, <2>4, <3>1, EmptyFrames
  <2>5. CASE o.name \notin {"run", "destroy"}
    <3>1. call'[c] = CallOf(EntryOf(o.name), n, o.name, o.val)
      BY <2>5 DEF InvokeEffect
    <3> QED BY <2>1, <2>5, <3>1, EmptyFrames
  <2> QED BY <2>3, <2>4, <2>5
<1>3. call'[c].at # "resume" \/ call'[c] = call[c]
  BY <1>2, EntryPlaces
<1> QED BY <1>1, <1>3 DEF NoneResumes

ObeyInv == StructInv /\ NoResetsNow /\ ClientsCommand /\ NoneInterrupts /\ NoneResumes

LEMMA InterruptsReset ==
  ASSUME NobodyInterrupts
  PROVE  NobodyResets
BY DEF NobodyInterrupts, NobodyResets, AsksReset, Interrupting

(* What a command writes was asked for by a client. *)
LEMMA CommandValue ==
  ASSUME NobodyInterrupts, ObeyInv, NEW a \in Actors, Commands(a), call[a].op = "setInterruptor"
  PROVE  call[a].val \notin Interrupting
<1>1. Own(a) /\ run[a].at # "send"
  BY DEF ObeyInv, ClientsCommand, Own
<1>2. CASE call[a].val = CONTINUE
  BY <1>2 DEF Interrupting, CONTINUE, INTERRUPT, INTERRUPT_ALL
<1>3. CASE call[a].val # CONTINUE
  BY <1>1, <1>3, AskedFor DEF ObeyInv, Commands, Makes, NobodyInterrupts
<1> QED BY <1>2, <1>3

(* Who writes the interruptor of a macro. *)
LEMMA ObeyWrites ==
  ASSUME NobodyInterrupts, ObeyInv, NEW a \in Actors, NEW m \in Macros, WritesInterruptor(a, m)
  PROVE  /\ Commands(a) /\ call[a].m = m
         /\ macro'[m].interruptor \notin Interrupting
         /\ call[a].at = "write" => macro'[m].interruptor = call[a].val
<1>1. OpOK(a)
  BY DEF ObeyInv, StructInv, OpsOK
<1>2. call[a].at # "resume"
  BY DEF ObeyInv, NoneResumes
<1>3. CASE call[a].at = "write"
  <2>1. Commands(a) /\ call[a].op = "setInterruptor"
    BY <1>1, <1>3 DEF OpOK, Commands, CommandNames
  <2>2. call[a].val \notin Interrupting
    BY <2>1, CommandValue
  <2>3. macro'[m].interruptor = call[a].val /\ call[a].m = m
    BY <1>3, <2>2 DEF WritesInterruptor, Interrupting, Dequeues
  <2> QED BY <1>3, <2>1, <2>2, <2>3
<1>4. CASE call[a].at \in Dequeues
  <2>1. call[a].op \in {"copy", "destroy"}
    BY <1>1, <1>4 DEF OpOK, Dequeues, StickyLabels, ClearingLabels, ObeyInv, NoResetsNow
  <2>2. macro'[m].interruptor = DISABLE /\ call[a].m = m
    BY <1>4, <2>1 DEF WritesInterruptor, ClearType, IsReset, Dequeues
  <2> QED BY <1>4, <2>1, <2>2
          DEF Commands, CommandNames, Dequeues, Interrupting, DISABLE, INTERRUPT, INTERRUPT_ALL
<1>5. CASE call[a].at = "assign"
  <2>1. Commands(a) /\ call[a].val \in DOMAIN Setups
    BY <1>1, <1>5 DEF OpOK, Commands, CommandNames, ObeyInv, StructInv, FrameInv, TypeOK, CallsOK, Legal
  <2> QED BY <1>5, <2>1 DEF WritesInterruptor, Dequeues, NobodyInterrupts
<1> QED BY <1>2, <1>3, <1>4, <1>5 DEF WritesInterruptor

LEMMA StepObeys ==
  ASSUME NobodyInterrupts, ObeyInv, NEW a \in Actors, Effects(a)
  PROVE  ClientsCommand' /\ NoneInterrupts'
<1>1. CallEffect(a) /\ RunEffect(a) /\ OthersEffect(a) /\ FrameInv /\ OpOK(a)
      /\ \A m \in Macros : MemberEffect(a, m)
  BY DEF Effects, MacroEffect, ObeyInv, StructInv, OpsOK
<1>2. NoneInterrupts'
  <2> SUFFICES ASSUME NEW m \in Macros PROVE macro'[m].interruptor \notin Interrupting
    BY DEF NoneInterrupts
  <2>1. CONTINUE \notin Interrupting
    BY DEF Interrupting, CONTINUE, INTERRUPT, INTERRUPT_ALL
  <2> QED BY <1>1, <2>1, ObeyWrites DEF MemberEffect, ObeyInv, NoneInterrupts
<1>3. ClientsCommand'
  <2> SUFFICES ASSUME NEW b \in Actors, Commands(b)' PROVE Own(b)' /\ Commander(b)'
    BY DEF ClientsCommand
  <2>1. CASE call[b].at # "none" /\ call'[b].op = call[b].op /\ run'[b] = run[b]
    BY <2>1 DEF ObeyInv, ClientsCommand, Commands, CommandNames, Commander, Own
  <2>2. CASE b # a
    <3>1. CASE BeginsReset(a, b)
      BY <3>1, EmptyFrames DEF BeginsReset, Commands, CommandNames
    <3> QED BY <1>1, <2>1, <2>2, <3>1, OthersFrames DEF Commands
  <2>3. CASE b = a /\ call[a].at # "none"
    <3>1. call'[a] # NoCall /\ run'[a] = run[a]
      BY <1>1, <2>3, EmptyFrames DEF Commands, RunEffect
    <3>2. ~Restores(a)
      BY <1>1 DEF Restores, OpOK, ObeyInv, NoResetsNow
    <3>3. call'[a].op = call[a].op
      BY <1>1, <2>3, <3>1, <3>2 DEF CallEffect, Remains, Returns, MovesTo, Begins
    <3> QED BY <2>1, <2>3, <3>1, <3>3
  <2>4. CASE b = a /\ call[a].at = "none"
    <3>1. Begins(a)
      BY <1>1, <2>4 DEF CallEffect, Remains, Restores, Commands
    <3>2. run[a].m \in Macros
      BY <1>1, InFrame DEF FrameInv, RunM
    <3>3. macro[run[a].m].interruptor # INTERRUPT
      BY <3>2 DEF ObeyInv, NoneInterrupts, Interrupting
    <3>4. PICK n \in DOMAIN SignalLists : \E i \in 1 .. Len(SignalLists[n]) :
            call'[a] = CallOf(EntryOf(SignalLists[n][i].name), run[a].m,
                              SignalLists[n][i].name, SignalLists[n][i].val)
      BY <3>1, <3>3 DEF Begins
    <3>5. PICK i \in 1 .. Len(SignalLists[n]) :
            call'[a] = CallOf(EntryOf(SignalLists[n][i].name), run[a].m,
                              SignalLists[n][i].name, SignalLists[n][i].val)
      BY <3>4
    <3>6. SignalLists[n][i] \in Sent /\ SignalLists[n][i].name \in SignalNames
      BY SignalListsAssumption DEF Sent, LegalCall
    <3>7. SignalLists[n][i].name \notin {"setInterruptor", "copy", "destroy"}
      BY <3>6 DEF SignalNames, NobodyInterrupts
    <3>8. call'[a].op = SignalLists[n][i].name
      BY <3>5 DEF CallOf
    <3> QED BY <2>4, <3>7, <3>8 DEF Commands, CommandNames
  <2> QED BY <2>2, <2>3, <2>4
<1> QED BY <1>2, <1>3

LEMMA InvokeObeys ==
  ASSUME ObeyInv, NEW c \in Clients, NEW n \in Macros, NEW o \in Ops[c],
         InvokeEffect(c, n, o)
  PROVE  /\ ClientsCommand' /\ NoneInterrupts'
         /\ \A m \in Macros : macro'[m].interruptor = macro[m].interruptor
<1>1. \A m \in Macros : macro'[m].interruptor = macro[m].interruptor
  BY DEF InvokeEffect, ObeyInv, StructInv, FrameInv, TypeOK, MacrosOK, MacroRecord
<1>2. ClientsCommand'
  <2> SUFFICES ASSUME NEW b \in Actors, Commands(b)' PROVE Own(b)' /\ Commander(b)'
    BY DEF ClientsCommand
  <2>1. CASE b # c
    BY <2>1 DEF InvokeEffect, CallsOfOthers, RunsOfOthers, ObeyInv, ClientsCommand,
                Commands, Commander, Own
  <2>2. CASE b = c
    <3>1. CASE o.name = "run"
      BY <2>2, <3>1 DEF InvokeEffect, Commands
    <3>2. CASE o.name # "run"
      <4>1. call'[c].op = o.name /\ run'[c] = run[c]
        BY <3>2, EmptyFrames DEF InvokeEffect
      <4> QED BY <2>2, <4>1 DEF InvokeEffect, Commands, Commander, Own
    <3> QED BY <3>1, <3>2
  <2> QED BY <2>1, <2>2
<1> QED BY <1>1, <1>2 DEF ObeyInv, NoneInterrupts

LEMMA ObeyKept ==
  ASSUME NobodyInterrupts, ObeyInv, [Next]_vars
  PROVE  ObeyInv'
<1>1. StructInv' /\ NoResetsNow'
  BY StructKept, NoResetsKept, InterruptsReset DEF ObeyInv
<1>2. CASE UNCHANGED vars
  BY <1>1, <1>2 DEF vars, ObeyInv, ClientsCommand, Commands, CommandNames, Commander, Own,
       NoneInterrupts, NoneResumes
<1>3. CASE ~UNCHANGED vars
  <2>1. NeverInterrupt
    BY DEF ObeyInv, NoneInterrupts, NeverInterrupt, Interrupting
  <2> QED BY <1>1, <1>3, <2>1, StepObeys, InvokeObeys, StepNoneResumes, InvokeNoneResumes,
             NextEffects DEF Moves, ObeyInv, StructInv
<1> QED BY <1>2, <1>3

LEMMA ObeyInitially ==
  ASSUME NobodyInterrupts, Init
  PROVE  ObeyInv
<1>1. \A a \in Actors : call[a].at = "none"
  BY EmptyFrames DEF Init
<1>2. ASSUME NEW m \in Macros PROVE macro[m].interruptor \notin Interrupting
  <2>1. PICK n \in Initial : macro[m] = NewMacro(Setups[n])
    BY DEF Init
  <2> QED BY <2>1, SetupsAssumption DEF NewMacro, NobodyInterrupts
<1> QED BY <1>1, <1>2, StructInitially
        DEF ObeyInv, NoResetsNow, ClientsCommand, Commands, NoneInterrupts, NoneResumes

LEMMA ObeyAlways == ASSUME NobodyInterrupts PROVE Spec => []ObeyInv
<1>1. Init => ObeyInv
  BY ObeyInitially
<1>2. ObeyInv /\ [Next]_vars => ObeyInv'
  BY ObeyKept
<1> QED BY <1>1, <1>2, PTL DEF Spec

-----------------------------------------------------------------------------
(***************************************************************************)
(* The dispatchers.  setInterruptor() reads the interruptor, writes it and *)
(* registers in three sections; so this is about programs with the         *)
(* hypotheses above in which one client decides: two clients could write   *)
(* and register in opposite orders.                                        *)
(***************************************************************************)
OneCommander == \A c, d \in Clients : Commander(c) /\ Commander(d) => c = d

(* A command that has not written anything yet remembers what it read; one  *)
(* that destroys is on a macro that has begun to die.                       *)
Deciding == {"interrupt", "compare", "write"}
Remembers == \A a \in Actors :
  call[a].at \in {"compare", "write"} => call[a].prev = macro[call[a].m].interruptor
DestroysDying == \A a \in Actors :
  call[a].at # "none" /\ call[a].op = "destroy" => macro[call[a].m].life # "alive"

(* A command is about to change the interruptor or the registration. *)
Deciders(m) == {a \in Actors : Commands(a) /\ call[a].m = m /\ call[a].at \notin Deciding}
Registers == \A m \in Macros : macro[m].life = "alive" =>
  macro[m].registered = Enabled(macro[m]) \/ Deciders(m) # {}

RegisterInv == ObeyInv /\ Remembers /\ DestroysDying /\ Registers

(* What a step of somebody else leaves of a command. *)
LEMMA OtherCommands ==
  ASSUME StructInv, NEW a \in Actors, Effects(a), NEW b \in Actors \ {a}
  PROVE  /\ call[b].at # "none" => call'[b] = call[b]
         /\ call[b].at = "none" /\ call'[b].at # "none" =>
              call'[b].at = "reset" /\ call'[b].op = "reset"
<1>1. CASE BeginsReset(a, b)
  BY <1>1, EmptyFrames DEF BeginsReset
<1> QED BY <1>1, OthersFrames DEF Effects, StructInv

LEMMA StepRemembers ==
  ASSUME NobodyInterrupts, OneCommander, RegisterInv, NEW a \in Actors, Effects(a)
  PROVE  Remembers'
<1> SUFFICES ASSUME NEW b \in Actors, call'[b].at \in {"compare", "write"}
             PROVE  call'[b].prev = macro'[call'[b].m].interruptor
  BY DEF Remembers
<1>1. ObeyInv /\ StructInv /\ FrameInv /\ OpsOK /\ CallEffect(a)
      /\ \A m \in Macros : MemberEffect(a, m)
  BY DEF RegisterInv, ObeyInv, StructInv, Effects, MacroEffect
<1>2. \A c \in Actors : call[c].m \in Macros
  BY <1>1, InFrame DEF FrameInv, CallM
<1>3. CASE b # a
  <2>1. call'[b] = call[b]
    BY <1>1, <1>3, OtherCommands
  <2>2. Commands(b)
    BY <1>1, <2>1 DEF OpsOK, OpOK, Commands, CommandNames
  <2>3. ~Commands(a)
    BY <1>1, <1>3, <2>2 DEF ObeyInv, ClientsCommand, Own, OneCommander
  <2>4. macro'[call[b].m].interruptor = macro[call[b].m].interruptor
    BY <1>1, <1>2, <2>3, ObeyWrites DEF MemberEffect
  <2> QED BY <2>1, <2>4 DEF RegisterInv, Remembers
<1>4. CASE b = a
  <2>1. MovesTo(a) /\ call[a].at \in {"interrupt", "compare"}
    <3>1. ~Begins(a)
      <4>1. CASE Begins(a)
        <5>1. PICK o : /\ call'[a] = CallOf(EntryOf(o.name), run[a].m, o.name, o.val)
                       /\ o.name \in SignalNames \ {"send"}
          BY <4>1, BegunCalls
        <5>2. call'[a].at = EntryOf(o.name)
          BY <5>1, EmptyFrames
        <5>3. o.name \in OpNames \ {"run"}
          BY <5>1 DEF OpNames, SignalNames
        <5> QED BY <1>4, <5>2, <5>3, EntryPlaces
      <4> QED BY <4>1
    <3>2. MovesTo(a)
      BY <1>1, <1>4, <3>1, EmptyFrames DEF CallEffect, Remains, Returns, Restores
    <3> QED BY <1>4, <3>2 DEF MovesTo, Goes
  <2>2. macro'[call[a].m].interruptor = macro[call[a].m].interruptor
    BY <1>1, <1>2, <2>1 DEF MemberEffect, WritesInterruptor, Dequeues
  <2>3. CASE call[a].at = "interrupt"
    BY <1>4, <2>1, <2>2, <2>3 DEF MovesTo, Goes
  <2>4. CASE call[a].at = "compare"
    BY <1>4, <2>1, <2>2, <2>4 DEF MovesTo, Goes, RegisterInv, Remembers
  <2> QED BY <2>1, <2>3, <2>4
<1> QED BY <1>3, <1>4

LEMMA StepDestroysDying ==
  ASSUME RegisterInv, NEW a \in Actors, Effects(a)
  PROVE  DestroysDying'
<1> SUFFICES ASSUME NEW b \in Actors, call'[b].at # "none", call'[b].op = "destroy"
             PROVE  macro'[call'[b].m].life # "alive"
  BY DEF DestroysDying
<1>1. StructInv /\ FrameInv /\ CallEffect(a) /\ \A m \in Macros : MemberEffect(a, m)
  BY DEF RegisterInv, ObeyInv, StructInv, Effects, MacroEffect
<1>2. CASE call[b].at # "none" /\ call[b].op = "destroy" /\ call'[b].m = call[b].m
  <2>1. call[b].m \in Macros
    BY <1>1, InFrame DEF FrameInv, CallM
  <2>2. macro[call[b].m].life # "alive"
    BY <1>2 DEF RegisterInv, DestroysDying
  <2> QED BY <1>1, <1>2, <2>1, <2>2 DEF MemberEffect, WritesLife
<1>3. CASE b # a
  BY <1>1, <1>2, <1>3, OtherCommands
<1>4. CASE b = a
  <2>1. ~Begins(a)
    <3>1. CASE Begins(a)
      BY <1>4, <3>1, BegunCalls, EmptyFrames DEF SignalNames
    <3> QED BY <3>1
  <2> QED BY <1>1, <1>2, <1>4, <2>1, EmptyFrames
          DEF CallEffect, Remains, Returns, Restores, MovesTo
<1> QED BY <1>3, <1>4

LEMMA StepRegisters ==
  ASSUME NobodyInterrupts, RegisterInv, NEW a \in Actors, Effects(a)
  PROVE  Registers'
<1> SUFFICES ASSUME NEW m \in Macros, macro'[m].life = "alive"
             PROVE  macro'[m].registered = Enabled(macro'[m]) \/ Deciders(m)' # {}
  BY DEF Registers
<1>1. /\ ObeyInv /\ StructInv /\ FrameInv /\ OpOK(a)
      /\ CallEffect(a) /\ MemberEffect(a, m) /\ NoResetsNow
  BY DEF RegisterInv, ObeyInv, StructInv, OpsOK, Effects, MacroEffect
<1>2. macro[m].life = "alive"
  BY <1>1 DEF MemberEffect, WritesLife
<1>3. ASSUME NEW b \in Deciders(m), b # a PROVE Deciders(m)' # {}
  <2>1. call'[b] = call[b]
    BY <1>1, <1>3, OtherCommands DEF Deciders, Commands
  <2> QED BY <1>3, <2>1 DEF Deciders, Commands
<1>4. CASE a \in Deciders(m)
  <2>1. CASE call'[a].at # "none" /\ call'[a].m = m /\ call'[a].op = call[a].op
             /\ call'[a].at \notin Deciding
    BY <1>4, <2>1 DEF Deciders, Commands
  <2>2. CASE Remains(a)
    BY <1>4, <2>1, <2>2 DEF Remains, Deciders, Commands
  <2>3. CASE MovesTo(a)
    BY <1>4, <2>1, <2>3 DEF MovesTo, Goes, Deciders, Commands, Deciding
  <2>4. CASE Returns(a)
    <3>1. call[a].at # "none" /\ call[a].op \in CommandNames /\ call[a].m = m
          /\ call[a].at \notin Deciding
      BY <1>4 DEF Deciders, Commands
    <3>2. call[a].at # "detach"
      <4>1. CASE call[a].at = "detach"
        BY <1>1, <3>1, <4>1, CommandValue DEF OpOK, Commands, Interrupting, RegisterInv
      <4> QED BY <4>1
    <3>3. call[a].at \in {"apply", "erase"}
      BY <1>1, <2>4, <3>1, <3>2
         DEF Returns, OpOK, CommandNames, Deciding, InSection, NoResetsNow
    <3>4. CASE call[a].at = "apply"
      <4>1. macro'[m].registered = Enabled(macro[m])
        BY <2>4, <3>1, <3>4 DEF Returns
      <4>2. macro'[m].interruptor = macro[m].interruptor
        BY <1>1, <3>4 DEF MemberEffect, WritesInterruptor, Dequeues
      <4> QED BY <4>1, <4>2 DEF Enabled
    <3>5. CASE call[a].at = "erase"
      <4>1. call[a].op = "destroy"
        BY <1>1, <2>4, <3>1, <3>5 DEF Returns, CommandNames, OpOK, ClearingLabels
      <4> QED BY <1>2, <3>1, <4>1 DEF RegisterInv, DestroysDying
    <3> QED BY <3>3, <3>4, <3>5
  <2>5. ~Restores(a) /\ ~Begins(a)
    BY <1>1, <1>4 DEF Restores, Begins, Deciders, Commands, OpOK, NoResetsNow
  <2> QED BY <1>1, <2>2, <2>3, <2>4, <2>5 DEF CallEffect
<1>5. CASE a \notin Deciders(m) /\ macro[m].registered = Enabled(macro[m])
  <2>1. macro'[m].registered = macro[m].registered
    <3>1. CASE WritesRegistered(a, m)
      BY <1>1, <1>5, <3>1
         DEF WritesRegistered, OpOK, StickyLabels, Deciders, Commands, CommandNames, Deciding
    <3> QED BY <1>1, <3>1 DEF MemberEffect
  <2>2. CASE macro'[m].interruptor = macro[m].interruptor
    BY <1>5, <2>1, <2>2 DEF Enabled
  <2>3. CASE WritesInterruptor(a, m)
    <3>1. Commands(a) /\ call[a].m = m /\ (call[a].at = "write" => macro'[m].interruptor = call[a].val)
      BY <1>1, <2>3, ObeyWrites
    <3>2. call[a].at = "write"
      BY <1>1, <1>5, <2>3, <3>1
         DEF Deciders, Deciding, WritesInterruptor, Dequeues, ObeyInv, NoneResumes
    <3>3. CASE MovesTo(a)
      BY <3>1, <3>2, <3>3 DEF MovesTo, Goes, Deciders, Commands, Deciding
    <3>4. CASE Returns(a)
      <4>1. call[a].prev # DISABLE /\ call[a].val # DISABLE
        BY <3>2, <3>4 DEF Returns, ChangesDispatch
      <4>2. call[a].prev = macro[m].interruptor /\ macro'[m].interruptor = call[a].val
        BY <3>1, <3>2 DEF RegisterInv, Remembers
      <4> QED BY <1>5, <2>1, <4>1, <4>2 DEF Enabled
    <3> QED BY <1>1, <3>2, <3>3, <3>4 DEF CallEffect, Remains, Restores, Begins
  <2> QED BY <1>1, <2>2, <2>3 DEF MemberEffect
<1> QED BY <1>2, <1>3, <1>4, <1>5 DEF RegisterInv, Registers

LEMMA InvokeRegisters ==
  ASSUME RegisterInv, NEW c \in Clients, NEW n \in Macros, NEW o \in Ops[c],
         InvokeEffect(c, n, o)
  PROVE  Remembers' /\ DestroysDying' /\ Registers'
<1>1. /\ \A m \in Macros : macro'[m].interruptor = macro[m].interruptor
      /\ \A m \in Macros : macro'[m].registered = macro[m].registered
      /\ \A m \in Macros : macro'[m].life = "alive" => macro[m].life = "alive"
      /\ \A m \in Macros : macro[m].life # "alive" => macro'[m].life # "alive"
  BY InvokeKeeps DEF RegisterInv, ObeyInv, StructInv, FrameInv
<1>2. \A a \in Actors : call[a].m \in Macros
  BY InFrame DEF RegisterInv, ObeyInv, StructInv, FrameInv, CallM
<1>3. \A a \in Actors \ {c} : call'[a] = call[a]
  BY DEF InvokeEffect, CallsOfOthers
<1>4. call[c].at = "none"
  BY DEF InvokeEffect
<1>5. \/ call'[c] = call[c]
      \/ /\ o.name \in OpNames \ {"run"}
         /\ call'[c].at = EntryOf(o.name) /\ call'[c].op = o.name /\ call'[c].m = n
  BY InvokedNames, EmptyFrames DEF InvokeEffect, EntryOf
<1>6. Remembers'
  <2>1. call'[c].at \notin {"compare", "write"}
    BY <1>4, <1>5, EntryPlaces
  <2> QED BY <1>1, <1>2, <1>3, <2>1 DEF RegisterInv, Remembers
<1>7. DestroysDying'
  <2>1. call'[c].at # "none" /\ call'[c].op = "destroy" => macro'[n].life # "alive" /\ call'[c].m = n
    <3>1. CASE o.name = "destroy"
      <4>1. macro'[n].life = "dying"
        BY <3>1, InvokeKeeps DEF RegisterInv, ObeyInv, StructInv, FrameInv
      <4> QED BY <1>4, <1>5, <4>1
    <3> QED BY <1>4, <1>5, <3>1
  <2> QED BY <1>1, <1>2, <1>3, <2>1 DEF RegisterInv, DestroysDying
<1>8. Registers'
  <2> SUFFICES ASSUME NEW m \in Macros, macro'[m].life = "alive"
               PROVE  macro'[m].registered = Enabled(macro'[m]) \/ Deciders(m)' # {}
    BY DEF Registers
  <2>1. CASE macro[m].registered = Enabled(macro[m])
    BY <1>1, <2>1 DEF Enabled
  <2>2. ASSUME NEW b \in Deciders(m) PROVE Deciders(m)' # {}
    <3>1. call'[b] = call[b]
      BY <1>3, <1>4, <2>2 DEF Deciders, Commands
    <3> QED BY <2>2, <3>1 DEF Deciders, Commands
  <2> QED BY <1>1, <2>1, <2>2 DEF RegisterInv, Registers
<1> QED BY <1>6, <1>7, <1>8

LEMMA RegisterKept ==
  ASSUME NobodyInterrupts, OneCommander, RegisterInv, [Next]_vars
  PROVE  RegisterInv'
<1>1. ObeyInv'
  BY ObeyKept DEF RegisterInv
<1>2. CASE UNCHANGED vars
  BY <1>1, <1>2 DEF vars, RegisterInv, Remembers, DestroysDying, Registers, Deciders,
                    Commands, Enabled
<1>3. CASE ~UNCHANGED vars
  BY <1>1, <1>3, StepRemembers, StepDestroysDying, StepRegisters, InvokeRegisters, NextEffects
     DEF Moves, RegisterInv, ObeyInv, StructInv
<1> QED BY <1>2, <1>3

LEMMA RegisterInitially ==
  ASSUME NobodyInterrupts, Init
  PROVE  RegisterInv
<1>1. \A a \in Actors : call[a].at = "none"
  BY EmptyFrames DEF Init
<1>2. ASSUME NEW m \in Macros PROVE macro[m].registered = Enabled(macro[m])
  <2>1. PICK n \in Initial : macro[m] = NewMacro(Setups[n])
    BY DEF Init
  <2> QED BY <2>1 DEF NewMacro, Enabled
<1> QED BY <1>1, <1>2, ObeyInitially DEF RegisterInv, Remembers, DestroysDying, Registers

(* When one client alone sets, copies and destroys, nobody interrupts and   *)
(* signals set no interruptor, then a macro nobody is inside is registered  *)
(* with the dispatchers if and only if it is enabled.                       *)
THEOREM IdleMacrosAreRegistered ==
  ASSUME NobodyInterrupts, OneCommander PROVE Spec => []RegisteredMatches
<1>1. Init => RegisterInv
  BY RegisterInitially
<1>2. RegisterInv /\ [Next]_vars => RegisterInv'
  BY RegisterKept
<1>3. RegisterInv => RegisteredMatches
  BY DEF RegisterInv, Registers, Deciders, Commands, RegisteredMatches, Untouched, InCall
<1> QED BY <1>1, <1>2, <1>3, PTL DEF Spec

-----------------------------------------------------------------------------
(***************************************************************************)
(* The destructor.  It joins the threads of the macro whose handles it has *)
(* and knows nothing of a reset thread, so this is about programs in which *)
(* nobody asks for one, and in which no run copies onto its own macro: it  *)
(* would be a thread that takes its own handle away.                       *)
(***************************************************************************)
NoSignalCopies == \A o \in Sent : o.name # "copy"

IdleResets == \A x \in Resets : call[x].at = "none"

(* Every thread at work has its handle in the macro it runs. *)
LiveHeld == \A t \in Threads :
  run[t].at \notin {"none", "gone"} => t \in macro[run[t].m].handles

Clears(a)    == call[a].at # "none" /\ call[a].op \in {"copy", "destroy"}
ClientsClear == \A a \in Actors : Clears(a) => Own(a)

(* No client but the one that destroys it is inside a macro that dies, and  *)
(* there is only one that does, until the macro is freed.                   *)
Destroys(a, m) == InCall(a, m) /\ call[a].op = "destroy"
Left == \A m \in Macros : macro[m].life \in {"dying", "freed"} =>
  \A c \in Clients : ~InRun(c, m) /\ (InCall(c, m) => call[c].op = "destroy")
DestroyedByOne == \A m \in Macros : \A a, b \in Actors :
  Destroys(a, m) => /\ macro[m].life \in {"dying", "terminated"}
                    /\ Destroys(b, m) => a = b

FreeInv ==
  /\ StructInv /\ NoResetsNow /\ IdleResets /\ LiveHeld /\ ClientsClear
  /\ Left /\ DestroyedByOne /\ FreedIsUntouched

LEMMA StepIdleResets ==
  ASSUME FreeInv, NEW a \in Actors, Effects(a), NoResetsNow'
  PROVE  IdleResets'
<1> SUFFICES ASSUME NEW x \in Resets, call'[x].at # "none" PROVE FALSE
  BY DEF IdleResets
<1>1. x \in Actors /\ call[x].at = "none" /\ run[x].at = "none"
  BY DEF FreeInv, StructInv, FrameInv, FramesOK, AgreesOn, IdleResets, Actors
<1>2. CASE x # a
  BY <1>1, <1>2, OtherCommands DEF NoResetsNow, FreeInv
<1>3. CASE x = a
  BY <1>1, <1>3 DEF Effects, CallEffect, Remains, Restores, Begins
<1> QED BY <1>2, <1>3

LEMMA StepClientsClear ==
  ASSUME NoSignalCopies, FreeInv, NEW a \in Actors, Effects(a)
  PROVE  ClientsClear'
<1> SUFFICES ASSUME NEW b \in Actors, Clears(b)' PROVE Own(b)'
  BY DEF ClientsClear
<1>1. /\ FrameInv /\ StructInv /\ OpOK(a) /\ ClientsClear
      /\ CallEffect(a) /\ RunEffect(a) /\ OthersEffect(a)
  BY DEF FreeInv, StructInv, OpsOK, Effects
<1>2. CASE call[b].at # "none" /\ call'[b].op = call[b].op /\ run'[b] = run[b]
  BY <1>1, <1>2 DEF ClientsClear, Clears, Own
<1>3. CASE b # a
  BY <1>1, <1>2, <1>3, OthersFrames, OtherCommands DEF Clears
<1>4. CASE b = a /\ call[a].at # "none"
  <2>1. call'[a] # NoCall /\ run'[a] = run[a]
    BY <1>1, <1>4, EmptyFrames DEF Clears, RunEffect
  <2>2. ~Restores(a)
    BY <1>1 DEF Restores, OpOK, FreeInv, NoResetsNow
  <2> QED BY <1>1, <1>2, <1>4, <2>1, <2>2 DEF CallEffect, Remains, Returns, MovesTo, Begins
<1>5. CASE b = a /\ call[a].at = "none"
  <2>1. CameFrom(a)' /\ Begins(a)
    BY <1>1, <1>5, OwnCameFrom
       DEF FreeInv, StructInv, CallEffect, Remains, Restores, Clears
  <2>2. PICK o : call'[a].op = o.name /\ o.name \in SignalNames
    BY <2>1, BegunCalls, EmptyFrames
  <2>3. call'[a].op # "destroy"
    BY <2>2 DEF SignalNames
  <2> QED BY <1>5, <2>1, <2>3 DEF CameFrom, Clears, Makes, NoSignalCopies
<1> QED BY <1>3, <1>4, <1>5

(* Nobody joins a thread at work. *)
LEMMA JoinedEnded ==
  ASSUME FreeInv, NEW a \in Actors, call[a].at = "join",
         NEW t \in macro[call[a].m].handles, \A x \in macro[call[a].m].handles \ {a} : Ended(x)
  PROVE  run[t].at = "gone"
<1>1. Own(a)
  BY DEF FreeInv, StructInv, OpsOK, OpOK, ClearingLabels, NoResetsNow, ClientsClear, Clears
<1>2. a \notin Threads
  BY <1>1, ActorsAssumption DEF Own
<1>3. t \in Threads
  BY InFrame, MemberType DEF FreeInv, StructInv, FrameInv, CallR
<1> QED BY <1>2, <1>3 DEF Ended

LEMMA StepLiveHeld ==
  ASSUME FreeInv, NEW a \in Actors, Effects(a)
  PROVE  LiveHeld'
<1> SUFFICES ASSUME NEW t \in Threads, run'[t].at \notin {"none", "gone"}
             PROVE  t \in macro'[run'[t].m].handles
  BY DEF LiveHeld
<1>1. /\ FrameInv /\ StructInv /\ t \in Actors
      /\ RunEffect(a) /\ OthersEffect(a) /\ \A m \in Macros : MemberEffect(a, m)
  BY DEF FreeInv, StructInv, Effects, MacroEffect, Actors
<1>2. CASE run[t].at \notin {"none", "gone"}
  <2>1. t \in macro[run[t].m].handles /\ run[t].m \in Macros
    BY <1>1, <1>2, InFrame DEF FreeInv, LiveHeld, FrameInv, RunM
  <2>2. run'[t].m = run[t].m
    <3>1. CASE t # a
      BY <1>1, <1>2, <3>1, OthersFrames
    <3>2. CASE t = a
      BY <1>1, <1>2, <3>2, EmptyFrames DEF RunEffect
    <3> QED BY <3>1, <3>2
  <2>3. t \in macro'[run[t].m].handles
    <3>1. CASE WritesHandles(a, run[t].m)
      BY <1>2, <2>1, <3>1, JoinedEnded DEF WritesHandles
    <3> QED BY <1>1, <2>1, <3>1 DEF MemberEffect
  <2> QED BY <2>2, <2>3
<1>3. CASE run[t].at \in {"none", "gone"}
  <2>1. t # a
    BY <1>1, <1>3, EmptyFrames DEF RunEffect
  <2>2. ThreadEffect(a, t) /\ run'[t] # run[t] /\ run'[t] # NoFrame
    BY <1>1, <1>3, <2>1, EmptyFrames DEF OthersEffect
  <2> QED BY <2>2, EmptyFrames DEF ThreadEffect
<1> QED BY <1>2, <1>3

(* Who comes to be inside a macro comes from there, or the one who lets it  *)
(* in does.                                                                 *)
LEMMA ComesIn ==
  ASSUME FreeInv, NEW a \in Actors, Effects(a), NoResetsNow',
         NEW b \in Actors, NEW m \in Macros, (InCall(b, m) \/ InRun(b, m))'
  PROVE  InCall(b, m) \/ InRun(b, m) \/ (b \in Threads /\ InCall(a, m))
<1>1. /\ FrameInv /\ StructInv /\ CallEffect(a) /\ RunEffect(a) /\ OthersEffect(a) /\ OpOK(a)
  BY DEF FreeInv, StructInv, Effects, OpsOK
<1>2. CASE b # a
  <2>1. CASE InCall(b, m)'
    <3>1. call[b].at # "none"
      <4>1. ~BeginsReset(a, b)
        BY EmptyFrames DEF BeginsReset, NoResetsNow
      <4> QED BY <1>1, <1>2, <2>1, <4>1, OthersFrames DEF InCall
    <3> QED BY <1>1, <1>2, <2>1, <3>1, OthersFrames DEF InCall
  <2>2. CASE InRun(b, m)'
    <3>1. CASE run'[b] = run[b]
      BY <2>2, <3>1 DEF InRun
    <3>2. CASE call[a].at = "emplace" /\ run'[b] = Entered(call[a].m) /\ b \in FreeThreads
      BY <2>2, <3>2, EmptyFrames DEF InRun, InCall, FreeThreads
    <3> QED BY <1>1, <1>2, <2>2, <3>1, <3>2, EmptyFrames DEF OthersEffect, ThreadEffect, InRun
  <2> QED BY <2>1, <2>2
<1>3. CASE b = a
  <2>1. CASE InRun(a, m)'
    BY <1>1, <1>3, <2>1, EmptyFrames DEF RunEffect, InRun
  <2>2. CASE InCall(a, m)'
    BY <1>1, <1>3, <2>2, EmptyFrames
       DEF CallEffect, Remains, Returns, Restores, MovesTo, Begins, InCall, InRun
  <2> QED BY <1>3, <2>1, <2>2
<1> QED BY <1>2, <1>3

LEMMA StepDestroyedByOne ==
  ASSUME NoSignalCopies, FreeInv, NEW a \in Actors, Effects(a), NoResetsNow'
  PROVE  DestroyedByOne'
<1>1. /\ FrameInv /\ StructInv /\ OpOK(a) /\ CallEffect(a)
      /\ \A m \in Macros : MemberEffect(a, m)
  BY DEF FreeInv, StructInv, OpsOK, Effects, MacroEffect
<1>2. ASSUME NEW b \in Actors, NEW m \in Macros, Destroys(b, m)' PROVE Destroys(b, m)
  <2>1. CASE b # a
    BY <1>1, <1>2, <2>1, OtherCommands DEF Destroys, InCall
  <2>2. CASE b = a
    <3>1. ~Begins(a)
      <4>1. CASE Begins(a)
        BY <1>2, <2>2, <4>1, BegunCalls, EmptyFrames DEF Destroys, SignalNames
      <4> QED BY <4>1
    <3> QED BY <1>1, <1>2, <2>2, <3>1, EmptyFrames
            DEF CallEffect, Remains, Returns, Restores, MovesTo, Destroys, InCall
  <2> QED BY <2>1, <2>2
<1>3. ASSUME NEW b \in Actors, NEW m \in Macros, Destroys(b, m)'
      PROVE  macro'[m].life \in {"dying", "terminated"}
  <2>1. Destroys(b, m) /\ macro[m].life \in {"dying", "terminated"}
    BY <1>2, <1>3 DEF FreeInv, DestroyedByOne
  <2>2. CASE macro'[m].life = macro[m].life
    BY <2>1, <2>2
  <2>3. CASE WritesLife(a, m) /\ Erasable(a) /\ call[a].op = "destroy"
    <3>1. Destroys(a, m) /\ a = b
      BY <2>1, <2>3 DEF WritesLife, FreeInv, DestroyedByOne, Destroys, InCall
    <3>2. call'[a] = NoCall
      BY <1>1, <2>3 DEF WritesLife, CallEffect, Remains, Returns, Restores, MovesTo, Goes, Begins
    <3> QED BY <1>3, <3>1, <3>2, EmptyFrames DEF Destroys, InCall
  <2>4. CASE WritesLife(a, m) /\ ~Erasable(a)
    BY <2>4 DEF WritesLife
  <2> QED BY <1>1, <2>2, <2>3, <2>4 DEF MemberEffect, WritesLife
<1> QED BY <1>2, <1>3 DEF DestroyedByOne, FreeInv

LEMMA StepLeft ==
  ASSUME NoSignalCopies, FreeInv, NEW a \in Actors, Effects(a), NoResetsNow'
  PROVE  Left'
<1> SUFFICES ASSUME NEW m \in Macros, macro'[m].life \in {"dying", "freed"}, NEW c \in Clients
             PROVE  (~InRun(c, m))' /\ (InCall(c, m)' => call'[c].op = "destroy")
  BY DEF Left
<1>1. /\ FrameInv /\ StructInv /\ OpOK(a) /\ CallEffect(a) /\ RunEffect(a) /\ OthersEffect(a)
      /\ MemberEffect(a, m) /\ ~Terminated /\ c \in Actors
  BY DEF FreeInv, StructInv, OpsOK, Effects, MacroEffect, Actors
<1>2. macro[m].life \in {"dying", "freed"}
  <2>1. CASE WritesLife(a, m)
    <3>1. Destroys(a, m)
      BY <2>1 DEF WritesLife, Destroys, InCall
    <3> QED BY <1>1, <3>1 DEF FreeInv, DestroyedByOne, Terminated
  <2> QED BY <1>1, <2>1 DEF MemberEffect
<1>3. ~InRun(c, m) /\ (InCall(c, m) => call[c].op = "destroy")
  BY <1>2 DEF FreeInv, Left
<1>4. c \notin Threads
  BY ActorsAssumption
<1>5. CASE c # a
  <2>1. run'[c] = run[c]
    BY <1>1, <1>4, <1>5, OthersFrames, EmptyFrames
  <2>2. call'[c] = call[c]
    BY <1>1, <1>5, OtherCommands, OthersFrames, EmptyFrames DEF BeginsReset, NoResetsNow
  <2> QED BY <1>3, <2>1, <2>2 DEF InRun, InCall
<1>6. CASE c = a
  <2>1. ~InRun(a, m)'
    BY <1>1, <1>3, <1>6, EmptyFrames DEF RunEffect, InRun
  <2>2. ASSUME InCall(a, m)' PROVE call'[a].op = "destroy"
    <3>1. ~Begins(a)
      BY <1>1, <1>3, <1>6, <2>2, EmptyFrames DEF Begins, InCall, InRun
    <3>2. ~Restores(a)
      BY <1>1 DEF Restores, OpOK, FreeInv, NoResetsNow
    <3> QED BY <1>1, <1>3, <1>6, <2>2, <3>1, <3>2, EmptyFrames
            DEF CallEffect, Remains, Returns, MovesTo, InCall
  <2> QED BY <1>6, <2>1, <2>2
<1> QED BY <1>5, <1>6

(* When the last destructor returns, nobody is left inside the macro. *)
LEMMA FreesAlone ==
  ASSUME FreeInv, NEW a \in Actors, NEW m \in Macros, call[a].at = "erase",
         Erasable(a), Destroys(a, m), ~Terminated, NEW b \in Actors, b # a
  PROVE  ~InCall(b, m) /\ ~InRun(b, m)
<1>1. macro[m].life = "dying" /\ ~Destroys(b, m)
  BY DEF FreeInv, DestroyedByOne, Terminated
<1>2. CASE b \in Clients
  BY <1>1, <1>2 DEF FreeInv, Left, Destroys
<1>3. CASE b \in Threads
  <2>1. ~InRun(b, m)
    <3>1. CASE InRun(b, m)
      <4>1. b \in macro[m].handles
        BY <1>3, <3>1 DEF FreeInv, LiveHeld, InRun
      <4> QED BY <4>1 DEF Erasable, CallR, Destroys, InCall
    <3> QED BY <3>1
  <2>2. InCall(b, m) => InRun(b, m)
    BY <1>3 DEF FreeInv, StructInv, FrameInv, FramesOK, AgreesOn, InCall, InRun
  <2> QED BY <2>1, <2>2
<1>4. CASE b \in Resets
  BY <1>4 DEF FreeInv, IdleResets, StructInv, FrameInv, FramesOK, AgreesOn, InCall, InRun
<1> QED BY <1>2, <1>3, <1>4 DEF Actors

LEMMA StepFreed ==
  ASSUME FreeInv, NEW a \in Actors, Effects(a), NoResetsNow'
  PROVE  FreedIsUntouched'
<1> SUFFICES ASSUME NEW m \in Macros, macro'[m].life = "freed", NEW b \in Actors
             PROVE  ~(InCall(b, m) \/ InRun(b, m))'
  BY DEF FreedIsUntouched, Untouched
<1>1. /\ FrameInv /\ StructInv /\ OpOK(a) /\ CallEffect(a) /\ RunEffect(a) /\ OthersEffect(a)
      /\ MemberEffect(a, m) /\ ~Terminated
  BY DEF FreeInv, StructInv, OpsOK, Effects, MacroEffect
<1>2. CASE macro[m].life = "freed"
  BY <1>2, ComesIn DEF FreeInv, FreedIsUntouched, Untouched
<1>3. CASE WritesLife(a, m) /\ macro[m].life # "freed"
  <2>1. call[a].at = "erase" /\ Erasable(a) /\ Destroys(a, m)
    BY <1>3 DEF WritesLife, Destroys, InCall
  <2>2. CASE b # a
    <3>1. ~InCall(b, m) /\ ~InRun(b, m)
      BY <1>1, <2>1, <2>2, FreesAlone
    <3>2. ~InRun(b, m)'
      BY <1>1, <2>1, <2>2, <3>1, EmptyFrames DEF OthersEffect, ThreadEffect, InRun
    <3>3. ~InCall(b, m)'
      BY <1>1, <2>1, <2>2, <3>1 DEF OthersEffect, CallsOfOthers, BeginsReset, InCall
    <3> QED BY <3>2, <3>3
  <2>3. CASE b = a
    <3>1. call'[a] = NoCall
      BY <1>1, <2>1 DEF CallEffect, Remains, Returns, Restores, MovesTo, Goes, Begins, Destroys
    <3>2. ~InRun(a, m) /\ call[a].at # "none"
      BY <2>1 DEF FreeInv, ClientsClear, Clears, Own, Destroys, InCall, InRun
    <3>3. ~InRun(a, m)'
      BY <1>1, <3>2, EmptyFrames DEF RunEffect, InRun
    <3> QED BY <2>3, <3>1, <3>3, EmptyFrames DEF InCall
  <2> QED BY <2>2, <2>3
<1> QED BY <1>1, <1>2, <1>3 DEF MemberEffect

LEMMA InvokeFree ==
  ASSUME FreeInv, NEW c \in Clients, NEW n \in Macros, NEW o \in Ops[c],
         InvokeEffect(c, n, o)
  PROVE  IdleResets' /\ LiveHeld' /\ ClientsClear' /\ Left' /\ DestroyedByOne'
         /\ FreedIsUntouched'
<1>1. /\ \A m \in Macros : macro'[m].handles = macro[m].handles
      /\ \A m \in Macros : macro'[m].life # macro[m].life =>
           m = n /\ o.name = "destroy" /\ macro'[m].life = "dying"
      /\ o.name = "destroy" => macro'[n].life = "dying"
  BY InvokeKeeps DEF FreeInv, StructInv, FrameInv
<1>2. /\ \A b \in Actors \ {c} : call'[b] = call[b] /\ run'[b] = run[b]
      /\ c \in Actors /\ call[c].at = "none" /\ run[c].at = "none" /\ macro[n].life = "alive"
  BY DEF InvokeEffect, CallsOfOthers, RunsOfOthers, Actors
<1>3. \/ o.name = "run" /\ call'[c] = call[c] /\ run'[c] = Entered(n)
      \/ o.name # "run" /\ run'[c] = run[c] /\ call'[c].m = n /\ call'[c].op = o.name
  BY EmptyFrames DEF InvokeEffect
<1>4. c \notin Threads /\ c \notin Resets
  BY ActorsAssumption
<1>5. IdleResets' /\ LiveHeld'
  <2>1. \A t \in Threads : call'[t] = call[t] /\ run'[t] = run[t] /\ run[t].m \in Macros
    BY <1>2, <1>4, InFrame DEF Actors, FreeInv, StructInv, FrameInv, RunM
  <2>2. \A x \in Resets : call'[x] = call[x]
    BY <1>2, <1>4 DEF Actors
  <2> QED BY <1>1, <2>1, <2>2 DEF FreeInv, IdleResets, LiveHeld
<1>6. ClientsClear'
  BY <1>2, <1>3 DEF FreeInv, ClientsClear, Clears, Own
<1>7. \A m \in Macros, b \in Actors :
        m # n \/ b # c => /\ InCall(b, m)' => InCall(b, m) /\ call'[b] = call[b]
                          /\ InRun(b, m)' => InRun(b, m)
  BY <1>2, <1>3, EmptyFrames DEF InCall, InRun
<1>8. Left'
  <2> SUFFICES ASSUME NEW m \in Macros, macro'[m].life \in {"dying", "freed"}, NEW d \in Clients
               PROVE  (~InRun(d, m))' /\ (InCall(d, m)' => call'[d].op = "destroy")
    BY DEF Left
  <2>1. CASE m # n
    BY <1>1, <1>7, <2>1 DEF FreeInv, Left, Actors
  <2>2. CASE m = n
    <3>1. o.name = "destroy" /\ \A e \in Clients : ~InCall(e, n) /\ ~InRun(e, n)
      BY <1>1, <1>2, <2>2 DEF InvokeEffect
    <3>2. CASE d # c
      BY <1>7, <2>2, <3>1, <3>2 DEF Actors
    <3>3. CASE d = c
      BY <1>2, <1>3, <3>1, <3>3 DEF InRun
    <3> QED BY <3>2, <3>3
  <2> QED BY <2>1, <2>2
<1>9. DestroyedByOne'
  <2>1. ASSUME NEW m \in Macros, NEW b \in Actors, Destroys(b, m)', m # n \/ b # c
        PROVE  Destroys(b, m)
    BY <1>7, <2>1 DEF Destroys
  <2>2. Destroys(c, n)' => o.name = "destroy" /\ \A b \in Actors : ~Destroys(b, n)
    BY <1>2, <1>3 DEF Destroys, InCall, FreeInv, DestroyedByOne
  <2> QED BY <1>1, <1>2, <2>1, <2>2 DEF FreeInv, DestroyedByOne
<1>10. FreedIsUntouched'
  BY <1>1, <1>2, <1>7 DEF FreeInv, FreedIsUntouched, Untouched
<1> QED BY <1>5, <1>6, <1>8, <1>9, <1>10

LEMMA FreeKept ==
  ASSUME NobodyResets, NoSignalCopies, FreeInv, [Next]_vars
  PROVE  FreeInv'
<1>1. StructInv' /\ NoResetsNow'
  BY StructKept, NoResetsKept DEF FreeInv
<1>2. CASE UNCHANGED vars
  BY <1>1, <1>2 DEF vars, FreeInv, IdleResets, LiveHeld, ClientsClear, Clears, Own, Left,
       DestroyedByOne, Destroys, FreedIsUntouched, Untouched, InCall, InRun
<1>3. CASE ~UNCHANGED vars
  <2>1. ASSUME NEW a \in Actors, Effects(a) PROVE FreeInv'
    BY <1>1, <2>1, StepIdleResets, StepClientsClear, StepLiveHeld, StepDestroyedByOne,
       StepLeft, StepFreed DEF FreeInv
  <2>2. ASSUME NEW c \in Clients, NEW n \in Macros, NEW o \in Ops[c], InvokeEffect(c, n, o)
        PROVE  FreeInv'
    BY <1>1, <2>2, InvokeFree DEF FreeInv
  <2> QED BY <1>3, <2>1, <2>2, NextEffects DEF Moves, FreeInv, StructInv
<1> QED BY <1>2, <1>3

LEMMA FreeInitially ==
  ASSUME Init
  PROVE  FreeInv
<1>1. \A a \in Actors : call[a].at = "none" /\ run[a].at = "none"
  BY EmptyFrames DEF Init
<1>2. IdleResets /\ NoResetsNow /\ LiveHeld /\ ClientsClear
  BY <1>1 DEF IdleResets, NoResetsNow, LiveHeld, ClientsClear, Clears, Actors
<1>3. Left /\ DestroyedByOne /\ FreedIsUntouched
  BY <1>1 DEF Left, DestroyedByOne, Destroys, FreedIsUntouched, Untouched, InCall, InRun, Actors
<1> QED BY <1>2, <1>3, StructInitially DEF FreeInv

LEMMA FreeAlways == ASSUME NobodyResets, NoSignalCopies PROVE Spec => []FreeInv
<1>1. Init => FreeInv
  BY FreeInitially
<1>2. FreeInv /\ [Next]_vars => FreeInv'
  BY FreeKept
<1> QED BY <1>1, <1>2, PTL DEF Spec

(* When nobody asks for a reset thread and signals do not copy, nobody is   *)
(* inside a macro whose destructor has returned.                            *)
THEOREM FreedMacrosAreLeft ==
  ASSUME NobodyResets, NoSignalCopies PROVE Spec => []FreedIsUntouched
<1>1. FreeInv => FreedIsUntouched
  BY DEF FreeInv
<1> QED BY <1>1, FreeAlways, PTL

-----------------------------------------------------------------------------
(***************************************************************************)
(* Joining the threads.  The one who clears joins the threads it finds and *)
(* then destroys all the handles there are: std::terminate() ends the      *)
(* program when start() has come in between.  First, nobody copies and     *)
(* nobody asks for a reset thread: it is the destructor that joins.        *)
(***************************************************************************)
NoSignalStarts == \A o \in Sent : o.name # "start"

(* Who has joined the threads may destroy their handles. *)
EraseOK == \A a \in Actors : call[a].at = "erase" => Erasable(a)

JoinInv == FreeInv /\ EraseOK /\ ~Terminated

LEMMA AtMostOne ==
  ASSUME NEW S, \A x, y \in S : x = y
  PROVE  Cardinality(S) <= 1
<1>1. CASE S = {}
  BY <1>1, FS_EmptySet
<1>2. CASE S # {}
  <2>1. PICK x : S = {x}
    BY <1>2
  <2> QED BY <2>1, FS_Singleton
<1> QED BY <1>1, <1>2

(* Only a new thread makes handles impossible to destroy again. *)
LEMMA ErasableKept ==
  ASSUME StructInv, EraseOK, NEW a \in Actors, Effects(a),
         NEW b \in Actors, call'[b].at = "erase",
         ~(call[a].at = "emplace" /\ call[a].m = call'[b].m)
  PROVE  Erasable(b)'
<1> DEFINE m == call'[b].m
<1>1. /\ FrameInv /\ CallEffect(a) /\ \A k \in Macros : MemberEffect(a, k)
  BY DEF StructInv, Effects, MacroEffect
<1>2. call[b].m = m /\ (macro[m].handles = {} \/ macro'[m].handles = {})
  <2>1. CASE b # a
    BY <1>1, <2>1, OtherCommands DEF EraseOK, Erasable, CallR
  <2>2. CASE b = a
    <3>1. ~Begins(a)
      <4>1. CASE Begins(a)
        <5>1. PICK o : /\ call'[a] = CallOf(EntryOf(o.name), run[a].m, o.name, o.val)
                       /\ o.name \in SignalNames \ {"send"}
          BY <4>1, BegunCalls
        <5>2. call'[a].at = EntryOf(o.name)
          BY <5>1, EmptyFrames
        <5>3. o.name \in OpNames \ {"run"}
          BY <5>1 DEF OpNames, SignalNames
        <5> QED BY <2>2, <5>2, <5>3, EntryPlaces
      <4> QED BY <4>1
    <3>2. ~Remains(a)
      BY <2>2 DEF Remains, EraseOK
    <3>3. MovesTo(a)
      BY <1>1, <2>2, <3>1, <3>2, EmptyFrames DEF CallEffect, Returns, Restores
    <3> QED BY <2>2, <3>3 DEF MovesTo, Goes
  <2> QED BY <2>1, <2>2
<1>3. m \in Macros
  BY <1>1, <1>2, InFrame DEF FrameInv, CallM
<1>4. macro'[m].handles = {}
  BY <1>1, <1>2, <1>3 DEF MemberEffect, WritesHandles
<1> QED BY <1>4 DEF Erasable, CallR

LEMMA NobodyTerminates ==
  ASSUME StructInv, EraseOK, NEW a \in Actors, Effects(a)
  PROVE  ~Terminated'
<1> SUFFICES ASSUME NEW m \in Macros, macro'[m].life = "terminated" PROVE FALSE
  BY DEF Terminated
<1>1. MemberEffect(a, m) /\ macro[m].life # "terminated"
  BY DEF Effects, MacroEffect, Terminated
<1> QED BY <1>1 DEF MemberEffect, WritesLife, EraseOK

(* A call of a client changes nobody's place but its own. *)
LEMMA InvokeErase ==
  ASSUME StructInv, EraseOK, NEW c \in Clients, NEW n \in Macros, NEW o \in Ops[c],
         InvokeEffect(c, n, o)
  PROVE  EraseOK' /\ ~Terminated'
<1>1. /\ \A m \in Macros : macro'[m].handles = macro[m].handles
      /\ \A m \in Macros : macro'[m].life # macro[m].life => macro'[m].life = "dying"
  BY InvokeKeeps DEF StructInv, FrameInv
<1>2. /\ \A b \in Actors \ {c} : call'[b] = call[b] /\ run'[b] = run[b]
      /\ call[c].at = "none" /\ ~Terminated
  BY DEF InvokeEffect, CallsOfOthers, RunsOfOthers
<1>3. ~Terminated'
  BY <1>1, <1>2 DEF Terminated
<1>4. ASSUME NEW b \in Actors, call'[b].at = "erase" PROVE Erasable(b)'
  <2>1. b # c
    <3>1. CASE o.name = "run"
      BY <1>2, <1>4, <3>1 DEF InvokeEffect
    <3>2. CASE o.name # "run"
      <4>1. call'[c].at = EntryOf(o.name) /\ o.name \in OpNames \ {"run"}
        BY <3>2, InvokedNames, EmptyFrames DEF InvokeEffect, EntryOf
      <4>2. EntryOf(o.name) # "erase"
        BY <4>1, EntryPlaces
      <4> QED BY <1>4, <4>1, <4>2
    <3> QED BY <3>1, <3>2
  <2>2. call[b].m \in Macros /\ macro[call[b].m].handles \subseteq Threads
    BY InFrame, MemberType DEF StructInv, FrameInv, CallM, CallR
  <2>3. \A t \in Threads : run'[t] = run[t]
    BY <1>2, ActorsAssumption DEF Actors
  <2> QED BY <1>1, <1>2, <1>4, <2>1, <2>2, <2>3 DEF EraseOK, Erasable, CallR
<1> QED BY <1>3, <1>4 DEF EraseOK

(* The calls these programs do not make. *)
LEMMA Joiners ==
  ASSUME NobodyCopies, NoSignalStarts, StructInv, NoResetsNow, NEW a \in Actors
  PROVE  /\ call[a].at \in {"join", "erase"} => Destroys(a, call[a].m)
         /\ call[a].at = "emplace" => Own(a) /\ call[a].op = "start"
<1>1. OpOK(a)
  BY DEF StructInv, OpsOK
<1>2. CASE call[a].at = "emplace"
  <2>1. call[a].op = "start" /\ call[a].at # "none"
    BY <1>1, <1>2 DEF OpOK, InSection
  <2> QED BY <1>2, <2>1, AskedFor DEF NoSignalStarts, Makes
<1>3. CASE call[a].at \in {"join", "erase"}
  <2>1. call[a].op \in {"copy", "destroy"} /\ call[a].at # "none"
    BY <1>1, <1>3 DEF OpOK, ClearingLabels, NoResetsNow
  <2>2. call[a].op # "copy"
    BY <2>1, AskedFor DEF NobodyCopies, Makes
  <2> QED BY <1>3, <2>1, <2>2 DEF Destroys, InCall
<1> QED BY <1>2, <1>3

LEMMA StepErase ==
  ASSUME NobodyCopies, NoSignalStarts, JoinInv, NEW a \in Actors, Effects(a)
  PROVE  EraseOK'
<1> SUFFICES ASSUME NEW b \in Actors, call'[b].at = "erase" PROVE Erasable(b)'
  BY DEF EraseOK
<1>1. FreeInv /\ StructInv /\ NoResetsNow
  BY DEF JoinInv, FreeInv
<1>2. ASSUME call[a].at = "emplace", call[a].m = call'[b].m PROVE FALSE
  <2>1. b # a /\ Own(a) /\ call[a].op = "start"
    <3>1. CASE b = a
      BY <1>2, <3>1, EmptyFrames
         DEF Effects, CallEffect, Remains, Returns, Restores, MovesTo, Goes, Begins
    <3> QED BY <1>1, <1>2, <3>1, Joiners
  <2>2. call'[b] = call[b]
    BY <1>1, <2>1, OtherCommands
  <2>3. Destroys(b, call[b].m) /\ call[b].m \in Macros
    BY <1>1, <2>2, Joiners, InFrame DEF StructInv, FrameInv, CallM
  <2>4. macro[call[b].m].life = "dying"
    BY <1>1, <2>3 DEF JoinInv, FreeInv, DestroyedByOne, Terminated
  <2> QED BY <1>1, <1>2, <2>1, <2>2, <2>3, <2>4 DEF FreeInv, Left, Own, InCall
<1> QED BY <1>1, <1>2, ErasableKept DEF JoinInv

LEMMA CopiesBySignals ==
  ASSUME NobodyCopies
  PROVE  NoSignalCopies
BY DEF NobodyCopies, NoSignalCopies

LEMMA JoinKept ==
  ASSUME NobodyResets, NobodyCopies, NoSignalStarts, JoinInv, [Next]_vars
  PROVE  JoinInv'
<1>1. FreeInv' /\ StructInv
  BY FreeKept, CopiesBySignals DEF JoinInv, FreeInv
<1>2. CASE UNCHANGED vars
  BY <1>1, <1>2 DEF vars, JoinInv, EraseOK, Erasable, CallR, Terminated
<1>3. CASE ~UNCHANGED vars
  BY <1>1, <1>3, StepErase, NobodyTerminates, InvokeErase, NextEffects
     DEF Moves, JoinInv, StructInv
<1> QED BY <1>2, <1>3

LEMMA NotTerminatedInitially ==
  ASSUME Init
  PROVE  EraseOK /\ ~Terminated
<1>1. \A a \in Actors : call[a].at = "none"
  BY EmptyFrames DEF Init
<1>2. \A m \in Macros : macro[m].life = "alive"
  BY DEF Init, NewMacro
<1> QED BY <1>1, <1>2 DEF EraseOK, Terminated

LEMMA JoinAlways ==
  ASSUME NobodyResets, NobodyCopies, NoSignalStarts PROVE Spec => []JoinInv
<1>1. Init => JoinInv
  BY FreeInitially, NotTerminatedInitially DEF JoinInv
<1>2. JoinInv /\ [Next]_vars => JoinInv'
  BY JoinKept
<1> QED BY <1>1, <1>2, PTL DEF Spec

(* When nobody copies or asks for a reset thread and signals do not start,  *)
(* then every thread has been joined when its handle is destroyed.          *)
THEOREM DestructorNeverTerminates ==
  ASSUME NobodyResets, NobodyCopies, NoSignalStarts PROVE Spec => []NeverTerminates
<1>1. JoinInv => NeverTerminates
  BY DEF JoinInv, NeverTerminates
<1> QED BY <1>1, JoinAlways, PTL

(* In the same programs, one thread at a time joins those of a macro. *)
THEOREM DestructorJoinsAlone ==
  ASSUME NobodyResets, NobodyCopies, NoSignalStarts PROVE Spec => []JoinedByOne
<1>1. ASSUME JoinInv PROVE JoinedByOne
  <2> SUFFICES ASSUME NEW m \in Macros
               PROVE  Cardinality({a \in Actors : InCall(a, m) /\ call[a].at \in {"join", "erase"}})
                        <= 1
    BY DEF JoinedByOne
  <2>1. \A a \in Actors : InCall(a, m) /\ call[a].at \in {"join", "erase"} => Destroys(a, m)
    BY <1>1, Joiners DEF JoinInv, FreeInv, InCall
  <2> QED BY <1>1, <2>1, AtMostOne DEF JoinInv, FreeInv, DestroyedByOne
<1> QED BY <1>1, JoinAlways, PTL

-----------------------------------------------------------------------------
(***************************************************************************)
(* Second, it is the reset threads of INTERRUPT_ALL that join, asked for   *)
(* by one client.  While one of them clears a macro, its interruptor is    *)
(* INTERRUPT_ALL, so that start() makes no thread and nobody may ask for   *)
(* another reset thread.  A signal or a client that sets another           *)
(* interruptor, copies or destroys would end that.                         *)
(***************************************************************************)
OnlyInterruptAll ==
  /\ \A o \in Called : o.name = "setInterruptor" /\ o.val \in Interrupts => o.val = INTERRUPT_ALL
  /\ \A o \in Sent : o.name # "setInterruptor"
  /\ \A n \in Initial : Setups[n].interruptor # INTERRUPT

(* A reset thread, and the setInterruptor() that is going to create it. *)
Clearing(a, m) == InCall(a, m) /\ (a \in Resets \/ call[a].at = "detach" \/ call[a].spawn)

Sets(a)        == call[a].at # "none" /\ call[a].op = "setInterruptor"
SetBy == \A a \in Actors : Sets(a) =>
  \/ a \in Clients /\ Commander(a) /\ (call[a].val \in Interrupts => call[a].val = INTERRUPT_ALL)
  \/ a \in Resets /\ call[a].val = CONTINUE
ClearingAll == \A a \in Actors, m \in Macros : Clearing(a, m) => macro[m].interruptor = INTERRUPT_ALL
ClearedByOne == \A a, b \in Actors, m \in Macros : Clearing(a, m) /\ Clearing(b, m) => a = b
WritesAlone == \A a, b \in Actors, m \in Macros :
  call[a].at = "write" /\ call[a].m = m /\ a \notin Resets => ~Clearing(b, m)
NoStartNow == \A a \in Actors : call[a].at \in InSection =>
  macro[call[a].m].interruptor # INTERRUPT_ALL
ResetPrev == \A a \in Actors :
  call[a].at \in {"compare", "write"} /\ a \in Resets => call[a].prev = INTERRUPT_ALL

ResetInv ==
  /\ StructInv /\ NeverInterrupt /\ NoneResumes /\ SetBy /\ ClearingAll /\ ClearedByOne
  /\ WritesAlone /\ NoStartNow /\ ResetPrev /\ EraseOK /\ ~Terminated

(* The calls these programs do not make. *)
LEMMA NeverCleared ==
  ASSUME NobodyClears, StructInv, NEW a \in Actors
  PROVE  /\ call[a].at # "none" => call[a].op \notin {"copy", "destroy"}
         /\ call[a].at \in Dequeues \cup {"assign", "erase", "join"} => call[a].op = "reset" /\ a \in Resets
         /\ call[a].at # "assign"
<1>1. OpOK(a)
  BY DEF StructInv, OpsOK
<1>2. call[a].at # "none" => call[a].op \notin {"copy", "destroy"}
  BY AskedFor DEF NobodyClears, Makes
<1> QED BY <1>1, <1>2 DEF OpOK, Dequeues, StickyLabels, ClearingLabels

(* Who writes the interruptor writes INTERRUPT_ALL, or is the one who       *)
(* clears and is done.                                                      *)
LEMMA ResetWrites ==
  ASSUME NobodyClears, ResetInv, NEW a \in Actors, NEW m \in Macros, WritesInterruptor(a, m)
  PROVE  /\ macro'[m].interruptor \in {CONTINUE, INTERRUPT_ALL}
         /\ call[a].at # "none" /\ call[a].m = m
         /\ \/ call[a].at \in Dequeues /\ Clearing(a, m) /\ macro'[m].interruptor = INTERRUPT_ALL
            \/ /\ call[a].at = "write" /\ macro[m].mutex = NoOne
               /\ \/ a \in Clients
                  \/ a \in Resets /\ call[a].val = CONTINUE
<1>1. OpOK(a) /\ FrameInv
  BY DEF ResetInv, StructInv, OpsOK
<1>2. call[a].at # "resume"
  BY DEF ResetInv, NoneResumes
<1>3. CASE call[a].at = "write"
  <2>1. Sets(a) /\ call[a].val \in Interrupts
    BY <1>1, <1>3, InFrame DEF OpOK, Sets, FrameInv, Legal
  <2>2. \/ a \in Clients /\ call[a].val = INTERRUPT_ALL
        \/ a \in Resets /\ call[a].val = CONTINUE
    BY <2>1 DEF ResetInv, SetBy
  <2> QED BY <1>3, <2>2 DEF WritesInterruptor, Dequeues
<1>4. CASE call[a].at \in Dequeues
  <2>1. call[a].op = "reset" /\ a \in Resets
    BY <1>4, NeverCleared DEF ResetInv
  <2> QED BY <1>4, <2>1
          DEF WritesInterruptor, ClearType, IsReset, Clearing, InCall, Dequeues
<1>5. call[a].at # "assign"
  BY NeverCleared DEF ResetInv
<1> QED BY <1>2, <1>3, <1>4, <1>5 DEF WritesInterruptor

(* How one comes to clear a macro. *)
LEMMA ComesToClear ==
  ASSUME ResetInv, NEW a \in Actors, Effects(a),
         NEW b \in Actors, NEW m \in Macros, Clearing(b, m)'
  PROVE  \/ Clearing(b, m)
         \/ /\ b = a /\ a \notin Resets /\ call[a].at = "write" /\ call[a].m = m
            /\ macro'[m].interruptor = INTERRUPT_ALL
         \/ BeginsReset(a, b) /\ Clearing(a, m)
<1>1. FrameInv /\ StructInv /\ CallEffect(a) /\ OthersEffect(a) /\ OpOK(a)
  BY DEF ResetInv, StructInv, OpsOK, Effects
<1>2. CASE b # a
  <2>1. CASE BeginsReset(a, b)
    BY <1>2, <2>1, EmptyFrames DEF BeginsReset, Clearing, InCall
  <2>2. CASE call'[b] = call[b]
    BY <1>2, <2>2 DEF Clearing, InCall
  <2> QED BY <1>1, <1>2, <2>1, <2>2, OthersFrames
<1>3. CASE b = a
  <2>1. CASE Remains(a)
    BY <1>3, <2>1 DEF Remains, Clearing, InCall
  <2>2. CASE Returns(a)
    BY <1>3, <2>2, EmptyFrames DEF Returns, Clearing, InCall
  <2>3. CASE Restores(a)
    <3>1. a \in Resets
      BY <1>1, <2>3 DEF Restores, OpOK
    <3> QED BY <1>3, <2>3, <3>1, EmptyFrames DEF Restores, Clearing, InCall
  <2>4. CASE Begins(a)
    <3>1. a \notin Resets
      BY <1>1, <2>4 DEF Begins, FrameInv, FramesOK, AgreesOn
    <3>2. call'[a].spawn = FALSE /\ call'[a].at # "detach"
      <4>1. PICK o : /\ call'[a] = CallOf(EntryOf(o.name), run[a].m, o.name, o.val)
                     /\ o.name \in SignalNames \ {"send"}
        BY <2>4, BegunCalls
      <4>2. call'[a].at = EntryOf(o.name) /\ call'[a].spawn = FALSE
        BY <4>1, EmptyFrames
      <4>3. o.name \in OpNames \ {"run"}
        BY <4>1 DEF OpNames, SignalNames
      <4> QED BY <4>2, <4>3, EntryPlaces
    <3> QED BY <1>3, <3>1, <3>2 DEF Clearing
  <2>5. CASE MovesTo(a) /\ call[a].at # "none"
    <3>1. CASE a \in Resets
      BY <1>3, <2>5, <3>1 DEF MovesTo, Clearing, InCall
    <3>2. CASE call'[a].at = "detach" /\ a \notin Resets
      <4>1. \/ call[a].at = "write" /\ macro'[call[a].m].interruptor = INTERRUPT_ALL
            \/ call[a].at = "apply" /\ call[a].spawn
        BY <2>5, <3>2 DEF MovesTo, Goes
      <4> QED BY <1>3, <2>5, <3>2, <4>1 DEF MovesTo, Clearing, InCall
    <3>3. CASE call'[a].spawn /\ a \notin Resets
      <4>1. \/ call[a].spawn
            \/ call[a].at = "write" /\ macro'[call[a].m].interruptor = INTERRUPT_ALL
        BY <2>5, <3>3 DEF MovesTo, Goes
      <4> QED BY <1>3, <2>5, <3>3, <4>1 DEF MovesTo, Clearing, InCall
    <3> QED BY <1>3, <3>1, <3>2, <3>3 DEF Clearing
  <2> QED BY <1>1, <2>1, <2>2, <2>3, <2>4, <2>5 DEF CallEffect
<1> QED BY <1>2, <1>3

LEMMA StepNeverInterrupt ==
  ASSUME NobodyClears, ResetInv, NEW a \in Actors, Effects(a)
  PROVE  NeverInterrupt'
<1> SUFFICES ASSUME NEW m \in Macros PROVE macro'[m].interruptor # INTERRUPT
  BY DEF NeverInterrupt
<1>1. MemberEffect(a, m) /\ macro[m].interruptor # INTERRUPT
  BY DEF Effects, MacroEffect, ResetInv, NeverInterrupt
<1> QED BY <1>1, ResetWrites DEF MemberEffect, CONTINUE, INTERRUPT, INTERRUPT_ALL

LEMMA StepSetBy ==
  ASSUME OnlyInterruptAll, ResetInv, NEW a \in Actors, Effects(a)
  PROVE  SetBy'
<1> SUFFICES ASSUME NEW b \in Actors, Sets(b)'
             PROVE  \/ /\ b \in Clients /\ Commander(b)
                       /\ call'[b].val \in Interrupts => call'[b].val = INTERRUPT_ALL
                    \/ b \in Resets /\ call'[b].val = CONTINUE
  BY DEF SetBy
<1>1. FrameInv /\ StructInv /\ CallEffect(a) /\ OpOK(a)
  BY DEF ResetInv, StructInv, OpsOK, Effects
<1>2. CASE Sets(b) /\ call'[b].val = call[b].val
  BY <1>2 DEF ResetInv, SetBy
<1>3. CASE b # a
  BY <1>1, <1>2, <1>3, OtherCommands DEF Sets
<1>4. CASE b = a
  <2>1. CASE Restores(a)
    <3>1. a \in Resets
      BY <1>1, <2>1 DEF Restores, OpOK
    <3> QED BY <1>4, <2>1, <3>1, EmptyFrames DEF Restores
  <2>2. CASE Begins(a)
    <3>1. run[a].m \in Macros
      BY <1>1, InFrame DEF FrameInv, RunM
    <3>2. macro[run[a].m].interruptor # INTERRUPT
      BY <3>1 DEF ResetInv, NeverInterrupt
    <3>3. PICK n \in DOMAIN SignalLists : \E i \in 1 .. Len(SignalLists[n]) :
            call'[a] = CallOf(EntryOf(SignalLists[n][i].name), run[a].m,
                              SignalLists[n][i].name, SignalLists[n][i].val)
      BY <2>2, <3>2 DEF Begins
    <3>4. PICK i \in 1 .. Len(SignalLists[n]) :
            call'[a] = CallOf(EntryOf(SignalLists[n][i].name), run[a].m,
                              SignalLists[n][i].name, SignalLists[n][i].val)
      BY <3>3
    <3>5. SignalLists[n][i] \in Sent
      BY DEF Sent
    <3> QED BY <1>4, <3>4, <3>5, EmptyFrames DEF Sets, OnlyInterruptAll
  <2>3. CASE Remains(a) \/ Returns(a) \/ MovesTo(a)
    BY <1>2, <1>4, <2>3, EmptyFrames DEF Remains, Returns, MovesTo, Sets, Goes
  <2> QED BY <1>1, <2>1, <2>2, <2>3 DEF CallEffect
<1> QED BY <1>3, <1>4

LEMMA StepClearingAll ==
  ASSUME NobodyClears, ResetInv, NEW a \in Actors, Effects(a)
  PROVE  ClearingAll'
<1> SUFFICES ASSUME NEW b \in Actors, NEW m \in Macros, Clearing(b, m)'
             PROVE  macro'[m].interruptor = INTERRUPT_ALL
  BY DEF ClearingAll
<1>1. /\ StructInv /\ ClearingAll /\ ClearedByOne /\ WritesAlone /\ OpOK(a)
      /\ CallEffect(a) /\ MemberEffect(a, m)
  BY DEF ResetInv, StructInv, OpsOK, Effects, MacroEffect
<1>2. ASSUME Clearing(b, m), b = a \/ ~Clearing(a, m)
      PROVE  macro'[m].interruptor = INTERRUPT_ALL
  <2>1. CASE macro'[m].interruptor = macro[m].interruptor
    BY <1>1, <1>2, <2>1 DEF ClearingAll
  <2>2. CASE WritesInterruptor(a, m)
    <3>1. \/ macro'[m].interruptor = INTERRUPT_ALL
          \/ call[a].at = "write" /\ call[a].m = m /\ a \notin Resets
          \/ call[a].at = "write" /\ call[a].m = m /\ a \in Resets /\ call[a].val = CONTINUE
      BY <2>2, ResetWrites, ActorsAssumption
    <3>2. CASE call[a].at = "write" /\ call[a].m = m /\ a \notin Resets
      BY <1>1, <1>2, <3>2 DEF WritesAlone
    <3>3. CASE call[a].at = "write" /\ call[a].m = m /\ a \in Resets /\ call[a].val = CONTINUE
      <4>1. b = a
        BY <1>2, <3>3 DEF Clearing, InCall
      <4>2. ~ChangesDispatch(call[a].prev, call[a].val)
        BY <3>3 DEF ResetInv, ResetPrev, ChangesDispatch, CONTINUE, INTERRUPT_ALL, DISABLE
      <4>3. call'[a] = NoCall
        BY <1>1, <3>3, <4>2 DEF CallEffect, Remains, Returns, Restores, MovesTo, Goes, Begins,
                                CONTINUE, INTERRUPT_ALL
      <4> QED BY <4>1, <4>3, EmptyFrames DEF Clearing, InCall
    <3> QED BY <3>1, <3>2, <3>3
  <2> QED BY <1>1, <2>1, <2>2 DEF MemberEffect
<1>3. CASE BeginsReset(a, b) /\ Clearing(a, m)
  <2>1. macro[m].interruptor = INTERRUPT_ALL
    BY <1>1, <1>3 DEF ClearingAll
  <2>2. ~WritesInterruptor(a, m)
    BY <1>3 DEF BeginsReset, WritesInterruptor, Dequeues
  <2> QED BY <1>1, <2>1, <2>2 DEF MemberEffect
<1>4. CASE Clearing(b, m) /\ b # a /\ Clearing(a, m)
  BY <1>1, <1>4 DEF ClearedByOne
<1> QED BY <1>2, <1>3, <1>4, ComesToClear

LEMMA StepClearedByOne ==
  ASSUME ResetInv, NEW a \in Actors, Effects(a)
  PROVE  ClearedByOne'
<1> SUFFICES ASSUME NEW b \in Actors, NEW d \in Actors, NEW m \in Macros,
                    Clearing(b, m)', Clearing(d, m)'
             PROVE  b = d
  BY DEF ClearedByOne
<1>1. ClearedByOne /\ WritesAlone
  BY DEF ResetInv
<1>2. ASSUME NEW x \in Actors, BeginsReset(a, x), Clearing(a, m),
             NEW y \in Actors, Clearing(y, m)'
      PROVE  y = x
  <2>1. ~Clearing(a, m)'
    BY <1>2, EmptyFrames DEF BeginsReset, Clearing, InCall
  <2>2. CASE y # x /\ y # a
    <3>1. Clearing(y, m)
      BY <1>2, <2>2 DEF BeginsReset, Clearing, InCall
    <3> QED BY <1>1, <1>2, <2>2, <3>1 DEF ClearedByOne
  <2> QED BY <1>2, <2>1, <2>2
<1>3. CASE call[a].at = "write" /\ a \notin Resets /\ call[a].m = m
  <2>1. ASSUME NEW x \in Actors, Clearing(x, m)' PROVE x = a
    BY <1>1, <1>3, <2>1, ComesToClear DEF WritesAlone, BeginsReset
  <2> QED BY <2>1
<1>4. CASE ~(call[a].at = "write" /\ a \notin Resets /\ call[a].m = m)
  <2>1. Clearing(b, m) \/ (BeginsReset(a, b) /\ Clearing(a, m))
    BY <1>4, ComesToClear
  <2>2. Clearing(d, m) \/ (BeginsReset(a, d) /\ Clearing(a, m))
    BY <1>4, ComesToClear
  <2> QED BY <1>1, <1>2, <2>1, <2>2 DEF ClearedByOne
<1> QED BY <1>3, <1>4

LEMMA StepWritesAlone ==
  ASSUME OneCommander, ResetInv, NEW a \in Actors, Effects(a)
  PROVE  WritesAlone'
<1> SUFFICES ASSUME NEW b \in Actors, NEW d \in Actors, NEW m \in Macros,
                    call'[b].at = "write", call'[b].m = m, b \notin Resets, Clearing(d, m)'
             PROVE  FALSE
  BY DEF WritesAlone
<1>1. /\ StructInv /\ FrameInv /\ ClearingAll /\ WritesAlone /\ SetBy /\ OpsOK /\ CallEffect(a)
  BY DEF ResetInv, StructInv, Effects
<1>2. call[b].at \in {"compare", "write"} /\ call[b].m = m /\ call'[b].val = call[b].val
      /\ (b = a => call[a].at = "compare" /\ macro[m].interruptor # call[a].val)
  <2>1. CASE b # a
    BY <1>1, <2>1, OtherCommands
  <2>2. CASE b = a
    <3>1. ~Begins(a)
      <4>1. CASE Begins(a)
        <5>1. PICK o : /\ call'[a] = CallOf(EntryOf(o.name), run[a].m, o.name, o.val)
                       /\ o.name \in SignalNames \ {"send"}
          BY <4>1, BegunCalls
        <5>2. call'[a].at = EntryOf(o.name) /\ o.name \in OpNames \ {"run"}
          BY <5>1, EmptyFrames DEF OpNames, SignalNames
        <5>3. EntryOf(o.name) # "write"
          BY <5>2, EntryPlaces
        <5> QED BY <2>2, <5>2, <5>3
      <4> QED BY <4>1
    <3>2. MovesTo(a)
      BY <1>1, <2>2, <3>1, EmptyFrames DEF CallEffect, Remains, Returns, Restores
    <3>3. call[a].at = "compare" /\ macro[call[a].m].interruptor # call[a].val
      BY <2>2, <3>2 DEF MovesTo, Goes
    <3> QED BY <2>2, <3>2, <3>3 DEF MovesTo
  <2> QED BY <2>1, <2>2
<1>3. b \in Clients /\ Commander(b) /\ call[b].val = INTERRUPT_ALL
  <2>1. Sets(b) /\ Legal(call[b])
    BY <1>1, <1>2, InFrame DEF OpsOK, OpOK, Sets, FrameInv
  <2>2. call[b].val \in Interrupts
    BY <1>2, <2>1 DEF Legal
  <2> QED BY <1>1, <2>1, <2>2 DEF SetBy
<1>4. ~Clearing(d, m) /\ ~Clearing(a, m)
  <2>1. CASE b = a
    BY <1>1, <1>2, <1>3, <2>1 DEF ClearingAll
  <2>2. CASE b # a
    BY <1>1, <1>2, <2>2, OtherCommands DEF WritesAlone
  <2> QED BY <2>1, <2>2
<1>5. d = a /\ a \notin Resets /\ call[a].at = "write"
  BY <1>4, ComesToClear
<1>6. a \in Clients /\ Commander(a)
  <2>1. Sets(a)
    BY <1>1, <1>5 DEF OpsOK, OpOK, Sets
  <2> QED BY <1>1, <1>5, <2>1 DEF SetBy
<1> QED BY <1>2, <1>3, <1>5, <1>6 DEF OneCommander

LEMMA StepNoStart ==
  ASSUME NobodyClears, ResetInv, NEW a \in Actors, Effects(a)
  PROVE  NoStartNow'
<1> SUFFICES ASSUME NEW b \in Actors, call'[b].at \in InSection
             PROVE  macro'[call'[b].m].interruptor # INTERRUPT_ALL
  BY DEF NoStartNow
<1> DEFINE m == call'[b].m
<1>1. /\ StructInv /\ FrameInv /\ HeldOK /\ ClearingAll /\ NoStartNow /\ CallEffect(a)
      /\ \A k \in Macros : MemberEffect(a, k)
  BY DEF ResetInv, StructInv, Effects, MacroEffect
<1>2. CASE call[b].at \in InSection /\ call[b].m = m
  <2>1. m \in Macros
    BY <1>1, <1>2, InFrame DEF FrameInv, CallM
  <2>2. macro[m].interruptor # INTERRUPT_ALL /\ macro[m].mutex = b /\ b # NoOne
    BY <1>1, <1>2, <2>1, ActorsAssumption DEF NoStartNow, HeldOK, Holds
  <2>3. ~WritesInterruptor(a, m)
    BY <1>1, <2>1, <2>2, ResetWrites DEF ClearingAll
  <2> QED BY <1>1, <2>1, <2>2, <2>3 DEF MemberEffect
<1>3. CASE b # a
  <2>1. "reset" \notin InSection /\ "none" \notin InSection
    BY DEF InSection
  <2> QED BY <1>1, <1>2, <1>3, <2>1, OtherCommands
<1>4. CASE b = a
  <2>1. ~Begins(a)
    <3>1. CASE Begins(a)
      <4>1. PICK o : /\ call'[a] = CallOf(EntryOf(o.name), run[a].m, o.name, o.val)
                     /\ o.name \in SignalNames \ {"send"}
        BY <3>1, BegunCalls
      <4>2. call'[a].at = EntryOf(o.name) /\ o.name \in OpNames \ {"run"}
        BY <4>1, EmptyFrames DEF OpNames, SignalNames
      <4>3. EntryOf(o.name) \notin InSection
        BY <4>2, EntryPlaces DEF InSection
      <4> QED BY <1>4, <4>2, <4>3
    <3> QED BY <3>1
  <2>2. MovesTo(a)
    BY <1>1, <1>4, <2>1, EmptyFrames DEF CallEffect, Remains, Returns, Restores, InSection
  <2>3. CASE call[a].at = "start"
    <3>1. m \in Macros /\ call[a].m = m
      BY <1>1, <1>4, <2>2, InFrame DEF MovesTo, FrameInv, CallM
    <3>2. CanStart(macro[m]) \/ macro[m].interruptor = INTERRUPT
      BY <1>4, <2>2, <2>3, <3>1 DEF MovesTo, Goes, InSection
    <3>3. macro[m].interruptor # INTERRUPT_ALL
      BY <3>2 DEF CanStart, CONTINUE, PAUSE, INTERRUPT, INTERRUPT_ALL
    <3>4. macro'[m].interruptor = macro[m].interruptor
      BY <1>1, <2>3, <3>1, <3>3 DEF MemberEffect, WritesInterruptor, Dequeues
    <3> QED BY <3>1, <3>3, <3>4
  <2>4. CASE call[a].at # "start"
    BY <1>2, <1>4, <2>2, <2>4 DEF MovesTo, Goes, InSection
  <2> QED BY <2>3, <2>4
<1> QED BY <1>3, <1>4

LEMMA StepResetPrev ==
  ASSUME ResetInv, NEW a \in Actors, Effects(a)
  PROVE  ResetPrev'
<1> SUFFICES ASSUME NEW b \in Resets, call'[b].at \in {"compare", "write"}
             PROVE  call'[b].prev = INTERRUPT_ALL
  BY DEF ResetPrev
<1>1. /\ StructInv /\ FrameInv /\ ClearingAll /\ ResetPrev /\ CallEffect(a) /\ b \in Actors
  BY DEF ResetInv, StructInv, Effects, Actors
<1>2. CASE b # a
  BY <1>1, <1>2, OtherCommands DEF ResetPrev
<1>3. CASE b = a
  <2>1. ~Begins(a)
    BY <1>1, <1>3 DEF Begins, FrameInv, FramesOK, AgreesOn
  <2>2. MovesTo(a)
    BY <1>1, <1>3, <2>1, EmptyFrames DEF CallEffect, Remains, Returns, Restores
  <2>3. CASE call[a].at = "interrupt" /\ call'[a].prev = macro[call[a].m].interruptor
    <3>1. Clearing(a, call[a].m) /\ call[a].m \in Macros
      BY <1>1, <1>3, <2>3, InFrame DEF Clearing, InCall, FrameInv, CallM
    <3> QED BY <1>1, <1>3, <2>3, <3>1 DEF ClearingAll
  <2>4. CASE call[a].at = "compare" /\ call'[a].prev = call[a].prev
    BY <1>1, <1>3, <2>4 DEF ResetPrev
  <2> QED BY <1>3, <2>2, <2>3, <2>4 DEF MovesTo, Goes
<1> QED BY <1>2, <1>3

LEMMA StepResetErase ==
  ASSUME NobodyClears, ResetInv, NEW a \in Actors, Effects(a), StructInv'
  PROVE  EraseOK'
<1> SUFFICES ASSUME NEW b \in Actors, call'[b].at = "erase" PROVE Erasable(b)'
  BY DEF EraseOK
<1>1. StructInv /\ FrameInv /\ ClearingAll /\ NoStartNow /\ CallEffect(a)
  BY DEF ResetInv, StructInv, Effects
<1>2. ASSUME call[a].at = "emplace", call[a].m = call'[b].m PROVE FALSE
  <2>1. b # a
    <3>1. CASE b = a
      BY <1>1, <1>2, <3>1, EmptyFrames
         DEF CallEffect, Remains, Returns, Restores, MovesTo, Goes, Begins
    <3> QED BY <3>1
  <2>2. call[b].at = "erase" /\ call[b].m = call[a].m
    BY <1>1, <1>2, <2>1, OtherCommands
  <2>3. Clearing(b, call[a].m) /\ call[a].m \in Macros
    BY <1>1, <2>2, NeverCleared, InFrame DEF Clearing, InCall, FrameInv, CallM
  <2>4. macro[call[a].m].interruptor # INTERRUPT_ALL
    BY <1>1, <1>2 DEF NoStartNow, InSection
  <2> QED BY <1>1, <2>3, <2>4 DEF ClearingAll
<1> QED BY <1>1, <1>2, ErasableKept DEF ResetInv

LEMMA InvokeReset ==
  ASSUME NobodyClears, OnlyInterruptAll, ResetInv,
         NEW c \in Clients, NEW n \in Macros, NEW o \in Ops[c], InvokeEffect(c, n, o)
  PROVE  /\ NeverInterrupt' /\ SetBy' /\ ClearingAll' /\ ClearedByOne' /\ WritesAlone'
         /\ NoStartNow' /\ ResetPrev'
<1>1. \A m \in Macros : macro'[m].interruptor = macro[m].interruptor
  BY InvokeKeeps DEF ResetInv, StructInv, FrameInv
<1>2. /\ \A b \in Actors \ {c} : call'[b] = call[b]
      /\ \A b \in Actors : call[b].m \in Macros
      /\ c \notin Resets /\ call[c].at = "none" /\ o \in Called
  BY ActorsAssumption, InFrame
     DEF InvokeEffect, CallsOfOthers, Called, ResetInv, StructInv, FrameInv, CallM
<1>3. \/ call'[c] = call[c]
      \/ /\ call'[c].op = o.name /\ call'[c].val = o.val /\ call'[c].spawn = FALSE
         /\ call'[c].at = EntryOf(o.name) /\ o.name \in OpNames \ {"run"}
  BY InvokedNames, EmptyFrames DEF InvokeEffect, EntryOf
<1>4. call'[c].at \notin InSection \cup {"compare", "write", "detach"} /\ (call'[c].at # "none" => ~call'[c].spawn)
  BY <1>2, <1>3, EntryPlaces DEF InSection
<1>5. \A b \in Actors, m \in Macros : Clearing(b, m)' => Clearing(b, m)
  BY <1>2, <1>4 DEF Clearing, InCall
<1>6. SetBy'
  <2> SUFFICES ASSUME NEW b \in Actors, Sets(b)'
               PROVE  \/ /\ b \in Clients /\ Commander(b)
                         /\ call'[b].val \in Interrupts => call'[b].val = INTERRUPT_ALL
                      \/ b \in Resets /\ call'[b].val = CONTINUE
    BY DEF SetBy
  <2>1. CASE b # c
    BY <1>2, <2>1 DEF Sets, ResetInv, SetBy
  <2>2. CASE b = c
    BY <1>2, <1>3, <2>2 DEF Sets, Commander, CommandNames, OnlyInterruptAll
  <2> QED BY <2>1, <2>2
<1>7. NeverInterrupt' /\ ClearingAll' /\ ClearedByOne'
  BY <1>1, <1>5 DEF ResetInv, NeverInterrupt, ClearingAll, ClearedByOne
<1>8. WritesAlone'
  BY <1>2, <1>4, <1>5 DEF ResetInv, WritesAlone
<1>9. NoStartNow' /\ ResetPrev'
  BY <1>1, <1>2, <1>4 DEF ResetInv, NoStartNow, ResetPrev
<1> QED BY <1>6, <1>7, <1>8, <1>9

LEMMA ResetKept ==
  ASSUME NobodyClears, OneCommander, OnlyInterruptAll, ResetInv, [Next]_vars
  PROVE  ResetInv'
<1>1. StructInv' /\ StructInv /\ EraseOK
  BY StructKept DEF ResetInv
<1>2. CASE UNCHANGED vars
  BY <1>1, <1>2 DEF vars, ResetInv, NeverInterrupt, NoneResumes, SetBy, Sets, ClearingAll, ClearedByOne,
       WritesAlone, Clearing, InCall, NoStartNow, ResetPrev, EraseOK, Erasable, CallR,
       Terminated
<1>3. CASE ~UNCHANGED vars
  <2>1. ASSUME NEW a \in Actors, Effects(a) PROVE ResetInv'
    BY <1>1, <2>1, StepNeverInterrupt, StepSetBy, StepClearingAll, StepClearedByOne,
       StepWritesAlone, StepNoStart, StepResetPrev, StepResetErase, NobodyTerminates,
       StepNoneResumes
       DEF ResetInv
  <2>2. ASSUME NEW c \in Clients, NEW n \in Macros, NEW o \in Ops[c], InvokeEffect(c, n, o)
        PROVE  ResetInv'
    BY <1>1, <2>2, InvokeReset, InvokeErase, InvokeNoneResumes DEF ResetInv
  <2> QED BY <1>1, <1>3, <2>1, <2>2, NextEffects DEF Moves, StructInv
<1> QED BY <1>2, <1>3

LEMMA ResetInitially ==
  ASSUME OnlyInterruptAll, Init
  PROVE  ResetInv
<1>1. \A a \in Actors : call[a].at = "none"
  BY EmptyFrames DEF Init
<1>2. ASSUME NEW m \in Macros PROVE macro[m].interruptor # INTERRUPT
  <2>1. PICK n \in Initial : macro[m] = NewMacro(Setups[n])
    BY DEF Init
  <2> QED BY <2>1 DEF NewMacro, OnlyInterruptAll
<1> QED BY <1>1, <1>2, StructInitially, NotTerminatedInitially
        DEF ResetInv, NeverInterrupt, NoneResumes, SetBy, Sets, ClearingAll, ClearedByOne, WritesAlone,
            Clearing, InCall, NoStartNow, InSection, ResetPrev

LEMMA ResetAlways ==
  ASSUME NobodyClears, OneCommander, OnlyInterruptAll PROVE Spec => []ResetInv
<1>1. Init => ResetInv
  BY ResetInitially
<1>2. ResetInv /\ [Next]_vars => ResetInv'
  BY ResetKept
<1> QED BY <1>1, <1>2, PTL DEF Spec

(* When one client alone sets the interruptor, to nothing but INTERRUPT_ALL, *)
(* and nobody copies or destroys, then every thread has been joined when its *)
(* handle is destroyed, however starts and INTERRUPT_ALLs follow.            *)
THEOREM ResetNeverTerminates ==
  ASSUME NobodyClears, OneCommander, OnlyInterruptAll PROVE Spec => []NeverTerminates
<1>1. ResetInv => NeverTerminates
  BY DEF ResetInv, NeverTerminates
<1> QED BY <1>1, ResetAlways, PTL

(* In the same programs, one reset thread at a time joins the threads of a  *)
(* macro.                                                                   *)
THEOREM ResetJoinsAlone ==
  ASSUME NobodyClears, OneCommander, OnlyInterruptAll PROVE Spec => []JoinedByOne
<1>1. ASSUME ResetInv PROVE JoinedByOne
  <2> SUFFICES ASSUME NEW m \in Macros
               PROVE  Cardinality({a \in Actors : InCall(a, m) /\ call[a].at \in {"join", "erase"}})
                        <= 1
    BY DEF JoinedByOne
  <2>1. \A a \in Actors : InCall(a, m) /\ call[a].at \in {"join", "erase"} => Clearing(a, m)
    BY <1>1, NeverCleared DEF ResetInv, Clearing
  <2> QED BY <1>1, <2>1, AtMostOne DEF ResetInv, ClearedByOne
<1> QED BY <1>1, ResetAlways, PTL
=============================================================================
