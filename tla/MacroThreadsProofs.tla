------------------------- MODULE MacroThreadsProofs -------------------------
(***************************************************************************)
(* Theorems about MacroThreads, for any number of macros, clients, threads *)
(* and reset threads.                                                      *)
(***************************************************************************)
EXTENDS MacroThreads, FiniteSetTheorems, TLAPS

-----------------------------------------------------------------------------
(* What the helpers keep. *)

(* A counter that wraps around stays a counter. *)
LEMMA CounterType ==
  ASSUME NEW n \in 0 .. Wrap - 1
  PROVE  Incremented(n) \in 0 .. Wrap - 1 /\ Decremented(n) \in 0 .. Wrap - 1
BY LimitsAssumption DEF Incremented, Decremented

(* The members a macro has, and each change of one of them. *)
LEMMA MemberType ==
  ASSUME NEW r \in MacroRecord
  PROVE  /\ r.interruptor \in Interrupts
         /\ r.threadMax \in 1 .. GlobalThreadMax
         /\ r.queued \in Int
         /\ r.threadCount \in 0 .. Wrap - 1
         /\ r.signals \in DOMAIN SignalLists
         /\ r.handles \in SUBSET Threads
         /\ r.waiting \in SUBSET Actors
BY DEF MacroRecord

LEMMA UpdateType ==
  ASSUME NEW r \in MacroRecord
  PROVE  /\ \A v \in Interrupts : Interrupt(r, v) \in MacroRecord
         /\ Emptied(r) \in MacroRecord
         /\ Notified(r) \in MacroRecord
         /\ \A a \in Actors : Locked(r, a) \in MacroRecord
         /\ Unlocked(r) \in MacroRecord
         /\ \A a \in Actors : Blocked(r, a) \in MacroRecord
         /\ \A t \in Threads : WithHandle(r, t) \in MacroRecord
         /\ NoHandles(r) \in MacroRecord
         /\ Uncounted(r) \in MacroRecord
         /\ \A n \in Int : QueuedBy(r, n) \in MacroRecord
         /\ \A v \in BOOLEAN : [r EXCEPT !.registered = v] \in MacroRecord
         /\ \A v \in BOOLEAN : [r EXCEPT !.sticky = v] \in MacroRecord
         /\ \A v \in DOMAIN SignalLists : [r EXCEPT !.signals = v] \in MacroRecord
         /\ \A v \in 1 .. GlobalThreadMax : [r EXCEPT !.threadMax = v] \in MacroRecord
         /\ \A v \in 0 .. Wrap - 1 : [r EXCEPT !.threadCount = v] \in MacroRecord
         /\ \A v \in {"alive", "dying", "freed", "terminated"} :
              [r EXCEPT !.life = v] \in MacroRecord
<1> USE DEF MacroRecord
<1>1. \A v \in Interrupts : Interrupt(r, v) \in MacroRecord
  BY DEF Interrupt
<1>2. Emptied(r) \in MacroRecord
  BY DEF Emptied
<1>3. Notified(r) \in MacroRecord
  BY DEF Notified
<1>4. \A a \in Actors : Locked(r, a) \in MacroRecord
  BY DEF Locked
<1>5. Unlocked(r) \in MacroRecord
  BY DEF Unlocked
<1>6. \A a \in Actors : Blocked(r, a) \in MacroRecord
  BY DEF Blocked
<1>7. \A t \in Threads : WithHandle(r, t) \in MacroRecord
  BY DEF WithHandle
<1>8. NoHandles(r) \in MacroRecord
  BY DEF NoHandles
<1>9. Uncounted(r) \in MacroRecord
  BY LimitsAssumption DEF Uncounted
<1>10. \A n \in Int : QueuedBy(r, n) \in MacroRecord
  BY DEF QueuedBy
<1>11. \A v \in BOOLEAN : [r EXCEPT !.registered = v] \in MacroRecord
  OBVIOUS
<1>12. \A v \in BOOLEAN : [r EXCEPT !.sticky = v] \in MacroRecord
  OBVIOUS
<1>13. \A v \in DOMAIN SignalLists : [r EXCEPT !.signals = v] \in MacroRecord
  OBVIOUS
<1>14. \A v \in 1 .. GlobalThreadMax : [r EXCEPT !.threadMax = v] \in MacroRecord
  OBVIOUS
<1>15. \A v \in 0 .. Wrap - 1 : [r EXCEPT !.threadCount = v] \in MacroRecord
  OBVIOUS
<1>16. \A v \in {"alive", "dying", "freed", "terminated"} :
         [r EXCEPT !.life = v] \in MacroRecord
  OBVIOUS
<1> HIDE DEF MacroRecord
<1> QED BY <1>1, <1>2, <1>3, <1>4, <1>5, <1>6, <1>7, <1>8, <1>9, <1>10, <1>11, <1>12,
           <1>13, <1>14, <1>15, <1>16

(* The composed changes. *)
LEMMA ComposedType ==
  ASSUME NEW r \in MacroRecord
  PROVE  /\ Limited(r) \in MacroRecord
         /\ \A v \in Interrupts : Dequeued(r, v) \in MacroRecord
         /\ \A v \in Interrupts : Written(r, v) \in MacroRecord
         /\ CountedIn(r) \in MacroRecord
         /\ CountedOut(r) \in MacroRecord
         /\ \A n \in DOMAIN Setups : Copied(r, Setups[n]) \in MacroRecord
         /\ \A op : LivesOn(r, op) \in MacroRecord
<1>1. Limited(r) \in MacroRecord
  BY UpdateType DEF Limited
<1>2. \A v \in Interrupts : Dequeued(r, v) \in MacroRecord
  BY UpdateType DEF Dequeued
<1>3. \A v \in Interrupts : Written(r, v) \in MacroRecord
  <2>1. CONTINUE \in Interrupts /\ INTERRUPT_ALL \in Interrupts
    BY DEF Interrupts, CONTINUE, INTERRUPT_ALL, DISABLE
  <2> QED BY <1>2, <2>1, UpdateType DEF Written, NothingToInterrupt
<1>4. CountedIn(r) \in MacroRecord /\ CountedOut(r) \in MacroRecord
  BY UpdateType, MemberType, CounterType DEF CountedIn, CountedOut
<1>5. \A n \in DOMAIN Setups : Copied(r, Setups[n]) \in MacroRecord
  BY SetupsAssumption DEF Copied, MacroRecord
<1>6. \A op : LivesOn(r, op) \in MacroRecord
  <2>1. r.life \in {"alive", "dying", "freed", "terminated"}
    BY DEF MacroRecord
  <2> QED BY <2>1, UpdateType DEF LivesOn
<1> QED BY <1>1, <1>2, <1>3, <1>4, <1>5, <1>6

(* A macro that is made is a macro, an empty frame is a frame. *)
LEMMA InitialType ==
  /\ \A n \in Initial : NewMacro(Setups[n]) \in MacroRecord
  /\ AnyMacro \in Macros
  /\ NoFrame \in RunFrame
  /\ NoCall \in CallFrame
  /\ Legal(NoCall)
<1>1. \A n \in Initial : NewMacro(Setups[n]) \in MacroRecord
  BY SetupsAssumption, LimitsAssumption DEF NewMacro, MacroRecord
<1>2. AnyMacro \in Macros
  BY SetupsAssumption DEF AnyMacro
<1>3. NoFrame \in RunFrame
  BY <1>2 DEF NoFrame, RunFrame, RunLabels
<1>4. NoCall \in CallFrame /\ Legal(NoCall)
  BY <1>2 DEF NoCall, CallOf, CallFrame, CallLabels, Legal, Interrupts, CONTINUE, DISABLE,
              OpNames, SignalNames
<1> QED BY <1>1, <1>2, <1>3, <1>4

-----------------------------------------------------------------------------
(* What the helpers of the steps keep. *)

LEMMA SetKeeps ==
  ASSUME MacrosOK, NEW m \in Macros, NEW r \in MacroRecord, Set(m, r)
  PROVE  MacrosOK'
BY DEF MacrosOK, Set

LEMMA RunToKeeps ==
  ASSUME RunsOK, NEW a \in Actors, NEW l \in RunLabels, RunTo(a, l)
  PROVE  RunsOK'
BY DEF RunsOK, RunTo, RunFrame

LEMMA SendFromKeeps ==
  ASSUME RunsOK, NEW a \in Actors, NEW i \in Nat \ {0}, SendFrom(a, i)
  PROVE  RunsOK'
BY DEF RunsOK, SendFrom, RunFrame, RunLabels

(* A frame that replaces another. *)
LEMMA FrameKeeps ==
  ASSUME CallsOK, NEW a \in Actors, NEW f \in CallFrame, Legal(f),
         call' = [call EXCEPT ![a] = f]
  PROVE  CallsOK'
BY DEF CallsOK, Legal

(* Where an argument is stored is entered by the call it belongs to. *)
LEMMA GotoKeeps ==
  ASSUME CallsOK, NEW a \in Actors, NEW l \in CallLabels, Goto(a, l),
         l \notin {"setSignals", "setThreadMax"}, l = "assign" => call[a].op = "copy",
         l \in {"compare", "write"} => call[a].val \in Interrupts
  PROVE  CallsOK'
<1> DEFINE f == [call[a] EXCEPT !.at = l]
<1>1. call[a] \in CallFrame /\ Legal(call[a])
  BY DEF CallsOK
<1>2. f \in CallFrame
  BY <1>1 DEF CallFrame
<1>3. f.at = l /\ f.op = call[a].op /\ f.val = call[a].val
  BY <1>1 DEF CallFrame
<1>4. Legal(f)
  BY <1>1, <1>3 DEF Legal
<1>5. call' = [call EXCEPT ![a] = f]
  BY DEF Goto
<1> HIDE DEF f
<1> QED BY <1>2, <1>4, <1>5, FrameKeeps

LEMMA ReturnKeeps ==
  ASSUME CallsOK, NEW a \in Actors, Return(a)
  PROVE  CallsOK'
BY InitialType, FrameKeeps DEF Return

LEMMA ThrowKeeps ==
  ASSUME CallsOK, RunsOK, NEW a \in Actors, Throw(a)
  PROVE  CallsOK' /\ RunsOK'
<1>1. CallsOK'
  BY ReturnKeeps DEF Throw
<1>2. CASE run[a].at = "send"
  BY <1>1, <1>2, RunToKeeps DEF Throw, RunTo, RunLabels
<1>3. CASE run[a].at # "send"
  BY <1>1, <1>3 DEF Throw, RunsOK
<1> QED BY <1>2, <1>3

LEMMA BeginKeeps ==
  ASSUME CallsOK, NEW a \in Actors, NEW m \in Macros, NEW o,
         LegalCall(o, OpNames), o.name # "run", Begin(a, m, o)
  PROVE  CallsOK'
<1> DEFINE f == CallOf(EntryOf(o.name), m, o.name, o.val)
<1>1. o.name \in OpNames /\ o.val \in Nat
  BY DEF LegalCall
<1>2. /\ EntryOf(o.name) \in CallLabels
      /\ EntryOf(o.name) \in {"setSignals", "setThreadMax"} => o.name = EntryOf(o.name)
      /\ EntryOf(o.name) \notin {"assign", "compare", "write"}
  BY <1>1 DEF EntryOf, CallLabels, OpNames, SignalNames
<1>3. f \in CallFrame
  BY <1>1, <1>2 DEF CallOf, CallFrame, Interrupts, CONTINUE, DISABLE
<1>4. Legal(f)
  BY <1>2 DEF Legal, CallOf, LegalCall
<1>5. call' = [call EXCEPT ![a] = f]
  BY DEF Begin
<1> HIDE DEF f
<1> QED BY <1>3, <1>4, <1>5, FrameKeeps

-----------------------------------------------------------------------------
(* Type correctness, one lemma per group of actions. *)

LEMMA InFrame ==
  ASSUME TypeOK, NEW a \in Actors
  PROVE  /\ CallM(a) \in Macros
         /\ CallR(a) \in MacroRecord
         /\ call[a].op \in OpNames \cup {"reset"}
         /\ call[a].prev \in Interrupts
         /\ call[a].val \in Nat
         /\ Legal(call[a])
         /\ RunM(a) \in Macros
         /\ RunR(a) \in MacroRecord
         /\ run[a] \in RunFrame
         /\ run[a].i \in Nat \ {0}
BY DEF TypeOK, MacrosOK, RunsOK, CallsOK, CallM, CallR, RunM, RunR, CallFrame, RunFrame

(* What a step leaves alone keeps its type. *)
LEMMA UnchangedKeeps ==
  ASSUME TypeOK
  PROVE  /\ UNCHANGED macro => MacrosOK'
         /\ UNCHANGED run => RunsOK'
         /\ UNCHANGED call => CallsOK'
         /\ UNCHANGED active => ActiveOK'
BY DEF TypeOK, MacrosOK, RunsOK, CallsOK, ActiveOK, Legal

LEMMA StartTyped ==
  ASSUME TypeOK, NEW a \in Actors, StartStep(a)
  PROVE  TypeOK'
<1> USE DEF TypeOK
<1>1. CallM(a) \in Macros /\ CallR(a) \in MacroRecord
  BY InFrame
<1>2. CONTINUE \in Interrupts
  BY DEF Interrupts, CONTINUE, DISABLE
<1>3. CASE StartLock(a)
  <2>1. Locked(CallR(a), a) \in MacroRecord
    BY <1>1, UpdateType
  <2>2. MacrosOK'
    BY <1>1, <1>3, <2>1, SetKeeps, UnchangedKeeps DEF StartLock
  <2>3. CallsOK'
    BY <1>3, GotoKeeps, ReturnKeeps DEF StartLock, CallLabels
  <2> QED BY <1>3, <2>2, <2>3, UnchangedKeeps DEF StartLock
<1>4. CASE Reserve(a)
  <2>1. Unlocked(Emptied(CallR(a))) \in MacroRecord
    BY <1>1, UpdateType
  <2>2. MacrosOK'
    BY <1>1, <1>4, <2>1, SetKeeps, UnchangedKeeps DEF Reserve
  <2>3. CallsOK'
    BY <1>4, GotoKeeps DEF Reserve, CallLabels
  <2>4. ActiveOK'
    BY <1>4, LimitsAssumption DEF Reserve, ActiveOK, GlobalFull
  <2> QED BY <1>4, <2>2, <2>3, <2>4, UnchangedKeeps DEF Reserve
<1>5. CASE IncQueuedTest(a)
  <2>1. CallsOK'
    BY <1>5, GotoKeeps DEF IncQueuedTest, CallLabels
  <2> QED BY <1>5, <2>1, UnchangedKeeps DEF IncQueuedTest
<1>6. CASE IncQueued(a)
  <2> \A n \in Int : QueuedBy(CallR(a), n) \in MacroRecord
    BY <1>1, UpdateType
  <2>1. QueuedBy(CallR(a), 1) \in MacroRecord
    OBVIOUS
  <2>2. MacrosOK'
    BY <1>1, <1>6, <2>1, ComposedType, SetKeeps DEF IncQueued
  <2>3. CallsOK'
    BY <1>6, GotoKeeps DEF IncQueued, CallLabels
  <2> QED BY <1>6, <2>2, <2>3, UnchangedKeeps DEF IncQueued
<1>7. CASE CheckQueued(a)
  <2>1. Unlocked(Emptied(CallR(a))) \in MacroRecord
    BY <1>1, UpdateType
  <2>2. MacrosOK'
    BY <1>1, <1>7, <2>1, SetKeeps, UnchangedKeeps DEF CheckQueued
  <2>3. CallsOK'
    BY <1>7, GotoKeeps DEF CheckQueued, CallLabels
  <2>4. ActiveOK'
    BY <1>7, CounterType DEF CheckQueued, ActiveOK
  <2> QED BY <1>7, <2>2, <2>3, <2>4, UnchangedKeeps DEF CheckQueued
<1>8. CASE Spawn(a)
  <2>1. PICK t \in FreeThreads :
          /\ run' = [run EXCEPT ![t] = Entered(CallM(a))]
          /\ Set(CallM(a), Unlocked(WithHandle(CallR(a), t)))
    BY <1>8 DEF Spawn
  <2>2. t \in Threads /\ t \in Actors
    BY DEF FreeThreads, Actors
  <2>3. MacrosOK'
    BY <1>1, <2>1, <2>2, UpdateType, SetKeeps
  <2>4. Entered(CallM(a)) \in RunFrame
    BY <1>1 DEF Entered, RunFrame, RunLabels
  <2>5. RunsOK'
    BY <2>1, <2>2, <2>4 DEF RunsOK
  <2> QED BY <1>8, <2>3, <2>5, ReturnKeeps, UnchangedKeeps DEF Spawn
<1>9. CASE SpawnFails(a)
  <2>1. MacrosOK'
    BY <1>1, <1>9, UpdateType, SetKeeps DEF SpawnFails
  <2>2. CallsOK'
    BY <1>9, GotoKeeps DEF SpawnFails, CallLabels
  <2>3. ActiveOK'
    BY <1>9, CounterType DEF SpawnFails, ActiveOK
  <2> QED BY <1>9, <2>1, <2>2, <2>3, UnchangedKeeps DEF SpawnFails
<1>10. CASE LimitMaxThreads(a)
  <2>1. MacrosOK'
    BY <1>1, <1>10, ComposedType, SetKeeps DEF LimitMaxThreads
  <2>2. CallsOK'
    BY <1>10, GotoKeeps, ReturnKeeps DEF LimitMaxThreads, CallLabels
  <2> QED BY <1>10, <2>1, <2>2, UnchangedKeeps DEF LimitMaxThreads
<1>11. CASE Resume(a)
  <2>1. Interrupt(CallR(a), CONTINUE) \in MacroRecord
    BY <1>1, <1>2, UpdateType
  <2>2. Notified(Interrupt(CallR(a), CONTINUE)) \in MacroRecord
    BY <2>1, UpdateType
  <2>3. MacrosOK'
    BY <1>1, <1>11, <2>2, UpdateType, SetKeeps DEF Resume
  <2> QED BY <1>11, <2>3, ReturnKeeps, UnchangedKeeps DEF Resume
<1> QED BY <1>3, <1>4, <1>5, <1>6, <1>7, <1>8, <1>9, <1>10, <1>11 DEF StartStep

LEMMA SetInterruptorTyped ==
  ASSUME TypeOK, NEW a \in Actors, SetInterruptorStep(a)
  PROVE  TypeOK'
<1> USE DEF TypeOK
<1>1. /\ CallM(a) \in Macros
      /\ CallR(a) \in MacroRecord
      /\ CallR(a).interruptor \in Interrupts
      /\ call[a].op \in OpNames \cup {"reset"}
      /\ call[a].prev \in Interrupts
      /\ call[a].val \in Nat
      /\ Legal(call[a])
  BY InFrame, MemberType
<1>2. CASE ReadInterruptor(a)
  <2>1. CASE call[a].val \in Interrupts
    <3> DEFINE f == [at |-> "compare", m |-> call[a].m, op |-> call[a].op,
                     val |-> call[a].val, prev |-> CallR(a).interruptor, spawn |-> FALSE]
    <3>1. f \in CallFrame /\ Legal(f)
      BY <1>1, <2>1 DEF CallFrame, CallLabels, Legal, CallM
    <3>2. call' = [call EXCEPT ![a] = f]
      BY <1>2, <2>1 DEF ReadInterruptor, Remember
    <3> HIDE DEF f
    <3>3. CallsOK'
      BY <3>1, <3>2, FrameKeeps
    <3> QED BY <1>2, <2>1, <3>3, UnchangedKeeps DEF ReadInterruptor
  <2>2. CASE call[a].val \notin Interrupts
    BY <1>2, <2>2, ThrowKeeps, UnchangedKeeps DEF ReadInterruptor
  <2> QED BY <2>1, <2>2
<1>3. CASE CompareInterruptor(a)
  <2>1. call[a].val \in Interrupts
    BY <1>1, <1>3 DEF CompareInterruptor, CallAt, Legal
  <2>2. CallsOK'
    BY <1>3, <2>1, GotoKeeps, ReturnKeeps DEF CompareInterruptor, CallLabels
  <2> QED BY <1>3, <2>2, UnchangedKeeps DEF CompareInterruptor
<1>4. CASE WriteInterruptor(a)
  <2> DEFINE spawn == call[a].val = INTERRUPT_ALL /\ Running(CallR(a))
             f     == Spawning(call[a], spawn)
  <2>1. call[a].val \in Interrupts
    BY <1>1, <1>4 DEF WriteInterruptor, CallAt, Legal
  <2>2. MacrosOK'
    BY <1>1, <1>4, <2>1, ComposedType, SetKeeps DEF WriteInterruptor
  <2>3. CASE ChangesDispatch(call[a].prev, call[a].val)
    <3>1. spawn \in BOOLEAN
      OBVIOUS
    <3>2. call' = [call EXCEPT ![a] = f]
      BY <1>4, <2>3 DEF WriteInterruptor
    <3> HIDE DEF spawn
    <3>4. f \in CallFrame
      BY <1>1, <3>1 DEF Spawning, CallFrame, CallLabels, CallM
    <3>5. Legal(f)
      BY <1>1 DEF Spawning, Legal
    <3> HIDE DEF f
    <3>3. CallsOK'
      BY <3>2, <3>4, <3>5, FrameKeeps
    <3> QED BY <1>4, <2>2, <3>3, UnchangedKeeps DEF WriteInterruptor
  <2>4. CASE ~ChangesDispatch(call[a].prev, call[a].val)
    <3>1. CallsOK'
      BY <1>4, <2>4, GotoKeeps, ReturnKeeps DEF WriteInterruptor, CallLabels
    <3> QED BY <1>4, <2>2, <3>1, UnchangedKeeps DEF WriteInterruptor
  <2> QED BY <2>3, <2>4
<1>5. CASE ApplyDispatch(a)
  <2>1. MacrosOK'
    BY <1>1, <1>5, UpdateType, SetKeeps DEF ApplyDispatch, Enabled
  <2>2. CallsOK'
    BY <1>5, GotoKeeps, ReturnKeeps DEF ApplyDispatch, CallLabels
  <2> QED BY <1>5, <2>1, <2>2, UnchangedKeeps DEF ApplyDispatch
<1>6. CASE DetachReset(a)
  <2> DEFINE f == CallOf("reset", CallM(a), "reset", 0)
  <2>1. PICK x \in FreeResets : call' = [call EXCEPT ![a] = NoCall, ![x] = f]
    BY <1>6 DEF DetachReset
  <2>2. x \in Actors
    BY DEF FreeResets, Actors
  <2>3. f \in CallFrame /\ Legal(f)
    BY <1>1 DEF CallOf, CallFrame, CallLabels, Legal, Interrupts, CONTINUE, DISABLE
  <2> HIDE DEF f
  <2>4. CallsOK'
    BY <2>1, <2>2, <2>3, InitialType DEF CallsOK
  <2> QED BY <1>6, <2>4, UnchangedKeeps DEF DetachReset
<1>7. CASE DetachFails(a)
  BY <1>7, ThrowKeeps, UnchangedKeeps DEF DetachFails
<1> QED BY <1>2, <1>3, <1>4, <1>5, <1>6, <1>7 DEF SetInterruptorStep

LEMMA ClearTyped ==
  ASSUME TypeOK, NEW a \in Actors, ClearStep(a)
  PROVE  TypeOK'
<1> USE DEF TypeOK
<1>1. /\ CallM(a) \in Macros
      /\ CallR(a) \in MacroRecord
      /\ CallR(a).interruptor \in Interrupts
      /\ call[a].op \in OpNames \cup {"reset"}
      /\ call[a].val \in Nat
      /\ Legal(call[a])
  BY InFrame, MemberType
<1>2. {CONTINUE, INTERRUPT_ALL, DISABLE} \subseteq Interrupts
  BY DEF Interrupts, CONTINUE, INTERRUPT_ALL, DISABLE
<1>3. CASE ResetReads(a)
  <2> DEFINE f == [at |-> "drain", m |-> call[a].m, op |-> call[a].op,
                   val |-> call[a].val, prev |-> CallR(a).interruptor, spawn |-> FALSE]
  <2>1. f \in CallFrame /\ Legal(f)
    BY <1>1 DEF CallFrame, CallLabels, Legal, CallM
  <2>2. call' = [call EXCEPT ![a] = f]
    BY <1>3 DEF ResetReads, Remember
  <2> HIDE DEF f
  <2>3. CallsOK'
    BY <2>1, <2>2, FrameKeeps
  <2> QED BY <1>3, <2>3, UnchangedKeeps DEF ResetReads
<1>4. CASE Dequeue(a)
  <2>1. ClearType(a) \in Interrupts
    BY <1>2 DEF ClearType
  <2>2. MacrosOK'
    BY <1>1, <1>4, <2>1, ComposedType, SetKeeps DEF Dequeue
  <2>3. AfterDequeue(a) \in {"resetting", "unregister", "wait", "sticky"}
    BY <1>4 DEF Dequeue, AfterDequeue, CallAt
  <2>4. CallsOK'
    BY <1>4, <2>3, GotoKeeps DEF Dequeue, CallLabels
  <2> QED BY <1>4, <2>2, <2>4, UnchangedKeeps DEF Dequeue
<1>5. CASE Unregister(a)
  <2>1. MacrosOK'
    BY <1>1, <1>5, UpdateType, SetKeeps DEF Unregister
  <2>2. CallsOK'
    BY <1>5, GotoKeeps DEF Unregister, CallLabels
  <2> QED BY <1>5, <2>1, <2>2, UnchangedKeeps DEF Unregister
<1>6. CASE TestRunning(a)
  <2>1. CallsOK'
    BY <1>6, GotoKeeps DEF TestRunning, CallLabels
  <2> QED BY <1>6, <2>1, UnchangedKeeps DEF TestRunning
<1>7. CASE TestUnsetStatus(a)
  <2>1. CallsOK'
    BY <1>7, GotoKeeps DEF TestUnsetStatus, CallLabels
  <2> QED BY <1>7, <2>1, UnchangedKeeps DEF TestUnsetStatus
<1>8. CASE ForgetThreads(a)
  <2>1. MacrosOK'
    BY <1>1, <1>8, UpdateType, SetKeeps DEF ForgetThreads
  <2>2. CallsOK'
    BY <1>8, GotoKeeps DEF ForgetThreads, CallLabels
  <2> QED BY <1>8, <2>1, <2>2, UnchangedKeeps DEF ForgetThreads
<1>9. CASE WaitThreadsChanged(a)
  <2>1. MacrosOK'
    BY <1>1, <1>9, UpdateType, SetKeeps, UnchangedKeeps DEF WaitThreadsChanged
  <2>2. CallsOK'
    BY <1>9, GotoKeeps, UnchangedKeeps DEF WaitThreadsChanged, CallLabels
  <2> QED BY <1>9, <2>1, <2>2, UnchangedKeeps DEF WaitThreadsChanged
<1>10. CASE JoinAll(a)
  <2>1. CallsOK'
    BY <1>10, GotoKeeps DEF JoinAll, CallLabels
  <2>2. MacrosOK'
    BY <1>1, <1>10, UpdateType, SetKeeps DEF JoinAll
  <2>3. RunsOK'
    BY <1>10, InitialType DEF JoinAll, RunsOK
  <2> QED BY <1>10, <2>1, <2>2, <2>3, UnchangedKeeps DEF JoinAll
<1>11. CASE EraseHandles(a)
  <2>1. CASE Erasable(a)
    <3>1. LivesOn(CallR(a), call[a].op) \in MacroRecord
      BY <1>1, ComposedType
    <3>2. MacrosOK'
      BY <1>1, <1>11, <2>1, <3>1, SetKeeps DEF EraseHandles
    <3>3. AfterErase(a)
      BY <1>11, <2>1 DEF EraseHandles
    <3>4. CallsOK'
      <4>1. CASE call[a].op = "reset"
        BY <3>3, <4>1, GotoKeeps DEF AfterErase, CallLabels
      <4>2. CASE call[a].op = "copy"
        BY <3>3, <4>2, GotoKeeps DEF AfterErase, CallLabels
      <4>3. CASE call[a].op \notin {"reset", "copy"}
        BY <3>3, <4>3, ReturnKeeps DEF AfterErase
      <4> QED BY <4>1, <4>2, <4>3
    <3> QED BY <1>11, <3>2, <3>4, UnchangedKeeps DEF EraseHandles
  <2>2. CASE ~Erasable(a)
    <3>1. MacrosOK'
      BY <1>1, <1>11, <2>2, UpdateType, SetKeeps DEF EraseHandles
    <3> QED BY <1>11, <2>2, <3>1, UnchangedKeeps DEF EraseHandles
  <2> QED BY <2>1, <2>2
<1>12. CASE Restore(a)
  <2>1. CASE call[a].prev # DISABLE
    <3> DEFINE f == CallOf("interrupt", CallM(a), "setInterruptor", CONTINUE)
    <3>1. f \in CallFrame /\ Legal(f)
      BY <1>1, <1>2 DEF CallOf, CallFrame, CallLabels, Legal, OpNames, SignalNames, CONTINUE
    <3>2. call' = [call EXCEPT ![a] = f]
      BY <1>12, <2>1 DEF Restore
    <3> HIDE DEF f
    <3>3. CallsOK'
      BY <3>1, <3>2, FrameKeeps
    <3> QED BY <1>12, <3>3, UnchangedKeeps DEF Restore
  <2>2. CASE call[a].prev = DISABLE
    BY <1>12, <2>2, ReturnKeeps, UnchangedKeeps DEF Restore
  <2> QED BY <2>1, <2>2
<1>13. CASE Assign(a)
  <2>1. call[a].val \in DOMAIN Setups
    BY <1>1, <1>13 DEF Assign, CallAt, Legal
  <2>2. MacrosOK'
    BY <1>1, <1>13, <2>1, ComposedType, SetKeeps DEF Assign
  <2>3. CallsOK'
    BY <1>13, GotoKeeps DEF Assign, CallLabels
  <2> QED BY <1>13, <2>2, <2>3, UnchangedKeeps DEF Assign
<1> QED BY <1>3, <1>4, <1>5, <1>6, <1>7, <1>8, <1>9, <1>10, <1>11, <1>12, <1>13 DEF ClearStep

LEMMA SetterTyped ==
  ASSUME TypeOK, NEW a \in Actors, SetterStep(a)
  PROVE  TypeOK'
<1> USE DEF TypeOK
<1>1. CallM(a) \in Macros /\ CallR(a) \in MacroRecord /\ Legal(call[a])
  BY InFrame
<1>2. CASE SetSignals(a)
  <2>1. call[a].val \in DOMAIN SignalLists
    BY <1>1, <1>2 DEF SetSignals, CallAt, Legal
  <2>2. MacrosOK'
    BY <1>1, <1>2, <2>1, UpdateType, SetKeeps, UnchangedKeeps DEF SetSignals
  <2>3. CallsOK' /\ RunsOK'
    BY <1>2, ReturnKeeps, ThrowKeeps, UnchangedKeeps DEF SetSignals
  <2> QED BY <1>2, <2>2, <2>3, UnchangedKeeps DEF SetSignals
<1>3. CASE SetThreadMax(a)
  <2>1. MacrosOK'
    BY <1>1, <1>3, UpdateType, SetKeeps, UnchangedKeeps DEF SetThreadMax
  <2>2. CallsOK' /\ RunsOK'
    BY <1>3, GotoKeeps, ReturnKeeps, ThrowKeeps, UnchangedKeeps DEF SetThreadMax, CallLabels
  <2> QED BY <1>3, <2>1, <2>2, UnchangedKeeps DEF SetThreadMax
<1>4. CASE SetSticky(a)
  <2>1. (call[a].val # 0) \in BOOLEAN
    OBVIOUS
  <2>2. MacrosOK'
    BY <1>1, <1>4, <2>1, UpdateType, SetKeeps DEF SetSticky
  <2> QED BY <1>4, <2>2, ReturnKeeps, UnchangedKeeps DEF SetSticky
<1> QED BY <1>2, <1>3, <1>4 DEF SetterStep

(* A signal that run() sends, if it is not an ordinary one, is a call. *)
LEMMA SentIsLegal ==
  ASSUME TypeOK, NEW a \in Actors, run[a].i <= Len(SignalLists[RunR(a).signals]),
         SignalLists[RunR(a).signals][run[a].i].name # "send"
  PROVE  /\ LegalCall(SignalLists[RunR(a).signals][run[a].i], OpNames)
         /\ SignalLists[RunR(a).signals][run[a].i].name # "run"
<1> DEFINE n == RunR(a).signals
           o == SignalLists[n][run[a].i]
<1>1. n \in DOMAIN SignalLists /\ run[a].i \in Nat \ {0}
  BY InFrame, MemberType
<1>2. run[a].i \in 1 .. Len(SignalLists[n])
  BY <1>1, SignalListsAssumption
<1>3. LegalCall(o, SignalNames)
  BY <1>1, <1>2, SignalListsAssumption
<1>4. o.name # "send"
  OBVIOUS
<1> HIDE DEF o
<1>5. LegalCall(o, OpNames) /\ o.name # "run"
  BY <1>3, <1>4 DEF LegalCall, OpNames, SignalNames
<1> QED BY <1>5 DEF o

LEMMA RunTyped ==
  ASSUME TypeOK, NEW a \in Actors, RunStep(a)
  PROVE  TypeOK'
<1> USE DEF TypeOK
<1>1. /\ RunM(a) \in Macros
      /\ RunR(a) \in MacroRecord
      /\ run[a] \in RunFrame
      /\ run[a].i \in Nat \ {0}
  BY InFrame
<1>2. 1 \in Nat \ {0} /\ run[a].i + 1 \in Nat \ {0}
  BY <1>1
<1>3. CASE Enter(a)
  <2>1. MacrosOK'
    BY <1>1, <1>3, UpdateType, ComposedType, SetKeeps DEF Enter
  <2>2. RunsOK'
    BY <1>3, RunToKeeps DEF Enter, RunLabels
  <2> QED BY <1>3, <2>1, <2>2, UnchangedKeeps DEF Enter
<1>4. CASE ConsumeInterrupt(a)
  <2>1. RunsOK'
    BY <1>4, RunToKeeps DEF ConsumeInterrupt, AfterConsume, RunLabels
  <2>2. CallsOK'
    <3> DEFINE o == [name |-> "setInterruptor", val |-> CONTINUE]
    <3>1. LegalCall(o, OpNames) /\ o.name # "run"
      BY DEF LegalCall, OpNames, SignalNames, CONTINUE
    <3>2. UNCHANGED call \/ Begin(a, RunM(a), o)
      BY <1>4 DEF ConsumeInterrupt
    <3> HIDE DEF o
    <3> QED BY <1>1, <3>1, <3>2, BeginKeeps, UnchangedKeeps
  <2> QED BY <1>4, <2>1, <2>2, UnchangedKeeps DEF ConsumeInterrupt
<1>5. CASE TestSignals(a)
  <2>1. RunsOK'
    BY <1>5, RunToKeeps DEF TestSignals, RunLabels
  <2> QED BY <1>5, <2>1, UnchangedKeeps DEF TestSignals
<1>6. CASE TestPause(a)
  <2>1. RunsOK'
    BY <1>6, RunToKeeps DEF TestPause, RunLabels
  <2> QED BY <1>6, <2>1, UnchangedKeeps DEF TestPause
<1>7. CASE TestPauseLoop(a)
  <2>1. MacrosOK'
    BY <1>1, <1>7, UpdateType, SetKeeps, UnchangedKeeps DEF TestPauseLoop
  <2>2. RunsOK'
    BY <1>7, RunToKeeps DEF TestPauseLoop, RunLabels
  <2> QED BY <1>7, <2>1, <2>2, UnchangedKeeps DEF TestPauseLoop
<1>8. CASE BlockInPause(a)
  <2>1. MacrosOK'
    BY <1>1, <1>8, UpdateType, SetKeeps DEF BlockInPause
  <2>2. RunsOK'
    BY <1>8, RunToKeeps DEF BlockInPause, RunLabels
  <2> QED BY <1>8, <2>1, <2>2, UnchangedKeeps DEF BlockInPause
<1>9. CASE TestStopped(a)
  <2>1. RunsOK'
    BY <1>9, RunToKeeps DEF TestStopped, RunLabels
  <2> QED BY <1>9, <2>1, UnchangedKeeps DEF TestStopped
<1>10. CASE TestIdle(a)
  <2>1. RunsOK'
    BY <1>2, <1>10, RunToKeeps, SendFromKeeps DEF TestIdle, RunLabels
  <2> QED BY <1>10, <2>1, UnchangedKeeps DEF TestIdle
<1>11. CASE TestQueued(a)
  <2>1. RunsOK'
    BY <1>2, <1>11, RunToKeeps, SendFromKeeps DEF TestQueued, RunLabels
  <2> QED BY <1>11, <2>1, UnchangedKeeps DEF TestQueued
<1>12. CASE DecQueued(a)
  <2> \A n \in Int : QueuedBy(RunR(a), n) \in MacroRecord
    BY <1>1, UpdateType
  <2>1. QueuedBy(RunR(a), -1) \in MacroRecord
    OBVIOUS
  <2>2. MacrosOK'
    BY <1>1, <1>12, <2>1, SetKeeps DEF DecQueued
  <2>3. RunsOK'
    BY <1>12, RunToKeeps DEF DecQueued, RunLabels
  <2> QED BY <1>12, <2>2, <2>3, UnchangedKeeps DEF DecQueued
<1>13. CASE ClampQueued(a)
  <2>1. MacrosOK'
    BY <1>1, <1>13, ComposedType, SetKeeps DEF ClampQueued
  <2>2. RunsOK'
    BY <1>2, <1>13, SendFromKeeps DEF ClampQueued
  <2> QED BY <1>13, <2>1, <2>2, UnchangedKeeps DEF ClampQueued
<1>14. CASE DispatchSignal(a)
  <2> DEFINE list == SignalLists[RunR(a).signals]
             o    == list[run[a].i]
  <2>1. RunsOK'
    BY <1>2, <1>14, RunToKeeps, SendFromKeeps DEF DispatchSignal, RunLabels
  <2>2. CASE UNCHANGED call
    BY <1>14, <2>1, <2>2, UnchangedKeeps DEF DispatchSignal
  <2>3. CASE /\ run[a].i <= Len(list)
             /\ o.name # "send"
             /\ Begin(a, RunM(a), o)
    <3>3. LegalCall(o, OpNames) /\ o.name # "run"
      BY <2>3, SentIsLegal
    <3>4. CallsOK'
      BY <1>1, <2>3, <3>3, BeginKeeps
    <3> QED BY <1>14, <2>1, <3>4, UnchangedKeeps DEF DispatchSignal
  <2> QED BY <1>14, <2>2, <2>3 DEF DispatchSignal
<1>15. CASE RunComplete(a)
  <2>1. MacrosOK'
    BY <1>1, <1>15, ComposedType, SetKeeps DEF RunComplete
  <2>2. RunsOK'
    BY <1>15, RunToKeeps DEF RunComplete, RunLabels
  <2> QED BY <1>15, <2>1, <2>2, UnchangedKeeps DEF RunComplete
<1>16. CASE Release(a)
  <2>1. RunsOK'
    BY <1>16, RunToKeeps DEF Release, RunLabels
  <2>2. ActiveOK'
    BY <1>16, LimitsAssumption DEF Release, GiveBack, ActiveOK
  <2> QED BY <1>16, <2>1, <2>2, UnchangedKeeps DEF Release
<1>17. CASE NotifyThreadsChanged(a)
  <2>1. MacrosOK'
    BY <1>1, <1>17, UpdateType, SetKeeps DEF NotifyThreadsChanged
  <2>2. Ending(a) \in RunFrame
    BY <1>1, InitialType DEF Ending, RunFrame, RunLabels
  <2>3. RunsOK'
    BY <1>17, <2>2 DEF NotifyThreadsChanged, RunsOK
  <2> QED BY <1>17, <2>1, <2>3, UnchangedKeeps DEF NotifyThreadsChanged
<1> QED BY <1>3, <1>4, <1>5, <1>6, <1>7, <1>8, <1>9, <1>10, <1>11, <1>12, <1>13, <1>14,
           <1>15, <1>16, <1>17 DEF RunStep

LEMMA InvokeTyped ==
  ASSUME TypeOK, NEW c \in Clients, Invoke(c)
  PROVE  TypeOK'
<1> USE DEF TypeOK
<1>1. c \in Actors
  BY DEF Actors
<1>2. PICK m \in Macros, o \in Ops[c] :
        \/ /\ o.name = "run"
           /\ run' = [run EXCEPT ![c] = Entered(m)]
           /\ UNCHANGED <<macro, call>>
        \/ /\ o.name = "destroy"
           /\ Set(m, [macro[m] EXCEPT !.life = "dying"])
           /\ Begin(c, m, o)
           /\ UNCHANGED run
        \/ /\ o.name \notin {"run", "destroy"}
           /\ Begin(c, m, o)
           /\ UNCHANGED <<macro, run>>
  BY DEF Invoke
<1>3. LegalCall(o, OpNames)
  BY OpsAssumption
<1>4. ActiveOK'
  BY UnchangedKeeps DEF Invoke
<1>5. CASE o.name = "run"
  <2>1. Entered(m) \in RunFrame
    BY DEF Entered, RunFrame, RunLabels
  <2>2. RunsOK'
    BY <1>1, <1>2, <1>5, <2>1 DEF RunsOK
  <2> QED BY <1>2, <1>4, <1>5, <2>2, UnchangedKeeps
<1>6. CASE o.name # "run"
  <2>1. CallsOK'
    BY <1>1, <1>2, <1>3, <1>6, BeginKeeps
  <2>2. macro[m] \in MacroRecord
    BY DEF MacrosOK
  <2>3. MacrosOK'
    BY <1>2, <1>6, <2>2, UpdateType, SetKeeps, UnchangedKeeps
  <2> QED BY <1>2, <1>4, <1>6, <2>1, <2>3, UnchangedKeeps
<1> QED BY <1>5, <1>6

LEMMA InitTyped ==
  ASSUME Init
  PROVE  TypeOK
<1>1. MacrosOK
  BY InitialType DEF Init, MacrosOK
<1>2. RunsOK /\ CallsOK
  BY InitialType DEF Init, RunsOK, CallsOK
<1>3. ActiveOK
  BY LimitsAssumption DEF Init, ActiveOK
<1> QED BY <1>1, <1>2, <1>3 DEF TypeOK

LEMMA NextTyped ==
  ASSUME TypeOK, [Next]_vars
  PROVE  TypeOK'
<1>1. ASSUME NEW c \in Clients, Invoke(c) PROVE TypeOK'
  BY <1>1, InvokeTyped
<1>2. ASSUME NEW a \in Actors, Step(a) PROVE TypeOK'
  BY <1>2, StartTyped, SetInterruptorTyped, ClearTyped, SetterTyped, RunTyped
     DEF Step, CallStep
<1>3. CASE UNCHANGED vars
  BY <1>3, UnchangedKeeps DEF vars, TypeOK
<1> QED BY <1>1, <1>2, <1>3 DEF Next

(* Every member and every frame has its type in every reachable state. *)
THEOREM TypeCorrect == Spec => []TypeOK
<1>1. Init => TypeOK
  BY InitTyped
<1>2. TypeOK /\ [Next]_vars => TypeOK'
  BY NextTyped
<1> QED BY <1>1, <1>2, PTL DEF Spec

-----------------------------------------------------------------------------
(***************************************************************************)
(* The pool of threads.  Every step either leaves it alone (Quiet), or     *)
(* reserves a place, gives one back, fills one or empties one, and         *)
(* g_activeThreadCount follows.                                            *)
(***************************************************************************)
Quiet == Live' = Live /\ Reserving' = Reserving /\ active' = active /\ OnlyThreadsRun'

Reserves(a) ==
  /\ active < GlobalThreadMax
  /\ a \notin Reserving
  /\ Reserving' = Reserving \cup {a}
  /\ Live' = Live
  /\ active' = active + 1
  /\ OnlyThreadsRun'

GivesUp(a) ==
  /\ a \in Reserving
  /\ Reserving' = Reserving \ {a}
  /\ Live' = Live
  /\ active' = Decremented(active)
  /\ OnlyThreadsRun'

Fills(a, t) ==
  /\ a \in Reserving
  /\ t \in Threads \ Live
  /\ Reserving' = Reserving \ {a}
  /\ Live' = Live \cup {t}
  /\ active' = active
  /\ OnlyThreadsRun'

Empties(t) ==
  /\ t \in Live
  /\ Reserving' = Reserving
  /\ Live' = Live \ {t}
  /\ active' = GiveBack(active)
  /\ OnlyThreadsRun'

PoolOK == TypeOK /\ OnlyThreadsRun

(* A step of a call that neither has nor gets a place. *)
LEMMA FrameQuiet ==
  ASSUME PoolOK, NEW a \in Actors, NEW f, call' = [call EXCEPT ![a] = f],
         call[a].at \in ReservingLabels <=> f.at \in ReservingLabels,
         UNCHANGED run, UNCHANGED active
  PROVE  Quiet
<1>1. Reserving' = Reserving
  BY DEF Reserving, PoolOK, TypeOK, CallsOK
<1>2. Live' = Live /\ OnlyThreadsRun'
  BY DEF Live, OnlyThreadsRun, PoolOK
<1> QED BY <1>1, <1>2 DEF Quiet

LEMMA GotoQuiet ==
  ASSUME PoolOK, NEW a \in Actors, NEW l, Goto(a, l),
         call[a].at \in ReservingLabels <=> l \in ReservingLabels,
         UNCHANGED run, UNCHANGED active
  PROVE  Quiet
<1> DEFINE f == [call[a] EXCEPT !.at = l]
<1>1. f.at = l
  BY DEF PoolOK, TypeOK, CallsOK, CallFrame
<1>2. call' = [call EXCEPT ![a] = f]
  BY DEF Goto
<1> HIDE DEF f
<1> QED BY <1>1, <1>2, FrameQuiet

LEMMA ReturnQuiet ==
  ASSUME PoolOK, NEW a \in Actors, Return(a), call[a].at \notin ReservingLabels,
         UNCHANGED run, UNCHANGED active
  PROVE  Quiet
<1>1. NoCall.at \notin ReservingLabels
  BY DEF NoCall, CallOf, ReservingLabels
<1> QED BY <1>1, FrameQuiet DEF Return

(* A step inside run() before the place is given back. *)
LEMMA InRunQuiet ==
  ASSUME PoolOK, NEW a \in Actors, run[a].at \notin {"none", "notify", "gone"},
         NEW f, run' = [run EXCEPT ![a] = f], f.at \notin {"none", "notify", "gone"}
  PROVE  Live' = Live /\ OnlyThreadsRun' /\ a \in Threads
BY DEF Live, OnlyThreadsRun, PoolOK, TypeOK, RunsOK

LEMMA RunToQuiet ==
  ASSUME PoolOK, NEW a \in Actors, run[a].at \notin {"none", "notify", "gone"},
         NEW l, l \notin {"none", "notify", "gone"}, RunTo(a, l)
  PROVE  Live' = Live /\ OnlyThreadsRun'
<1> DEFINE f == [run[a] EXCEPT !.at = l]
<1>1. f.at = l
  BY DEF PoolOK, TypeOK, RunsOK, RunFrame
<1>2. run' = [run EXCEPT ![a] = f]
  BY DEF RunTo
<1> HIDE DEF f
<1> QED BY <1>1, <1>2, InRunQuiet

LEMMA SendFromQuiet ==
  ASSUME PoolOK, NEW a \in Actors, run[a].at \notin {"none", "notify", "gone"},
         NEW i, SendFrom(a, i)
  PROVE  Live' = Live /\ OnlyThreadsRun'
<1> DEFINE f == [at |-> "send", m |-> run[a].m, i |-> i]
<1>1. f.at = "send" /\ run' = [run EXCEPT ![a] = f]
  BY DEF SendFrom
<1> HIDE DEF f
<1> QED BY <1>1, InRunQuiet

LEMMA ThrowQuiet ==
  ASSUME PoolOK, NEW a \in Actors, Throw(a), call[a].at \notin ReservingLabels,
         UNCHANGED active
  PROVE  Quiet
<1>1. NoCall.at \notin ReservingLabels
  BY DEF NoCall, CallOf, ReservingLabels
<1>2. Reserving' = Reserving
  BY <1>1 DEF Throw, Return, Reserving, PoolOK, TypeOK, CallsOK
<1>3. CASE run[a].at = "send"
  <2>1. RunTo(a, "leave")
    BY <1>3 DEF Throw, RunTo
  <2> QED BY <1>2, <1>3, <2>1, RunToQuiet DEF Quiet
<1>4. CASE run[a].at # "send"
  BY <1>2, <1>4 DEF Throw, Quiet, Live, OnlyThreadsRun, PoolOK
<1> QED BY <1>3, <1>4

(* A call that begins has no place yet. *)
LEMMA BeginReserves ==
  ASSUME PoolOK, NEW a \in Actors, call[a].at = "none", NEW m, NEW o,
         LegalCall(o, OpNames), o.name # "run", Begin(a, m, o)
  PROVE  Reserving' = Reserving
<1>1. o.name \in OpNames
  BY DEF LegalCall
<1>2. EntryOf(o.name) \notin ReservingLabels
  BY <1>1 DEF EntryOf, OpNames, SignalNames, ReservingLabels
<1>3. CallOf(EntryOf(o.name), m, o.name, o.val).at = EntryOf(o.name)
  BY DEF CallOf
<1> QED BY <1>2, <1>3 DEF Begin, Reserving, PoolOK, TypeOK, CallsOK, ReservingLabels

LEMMA StartMoves ==
  ASSUME PoolOK, NEW a \in Actors, StartStep(a)
  PROVE  Quiet \/ Reserves(a) \/ GivesUp(a) \/ \E t \in Threads : Fills(a, t)
<1> USE DEF CallAt
<1>1. CASE StartLock(a)
  BY <1>1, GotoQuiet, ReturnQuiet DEF StartLock, ReservingLabels
<1>2. CASE Reserve(a)
  <2>1. CASE GlobalFull
    BY <1>2, <2>1, GotoQuiet DEF Reserve, ReservingLabels
  <2>2. CASE ~GlobalFull
    <3>1. Goto(a, "test") /\ active' = active + 1 /\ UNCHANGED run
      BY <1>2, <2>2 DEF Reserve
    <3>2. active < GlobalThreadMax
      BY <2>2, LimitsAssumption DEF GlobalFull, PoolOK, TypeOK, ActiveOK
    <3>3. Live' = Live /\ OnlyThreadsRun'
      BY <3>1 DEF Live, OnlyThreadsRun, PoolOK
    <3>4. a \notin Reserving
      BY <1>2 DEF Reserve, Reserving, ReservingLabels
    <3>5. Reserving' = Reserving \cup {a}
      BY <3>1 DEF Goto, Reserving, ReservingLabels, PoolOK, TypeOK, CallsOK, CallFrame
    <3> QED BY <3>1, <3>2, <3>3, <3>4, <3>5 DEF Reserves
  <2> QED BY <2>1, <2>2
<1>3. CASE IncQueuedTest(a)
  BY <1>3, GotoQuiet DEF IncQueuedTest, ReservingLabels
<1>4. CASE IncQueued(a)
  BY <1>4, GotoQuiet DEF IncQueued, ReservingLabels
<1>5. CASE CheckQueued(a)
  <2>1. CASE QueueRefused(CallR(a))
    <3>1. Goto(a, "limit") /\ active' = Decremented(active) /\ UNCHANGED run
      BY <1>5, <2>1 DEF CheckQueued
    <3>2. a \in Reserving
      BY <1>5 DEF CheckQueued, Reserving, ReservingLabels
    <3>3. Reserving' = Reserving \ {a}
      BY <3>1 DEF Goto, Reserving, ReservingLabels, PoolOK, TypeOK, CallsOK, CallFrame
    <3> QED BY <3>1, <3>2, <3>3 DEF GivesUp, Live, OnlyThreadsRun, PoolOK
  <2>2. CASE ~QueueRefused(CallR(a))
    BY <1>5, <2>2, GotoQuiet DEF CheckQueued, ReservingLabels
  <2> QED BY <2>1, <2>2
<1>6. CASE Spawn(a)
  <2>1. PICK t \in FreeThreads : run' = [run EXCEPT ![t] = Entered(CallM(a))]
    BY <1>6 DEF Spawn
  <2>2. t \in Threads /\ t \in Actors /\ t \notin Live
    BY DEF FreeThreads, Actors, Live
  <2>3. Return(a) /\ UNCHANGED active /\ a \in Reserving
    BY <1>6 DEF Spawn, Reserving, ReservingLabels
  <2>4. Reserving' = Reserving \ {a}
    BY <2>3 DEF Return, NoCall, CallOf, Reserving, ReservingLabels, PoolOK, TypeOK, CallsOK
  <2>5. Live' = Live \cup {t} /\ OnlyThreadsRun'
    BY <2>1, <2>2 DEF Entered, Live, OnlyThreadsRun, PoolOK, TypeOK, RunsOK, Actors
  <2> QED BY <2>2, <2>3, <2>4, <2>5 DEF Fills
<1>7. CASE SpawnFails(a)
  <2>1. Goto(a, "limit") /\ active' = Decremented(active) /\ UNCHANGED run /\ a \in Reserving
    BY <1>7 DEF SpawnFails, Reserving, ReservingLabels
  <2>2. Reserving' = Reserving \ {a}
    BY <2>1 DEF Goto, Reserving, ReservingLabels, PoolOK, TypeOK, CallsOK, CallFrame
  <2> QED BY <2>1, <2>2 DEF GivesUp, Live, OnlyThreadsRun, PoolOK
<1>8. CASE LimitMaxThreads(a)
  BY <1>8, GotoQuiet, ReturnQuiet DEF LimitMaxThreads, ReservingLabels
<1>9. CASE Resume(a)
  BY <1>9, ReturnQuiet DEF Resume, ReservingLabels
<1> QED BY <1>1, <1>2, <1>3, <1>4, <1>5, <1>6, <1>7, <1>8, <1>9 DEF StartStep

LEMMA SetInterruptorMoves ==
  ASSUME PoolOK, NEW a \in Actors, SetInterruptorStep(a)
  PROVE  Quiet
<1> USE DEF CallAt, ReservingLabels
<1>1. CASE ReadInterruptor(a)
  <2>1. CASE call[a].val \in Interrupts
    <3> DEFINE f == [at |-> "compare", m |-> call[a].m, op |-> call[a].op,
                     val |-> call[a].val, prev |-> CallR(a).interruptor, spawn |-> FALSE]
    <3>1. f.at = "compare" /\ call' = [call EXCEPT ![a] = f]
      BY <1>1, <2>1 DEF ReadInterruptor, Remember
    <3> HIDE DEF f
    <3> QED BY <1>1, <2>1, <3>1, FrameQuiet DEF ReadInterruptor
  <2>2. CASE call[a].val \notin Interrupts
    BY <1>1, <2>2, ThrowQuiet DEF ReadInterruptor
  <2> QED BY <2>1, <2>2
<1>2. CASE CompareInterruptor(a)
  BY <1>2, GotoQuiet, ReturnQuiet DEF CompareInterruptor
<1>3. CASE WriteInterruptor(a)
  <2> DEFINE f == Spawning(call[a], call[a].val = INTERRUPT_ALL /\ Running(CallR(a)))
  <2>1. CASE call' = [call EXCEPT ![a] = f]
    <3>1. f.at = "apply"
      BY DEF Spawning
    <3> HIDE DEF f
    <3> QED BY <1>3, <2>1, <3>1, FrameQuiet DEF WriteInterruptor
  <2>2. CASE Goto(a, "detach") \/ Return(a)
    BY <1>3, <2>2, GotoQuiet, ReturnQuiet DEF WriteInterruptor
  <2> QED BY <1>3, <2>1, <2>2 DEF WriteInterruptor
<1>4. CASE ApplyDispatch(a)
  BY <1>4, GotoQuiet, ReturnQuiet DEF ApplyDispatch
<1>5. CASE DetachReset(a)
  <2>1. PICK x \in FreeResets :
          call' = [call EXCEPT ![a] = NoCall, ![x] = CallOf("reset", CallM(a), "reset", 0)]
    BY <1>5 DEF DetachReset
  <2>2. x \in Actors /\ call[x].at = "none"
    BY DEF FreeResets, Actors
  <2>3. Reserving' = Reserving
    BY <1>5, <2>1, <2>2 DEF DetachReset, NoCall, CallOf, Reserving, PoolOK, TypeOK, CallsOK
  <2> QED BY <1>5, <2>3 DEF DetachReset, Quiet, Live, OnlyThreadsRun, PoolOK
<1>6. CASE DetachFails(a)
  BY <1>6, ThrowQuiet DEF DetachFails
<1> QED BY <1>1, <1>2, <1>3, <1>4, <1>5, <1>6 DEF SetInterruptorStep

LEMMA ClearMoves ==
  ASSUME PoolOK, NEW a \in Actors, ClearStep(a)
  PROVE  Quiet
<1> USE DEF CallAt, ReservingLabels
<1>1. CASE ResetReads(a)
  <2> DEFINE f == [at |-> "drain", m |-> call[a].m, op |-> call[a].op,
                   val |-> call[a].val, prev |-> CallR(a).interruptor, spawn |-> FALSE]
  <2>1. f.at = "drain" /\ call' = [call EXCEPT ![a] = f]
    BY <1>1 DEF ResetReads, Remember
  <2> HIDE DEF f
  <2> QED BY <1>1, <2>1, FrameQuiet DEF ResetReads
<1>2. CASE Dequeue(a)
  BY <1>2, GotoQuiet DEF Dequeue, AfterDequeue
<1>3. CASE Unregister(a)
  BY <1>3, GotoQuiet DEF Unregister
<1>4. CASE TestRunning(a)
  BY <1>4, GotoQuiet DEF TestRunning
<1>5. CASE TestUnsetStatus(a)
  BY <1>5, GotoQuiet DEF TestUnsetStatus
<1>6. CASE ForgetThreads(a)
  BY <1>6, GotoQuiet DEF ForgetThreads
<1>7. CASE WaitThreadsChanged(a)
  <2>1. CASE UNCHANGED call
    BY <1>7, <2>1 DEF WaitThreadsChanged, Quiet, Live, Reserving, OnlyThreadsRun, PoolOK
  <2>2. CASE \E l \in {"join", "waited"} : Goto(a, l)
    BY <1>7, <2>2, GotoQuiet DEF WaitThreadsChanged
  <2> QED BY <1>7, <2>1, <2>2 DEF WaitThreadsChanged
<1>8. CASE JoinAll(a)
  <2>1. Reserving' = Reserving
    BY <1>8 DEF JoinAll, Goto, Reserving, PoolOK, TypeOK, CallsOK, CallFrame
  <2>2. Live' = Live /\ OnlyThreadsRun'
    BY <1>8 DEF JoinAll, Ended, NoFrame, Live, OnlyThreadsRun, PoolOK, TypeOK, RunsOK, Actors
  <2> QED BY <1>8, <2>1, <2>2 DEF JoinAll, Quiet
<1>9. CASE EraseHandles(a)
  <2>1. CASE Erasable(a)
    <3>1. AfterErase(a)
      BY <1>9, <2>1 DEF EraseHandles
    <3>2. Goto(a, "restore") \/ Goto(a, "assign") \/ Return(a)
      BY <3>1 DEF AfterErase
    <3> QED BY <1>9, <3>2, GotoQuiet, ReturnQuiet DEF EraseHandles
  <2>2. CASE ~Erasable(a)
    BY <1>9, <2>2 DEF EraseHandles, Quiet, Live, Reserving, OnlyThreadsRun, PoolOK
  <2> QED BY <2>1, <2>2
<1>10. CASE Restore(a)
  <2> DEFINE f == CallOf("interrupt", CallM(a), "setInterruptor", CONTINUE)
  <2>1. CASE call' = [call EXCEPT ![a] = f]
    <3>1. f.at = "interrupt"
      BY DEF CallOf
    <3> HIDE DEF f
    <3> QED BY <1>10, <2>1, <3>1, FrameQuiet DEF Restore
  <2>2. CASE Return(a)
    BY <1>10, <2>2, ReturnQuiet DEF Restore
  <2> QED BY <1>10, <2>1, <2>2 DEF Restore
<1>11. CASE Assign(a)
  BY <1>11, GotoQuiet DEF Assign
<1> QED BY <1>1, <1>2, <1>3, <1>4, <1>5, <1>6, <1>7, <1>8, <1>9, <1>10, <1>11 DEF ClearStep

LEMMA SetterMoves ==
  ASSUME PoolOK, NEW a \in Actors, SetterStep(a)
  PROVE  Quiet
<1> USE DEF CallAt, ReservingLabels
<1>1. CASE SetSignals(a)
  BY <1>1, ReturnQuiet, ThrowQuiet DEF SetSignals
<1>2. CASE SetThreadMax(a)
  BY <1>2, GotoQuiet, ReturnQuiet, ThrowQuiet DEF SetThreadMax
<1>3. CASE SetSticky(a)
  BY <1>3, ReturnQuiet DEF SetSticky
<1> QED BY <1>1, <1>2, <1>3 DEF SetterStep

LEMMA RunMoves ==
  ASSUME PoolOK, NEW a \in Actors, RunStep(a)
  PROVE  Quiet \/ \E t \in Threads : Empties(t)
<1> USE DEF RunAt
<1>0. UNCHANGED call => Reserving' = Reserving
  BY DEF Reserving
<1>1. CASE Enter(a)
  BY <1>0, <1>1, RunToQuiet DEF Enter, Quiet
<1>2. CASE ConsumeInterrupt(a)
  <2> DEFINE o == [name |-> "setInterruptor", val |-> CONTINUE]
  <2>1. LegalCall(o, OpNames) /\ o.name # "run"
    BY DEF LegalCall, OpNames, SignalNames, CONTINUE
  <2>2. UNCHANGED call \/ (call[a].at = "none" /\ Begin(a, RunM(a), o))
    BY <1>2 DEF ConsumeInterrupt
  <2> HIDE DEF o
  <2>3. Reserving' = Reserving
    BY <1>0, <2>1, <2>2, BeginReserves
  <2>4. RunTo(a, AfterConsume(a)) \/ RunTo(a, "leave")
    BY <1>2 DEF ConsumeInterrupt
  <2>5. Live' = Live /\ OnlyThreadsRun'
    BY <1>2, <2>4, RunToQuiet DEF ConsumeInterrupt, AfterConsume
  <2> QED BY <1>2, <2>3, <2>5 DEF ConsumeInterrupt, Quiet
<1>3. CASE TestSignals(a)
  BY <1>0, <1>3, RunToQuiet DEF TestSignals, Quiet
<1>4. CASE TestPause(a)
  BY <1>0, <1>4, RunToQuiet DEF TestPause, Quiet
<1>5. CASE TestPauseLoop(a)
  BY <1>0, <1>5, RunToQuiet DEF TestPauseLoop, Quiet
<1>6. CASE BlockInPause(a)
  BY <1>0, <1>6, RunToQuiet DEF BlockInPause, Quiet
<1>7. CASE TestStopped(a)
  BY <1>0, <1>7, RunToQuiet DEF TestStopped, Quiet
<1>8. CASE TestIdle(a)
  BY <1>0, <1>8, RunToQuiet, SendFromQuiet DEF TestIdle, Quiet
<1>9. CASE TestQueued(a)
  BY <1>0, <1>9, RunToQuiet, SendFromQuiet DEF TestQueued, Quiet
<1>10. CASE DecQueued(a)
  BY <1>0, <1>10, RunToQuiet DEF DecQueued, Quiet
<1>11. CASE ClampQueued(a)
  BY <1>0, <1>11, SendFromQuiet DEF ClampQueued, Quiet
<1>12. CASE DispatchSignal(a)
  <2> DEFINE list == SignalLists[RunR(a).signals]
             o    == list[run[a].i]
  <2>1. Live' = Live /\ OnlyThreadsRun'
    BY <1>12, RunToQuiet, SendFromQuiet DEF DispatchSignal
  <2>2. CASE UNCHANGED call
    BY <1>0, <1>12, <2>1, <2>2 DEF DispatchSignal, Quiet
  <2>3. CASE /\ run[a].i <= Len(list)
             /\ o.name # "send"
             /\ Begin(a, RunM(a), o)
    <3>1. LegalCall(o, OpNames) /\ o.name # "run"
      BY <2>3, SentIsLegal DEF PoolOK
    <3>2. Reserving' = Reserving
      BY <1>12, <2>3, <3>1, BeginReserves DEF DispatchSignal
    <3> QED BY <1>12, <2>1, <3>2 DEF DispatchSignal, Quiet
  <2> QED BY <1>12, <2>2, <2>3 DEF DispatchSignal
<1>13. CASE RunComplete(a)
  BY <1>0, <1>13, RunToQuiet DEF RunComplete, Quiet
<1>14. CASE Release(a)
  <2>1. run[a].at = "release" /\ RunTo(a, "notify")
    BY <1>14 DEF Release
  <2>2. a \in Threads /\ a \in Live
    BY <2>1 DEF Live, OnlyThreadsRun, PoolOK
  <2>3. Live' = Live \ {a} /\ OnlyThreadsRun'
    BY <2>1, <2>2 DEF RunTo, Live, OnlyThreadsRun, PoolOK, TypeOK, RunsOK, RunFrame, Actors
  <2> QED BY <1>0, <1>14, <2>2, <2>3 DEF Release, Empties
<1>15. CASE NotifyThreadsChanged(a)
  <2>1. run[a].at = "notify" /\ run' = [run EXCEPT ![a] = Ending(a)]
    BY <1>15 DEF NotifyThreadsChanged
  <2>2. a \in Threads
    BY <2>1 DEF OnlyThreadsRun, PoolOK
  <2>3. Ending(a).at \in {"none", "gone"}
    BY DEF Ending, NoFrame
  <2>4. Live' = Live /\ OnlyThreadsRun'
    BY <2>1, <2>2, <2>3 DEF Live, OnlyThreadsRun, PoolOK, TypeOK, RunsOK, Actors
  <2> QED BY <1>0, <1>15, <2>4 DEF NotifyThreadsChanged, Quiet
<1> QED BY <1>1, <1>2, <1>3, <1>4, <1>5, <1>6, <1>7, <1>8, <1>9, <1>10, <1>11, <1>12,
           <1>13, <1>14, <1>15 DEF RunStep

LEMMA InvokeMoves ==
  ASSUME PoolOK, NoSyncRun, NEW c \in Clients, Invoke(c)
  PROVE  Quiet
<1>1. PICK m \in Macros, o \in Ops[c] : Begin(c, m, o) /\ UNCHANGED run /\ call[c].at = "none"
  BY DEF Invoke, NoSyncRun, RunAt
<1>2. c \in Actors /\ LegalCall(o, OpNames) /\ o.name # "run"
  BY OpsAssumption DEF Actors, NoSyncRun
<1>3. Reserving' = Reserving
  BY <1>1, <1>2, BeginReserves
<1> QED BY <1>1, <1>3 DEF Invoke, Quiet, Live, OnlyThreadsRun, PoolOK

LEMMA NextMoves ==
  ASSUME PoolOK, NoSyncRun, [Next]_vars
  PROVE  \/ Quiet
         \/ \E a \in Actors : \/ Reserves(a) \/ GivesUp(a)
                              \/ \E t \in Threads : Fills(a, t)
         \/ \E t \in Threads : Empties(t)
<1>1. ASSUME NEW c \in Clients, Invoke(c) PROVE Quiet
  BY <1>1, InvokeMoves
<1>2. ASSUME NEW a \in Actors, StartStep(a)
      PROVE  Quiet \/ Reserves(a) \/ GivesUp(a) \/ \E t \in Threads : Fills(a, t)
  BY <1>2, StartMoves
<1>3. ASSUME NEW a \in Actors, SetInterruptorStep(a) \/ ClearStep(a) \/ SetterStep(a)
      PROVE  Quiet
  BY <1>3, SetInterruptorMoves, ClearMoves, SetterMoves
<1>4. ASSUME NEW a \in Actors, RunStep(a)
      PROVE  Quiet \/ \E t \in Threads : Empties(t)
  BY <1>4, RunMoves
<1>5. CASE UNCHANGED vars
  BY <1>5 DEF vars, Quiet, Live, Reserving, OnlyThreadsRun, PoolOK
<1> QED BY <1>1, <1>2, <1>3, <1>4, <1>5 DEF Next, Step, CallStep

(***************************************************************************)
(* g_activeThreadCount.  Live and Reserving are finite; every move changes *)
(* them and the count together.                                            *)
(***************************************************************************)
PoolInv == PoolOK /\ ActiveExact /\ ActiveWithinLimit

(* The places that are taken are as many as two finite sets have members. *)
LEMMA Places ==
  ASSUME PoolOK
  PROVE  /\ IsFiniteSet(Live) /\ Cardinality(Live) \in Nat
         /\ IsFiniteSet(Reserving) /\ Cardinality(Reserving) \in Nat
<1>1. Live \subseteq Actors /\ Reserving \subseteq Actors
  BY DEF Live, Reserving, Actors
<1> QED BY <1>1, ActorsAssumption, FS_Subset, FS_CardinalityType

LEMMA ReservesCounts ==
  ASSUME PoolInv, NEW a \in Actors, Reserves(a)
  PROVE  ActiveExact' /\ ActiveWithinLimit'
<1>1. /\ IsFiniteSet(Reserving) /\ Cardinality(Reserving) \in Nat
      /\ Cardinality(Live) \in Nat
  BY Places DEF PoolInv
<1>2. Cardinality(Reserving \cup {a}) = Cardinality(Reserving) + 1
  BY <1>1, FS_AddElement DEF Reserves
<1>3. active \in Nat /\ GlobalThreadMax \in Nat
  BY LimitsAssumption DEF PoolInv, PoolOK, TypeOK, ActiveOK
<1> QED BY <1>1, <1>2, <1>3 DEF Reserves, PoolInv, ActiveExact, ActiveWithinLimit

LEMMA GivesUpCounts ==
  ASSUME PoolInv, NEW a \in Actors, GivesUp(a)
  PROVE  ActiveExact' /\ ActiveWithinLimit'
<1>1. /\ IsFiniteSet(Reserving) /\ Cardinality(Reserving) \in Nat
      /\ Cardinality(Live) \in Nat
  BY Places DEF PoolInv
<1>2. /\ Cardinality(Reserving \ {a}) = Cardinality(Reserving) - 1
      /\ Cardinality(Reserving \ {a}) \in Nat
  BY <1>1, FS_RemoveElement, FS_CardinalityType DEF GivesUp
<1>3. active \in Nat /\ active >= 1 /\ active <= GlobalThreadMax
  BY <1>1, <1>2 DEF PoolInv, ActiveExact, ActiveWithinLimit
<1>4. Decremented(active) = active - 1
  BY <1>3, LimitsAssumption, Z3 DEF Decremented
<1> QED BY <1>1, <1>2, <1>3, <1>4, LimitsAssumption
        DEF GivesUp, PoolInv, ActiveExact, ActiveWithinLimit

LEMMA FillsCounts ==
  ASSUME PoolInv, NEW a \in Actors, NEW t \in Threads, Fills(a, t)
  PROVE  ActiveExact' /\ ActiveWithinLimit'
<1>1. /\ IsFiniteSet(Reserving) /\ Cardinality(Reserving) \in Nat
      /\ IsFiniteSet(Live) /\ Cardinality(Live) \in Nat
  BY Places DEF PoolInv
<1>2. Cardinality(Reserving \ {a}) = Cardinality(Reserving) - 1
  BY <1>1, FS_RemoveElement DEF Fills
<1>3. Cardinality(Live \cup {t}) = Cardinality(Live) + 1
  BY <1>1, FS_AddElement DEF Fills
<1> QED BY <1>1, <1>2, <1>3 DEF Fills, PoolInv, ActiveExact, ActiveWithinLimit

LEMMA EmptiesCounts ==
  ASSUME PoolInv, NEW t \in Threads, Empties(t)
  PROVE  ActiveExact' /\ ActiveWithinLimit'
<1>1. /\ Cardinality(Reserving) \in Nat
      /\ IsFiniteSet(Live) /\ Cardinality(Live) \in Nat
  BY Places DEF PoolInv
<1>2. /\ Cardinality(Live \ {t}) = Cardinality(Live) - 1
      /\ Cardinality(Live \ {t}) \in Nat
  BY <1>1, FS_RemoveElement, FS_CardinalityType DEF Empties
<1>3. active \in Nat /\ active >= 1 /\ active <= GlobalThreadMax
  BY <1>1, <1>2 DEF PoolInv, ActiveExact, ActiveWithinLimit
<1>4. GiveBack(active) = active - 1
  BY <1>3 DEF GiveBack
<1> QED BY <1>1, <1>2, <1>3, <1>4, LimitsAssumption
        DEF Empties, PoolInv, ActiveExact, ActiveWithinLimit

LEMMA PoolInitially ==
  ASSUME Init
  PROVE  PoolInv /\ Live = {} /\ Reserving = {}
<1>1. Live = {} /\ Reserving = {}
  BY DEF Init, Live, Reserving, ReservingLabels, NoFrame, NoCall, CallOf, Actors
<1>2. OnlyThreadsRun
  BY DEF Init, OnlyThreadsRun, NoFrame
<1>3. Cardinality({}) = 0
  BY FS_EmptySet
<1>4. ActiveExact /\ ActiveWithinLimit
  BY <1>1, <1>3, LimitsAssumption DEF Init, ActiveExact, ActiveWithinLimit
<1> QED BY <1>1, <1>2, <1>4, InitTyped DEF PoolInv, PoolOK

LEMMA PoolKept ==
  ASSUME PoolInv, NoSyncRun, [Next]_vars
  PROVE  PoolInv'
<1>1. TypeOK'
  BY NextTyped DEF PoolInv, PoolOK
<1>2. PoolOK
  BY DEF PoolInv
<1>3. CASE Quiet
  BY <1>1, <1>3 DEF Quiet, PoolInv, PoolOK, ActiveExact, ActiveWithinLimit
<1>4. ASSUME NEW a \in Actors, Reserves(a) PROVE PoolInv'
  BY <1>1, <1>4, ReservesCounts DEF PoolInv, PoolOK, Reserves
<1>5. ASSUME NEW a \in Actors, GivesUp(a) PROVE PoolInv'
  BY <1>1, <1>5, GivesUpCounts DEF PoolInv, PoolOK, GivesUp
<1>6. ASSUME NEW a \in Actors, NEW t \in Threads, Fills(a, t) PROVE PoolInv'
  BY <1>1, <1>6, FillsCounts DEF PoolInv, PoolOK, Fills
<1>7. ASSUME NEW t \in Threads, Empties(t) PROVE PoolInv'
  BY <1>1, <1>7, EmptiesCounts DEF PoolInv, PoolOK, Empties
<1> QED BY <1>2, <1>3, <1>4, <1>5, <1>6, <1>7, NextMoves

LEMMA PoolAlways == ASSUME NoSyncRun PROVE Spec => []PoolInv
<1>1. Init => PoolInv
  BY PoolInitially
<1>2. PoolInv /\ [Next]_vars => PoolInv'
  BY PoolKept
<1> QED BY <1>1, <1>2, PTL DEF Spec

(* When no client calls run() itself, g_activeThreadCount counts the threads *)
(* of start() and its reservations exactly, whatever way they take out.      *)
THEOREM ActiveCountExact == ASSUME NoSyncRun PROVE Spec => []ActiveExact
<1>1. PoolInv => ActiveExact
  BY DEF PoolInv
<1> QED BY <1>1, PoolAlways, PTL

(* When no client calls run() itself, all macros together never have more   *)
(* than g_threadMax threads.                                                *)
THEOREM GlobalLimitHolds == ASSUME NoSyncRun PROVE Spec => []GlobalLimit
<1>1. ASSUME PoolInv PROVE GlobalLimit
  <2>1. Cardinality(Live) \in Nat /\ Cardinality(Reserving) \in Nat
    BY <1>1, Places DEF PoolInv
  <2> QED BY <1>1, <2>1, LimitsAssumption
          DEF PoolInv, ActiveExact, ActiveWithinLimit, GlobalLimit
<1> QED BY <1>1, PoolAlways, PTL

(* When no client calls run() itself, the threads of the macros and the     *)
(* reservations of start() implement a pool of g_threadMax threads.         *)
THEOREM ImplementsPool == ASSUME NoSyncRun PROVE Spec => PoolSpec
<1>1. ASSUME Init PROVE Pool!Init
  BY <1>1, PoolInitially DEF Pool!Init
<1>2. ASSUME PoolInv, [Next]_vars
      PROVE  [Pool!Next]_<<Reserving, Live>>
  <2>1. CASE Quiet
    BY <2>1 DEF Quiet
  <2>2. ASSUME NEW a \in Actors, Reserves(a) PROVE Pool!Reserve(a)
    <3>1. Pool!Places = active
      BY <1>2 DEF PoolInv, ActiveExact, Pool!Places, Pool!Cardinality, Cardinality
    <3> QED BY <2>2, <3>1 DEF Reserves, Pool!Reserve
  <2>3. ASSUME NEW a \in Actors, GivesUp(a) PROVE Pool!Cancel(a)
    BY <2>3 DEF GivesUp, Pool!Cancel
  <2>4. ASSUME NEW a \in Actors, NEW t \in Threads, Fills(a, t) PROVE Pool!Spawn(a, t)
    BY <2>4 DEF Fills, Pool!Spawn
  <2>5. ASSUME NEW t \in Threads, Empties(t) PROVE Pool!End(t)
    BY <2>5 DEF Empties, Pool!End
  <2> QED BY <1>2, <2>1, <2>2, <2>3, <2>4, <2>5, NextMoves DEF PoolInv, Pool!Next
<1> QED BY <1>1, <1>2, PoolAlways, PTL DEF Spec, PoolSpec, Pool!Spec

-----------------------------------------------------------------------------
(* A counter that each actor may take one below zero, and that an unsigned  *)
(* comparison then reads, is above every limit.                             *)
RoomBelowZero == Cardinality(Actors) + GlobalThreadMax < Wrap
=============================================================================
