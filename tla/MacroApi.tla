------------------------------ MODULE MacroApi ------------------------------
(***************************************************************************)
(* The member functions of MacroImpl other than run() (src/src/macro.cpp), *)
(* one action per step another thread can see.  A section under _mutex in  *)
(* which nothing waits is one step; start() keeps _mutex over several.     *)
(***************************************************************************)
EXTENDS MacroState

-----------------------------------------------------------------------------
(* start(), trySpawnThread(), incQueued() *)

CanStart(r) == r.interruptor \in {CONTINUE, PAUSE} /\ r.threadCount < r.threadMax

(* Lock; go on to trySpawnThread() with the lock, or to change INTERRUPT    *)
(* back to CONTINUE, or do nothing.                                         *)
StartLock(a) ==
  /\ CallAt(a, "start")
  /\ Lock(a, CallM(a))
  /\ \/ /\ CanStart(CallR(a))
        /\ Set(CallM(a), Locked(CallR(a), a))
        /\ Goto(a, "reserve")
     \/ /\ CallR(a).interruptor = INTERRUPT
        /\ Set(CallM(a), Locked(CallR(a), a))
        /\ Goto(a, "resume")
     \/ /\ ~CanStart(CallR(a))
        /\ CallR(a).interruptor # INTERRUPT
        /\ Return(a)
        /\ UNCHANGED macro
  /\ UNCHANGED <<run, active>>

(* Write CONTINUE over the INTERRUPT that was read, or over what an         *)
(* unlocked dequeue() has written since.                                    *)
Resume(a) ==
  /\ CallAt(a, "resume")
  /\ Set(CallM(a), Unlocked(Notified(Interrupt(CallR(a), CONTINUE))))
  /\ Return(a)
  /\ UNCHANGED <<run, active>>

(* Mutants of GlobalFull: off by one; no limit at all. *)
FullLate  == active > GlobalThreadMax
NeverFull == FALSE

(* Under the global mutex: take one of the g_threadMax threads. *)
GlobalFull == active >= GlobalThreadMax
Reserve(a) ==
  /\ CallAt(a, "reserve")
  /\ \/ /\ GlobalFull
        /\ Set(CallM(a), Unlocked(Emptied(CallR(a))))
        /\ Goto(a, "limit")
        /\ UNCHANGED active
     \/ /\ ~GlobalFull
        /\ active' = active + 1
        /\ Goto(a, "test")
        /\ UNCHANGED macro
  /\ UNCHANGED run

(* incQueued(): a queue below _threadMax grows.  A negative _queued is huge *)
(* once the comparison has made it unsigned.                                *)
MayQueue(r) == Unsigned(r.queued) < r.threadMax
IncQueuedTest(a) ==
  /\ CallAt(a, "test")
  /\ Goto(a, IF MayQueue(CallR(a)) THEN "increment" ELSE "check")
  /\ UNCHANGED <<macro, run, active>>

IncQueued(a) ==
  /\ CallAt(a, "increment")
  /\ Set(CallM(a), Limited(QueuedBy(CallR(a), 1)))
  /\ Goto(a, "check")
  /\ UNCHANGED <<run, active>>

(* Give the reservation back when the queue is over its limit or empty. *)
QueueRefused(r) == Unsigned(r.queued) > r.threadMax \/ r.queued = 0
CheckQueued(a) ==
  /\ CallAt(a, "check")
  /\ \/ /\ QueueRefused(CallR(a))
        /\ active' = Decremented(active)
        /\ Set(CallM(a), Unlocked(Emptied(CallR(a))))
        /\ Goto(a, "limit")
     \/ /\ ~QueueRefused(CallR(a))
        /\ Goto(a, "emplace")
        /\ UNCHANGED <<macro, active>>
  /\ UNCHANGED run

FreeThreads == {t \in Threads : run[t].at = "none"}

Entered(m) == [at |-> "enter", m |-> m, i |-> 1]

(* Mutant of WithHandle: start() detaches the thread. *)
Detached(r, t) == r

WithHandle(r, t) == [r EXCEPT !.handles = @ \cup {t}]

(* _threads.emplace_back(): a new thread is about to enter run(). *)
Spawn(a) ==
  /\ CallAt(a, "emplace")
  /\ \E t \in FreeThreads :
       /\ run' = [run EXCEPT ![t] = Entered(CallM(a))]
       /\ Set(CallM(a), Unlocked(WithHandle(CallR(a), t)))
  /\ Return(a)
  /\ UNCHANGED active

(* Mutant of SpawnFails: the reservation stays too. *)
SpawnFailsKeeping(a) ==
  /\ CallAt(a, "emplace")
  /\ SpawnMayFail \/ FreeThreads = {}
  /\ Set(CallM(a), Unlocked(CallR(a)))
  /\ Goto(a, "limit")
  /\ UNCHANGED <<run, active>>

(* emplace_back() throws: the reservation goes, what is queued stays. *)
SpawnFails(a) ==
  /\ CallAt(a, "emplace")
  /\ SpawnMayFail \/ FreeThreads = {}
  /\ active' = Decremented(active)
  /\ Set(CallM(a), Unlocked(CallR(a)))
  /\ Goto(a, "limit")
  /\ UNCHANGED run

(* The limitMaxThreads() that follows the unlock. *)
LimitMaxThreads(a) ==
  /\ CallAt(a, "limit")
  /\ Set(CallM(a), Limited(CallR(a)))
  /\ IF call[a].op = "copy" THEN Goto(a, "apply") ELSE Return(a)
  /\ UNCHANGED <<run, active>>

StartStep(a) ==
  \/ StartLock(a) \/ Resume(a) \/ Reserve(a) \/ IncQueuedTest(a) \/ IncQueued(a)
  \/ CheckQueued(a) \/ Spawn(a) \/ SpawnFails(a) \/ LimitMaxThreads(a)

-----------------------------------------------------------------------------
(* setInterruptor(), handleInterruptAll(), applyDispatch() *)

Remember(a, l, val) ==
  call' = [call EXCEPT ![a] = [at |-> l, m |-> call[a].m, op |-> call[a].op,
                               val |-> call[a].val, prev |-> val, spawn |-> FALSE]]

(* Mutant of ReadInterruptor: any value will do. *)
ReadUnchecked(a) ==
  /\ CallAt(a, "interrupt")
  /\ Remember(a, "compare", CallR(a).interruptor)
  /\ UNCHANGED <<macro, run, active>>

(* Throw for no interrupt type, else remember the type there was. *)
ReadInterruptor(a) ==
  /\ CallAt(a, "interrupt")
  /\ \/ /\ call[a].val \in Interrupts
        /\ Remember(a, "compare", CallR(a).interruptor)
        /\ UNCHANGED run
     \/ /\ call[a].val \notin Interrupts
        /\ Throw(a)
  /\ UNCHANGED <<macro, active>>

(* Mutant of CompareInterruptor: the value it has already is written again. *)
WriteAnyway(a) ==
  /\ CallAt(a, "compare")
  /\ Goto(a, "write")
  /\ UNCHANGED <<macro, run, active>>

(* Read it again, and do nothing if it is the new one already. *)
CompareInterruptor(a) ==
  /\ CallAt(a, "compare")
  /\ IF CallR(a).interruptor # call[a].val THEN Goto(a, "write") ELSE Return(a)
  /\ UNCHANGED <<macro, run, active>>

(* Mutant of NothingToInterrupt: INTERRUPT_ALL stays. *)
NothingEnds(r) == Dequeued(r, INTERRUPT_ALL)

(* handleInterruptAll(), when nothing runs: there is nothing to interrupt. *)
NothingToInterrupt(r) == Notified(Interrupt(Dequeued(r, INTERRUPT_ALL), CONTINUE))

(* Mutant of ChangesDispatch: enabling does not register. *)
OnlyDisables(prev, val) == val = DISABLE

ChangesDispatch(prev, val) == prev = DISABLE \/ val = DISABLE

(* Mutant of Written: no notification. *)
WrittenQuietly(r, val) ==
  IF val # INTERRUPT_ALL THEN Interrupt(r, val)
  ELSE IF Running(r) THEN Dequeued(r, INTERRUPT_ALL)
  ELSE NothingToInterrupt(r)

Written(r, val) ==
  IF val # INTERRUPT_ALL THEN Notified(Interrupt(r, val))
  ELSE IF Running(r) THEN Dequeued(r, INTERRUPT_ALL)
  ELSE NothingToInterrupt(r)

Spawning(frame, spawn) ==
  [at |-> "apply", m |-> frame.m, op |-> frame.op, val |-> frame.val,
   prev |-> frame.prev, spawn |-> spawn]

WriteInterruptor(a) ==
  LET val   == call[a].val
      spawn == val = INTERRUPT_ALL /\ Running(CallR(a))
  IN /\ CallAt(a, "write")
     /\ Lock(a, CallM(a))
     /\ Set(CallM(a), Written(CallR(a), val))
     /\ \/ /\ ChangesDispatch(call[a].prev, val)
           /\ call' = [call EXCEPT ![a] = Spawning(@, spawn)]
        \/ /\ ~ChangesDispatch(call[a].prev, val)
           /\ IF spawn THEN Goto(a, "detach") ELSE Return(a)
     /\ UNCHANGED <<run, active>>

(* applyDispatch(): unregister, and register again if enabled(). *)
ApplyDispatch(a) ==
  /\ CallAt(a, "apply")
  /\ Lock(a, CallM(a))
  /\ Set(CallM(a), [CallR(a) EXCEPT !.registered = Enabled(CallR(a))])
  /\ IF call[a].spawn THEN Goto(a, "detach") ELSE Return(a)
  /\ UNCHANGED <<run, active>>

FreeResets == {x \in Resets : call[x].at = "none"}

DetachReset(a) ==
  /\ CallAt(a, "detach")
  /\ \E x \in FreeResets :
       call' = [call EXCEPT ![a] = NoCall, ![x] = CallOf("reset", CallM(a), "reset", 0)]
  /\ UNCHANGED <<macro, run, active>>

DetachFails(a) ==
  /\ CallAt(a, "detach")
  /\ SpawnMayFail \/ FreeResets = {}
  /\ Throw(a)
  /\ UNCHANGED <<macro, active>>

SetInterruptorStep(a) ==
  \/ ReadInterruptor(a) \/ CompareInterruptor(a) \/ WriteInterruptor(a)
  \/ ApplyDispatch(a) \/ DetachReset(a) \/ DetachFails(a)

-----------------------------------------------------------------------------
(* resetThread(), disableEverything(), clearThreads(), clearThreadsSticky(),*)
(* waitThreadsChanged(), joinAllThreads().  copy() and the destructor clear *)
(* with DISABLE and are sticky, the reset thread clears with INTERRUPT_ALL. *)

IsReset(a)   == call[a].op = "reset"
ClearType(a) == IF IsReset(a) THEN INTERRUPT_ALL ELSE DISABLE

ResetReads(a) ==
  /\ CallAt(a, "reset")
  /\ Remember(a, "drain", CallR(a).interruptor)
  /\ UNCHANGED <<macro, run, active>>

(* Each unlocked dequeue() of these functions, and where it leads. *)
AfterDequeue(a) ==
  CASE call[a].at = "drain"      -> "resetting"
    [] call[a].at = "disable"    -> "unregister"
    [] call[a].at = "clear"      -> IF IsReset(a) THEN "wait" ELSE "sticky"
    [] call[a].at = "drainAgain" -> "wait"

Dequeue(a) ==
  /\ \E l \in {"drain", "disable", "clear", "drainAgain"} : CallAt(a, l)
  /\ Set(CallM(a), Dequeued(CallR(a), ClearType(a)))
  /\ Goto(a, AfterDequeue(a))
  /\ UNCHANGED <<run, active>>

Unregister(a) ==
  /\ CallAt(a, "unregister")
  /\ Set(CallM(a), [CallR(a) EXCEPT !.registered = FALSE])
  /\ Goto(a, "clear")
  /\ UNCHANGED <<run, active>>

(* Each unlocked running(), and where it leads. *)
TestRunning(a) ==
  /\ \/ /\ CallAt(a, "resetting")
        /\ Goto(a, IF Running(CallR(a)) THEN "clear" ELSE "restore")
     \/ /\ CallAt(a, "sticky")
        /\ Goto(a, IF Running(CallR(a)) THEN "drainAgain" ELSE "unset")
     \/ /\ CallAt(a, "waited")
        /\ Goto(a, IF Running(CallR(a)) THEN "drainAgain" ELSE "join")
  /\ UNCHANGED <<macro, run, active>>

(* The loop did not run, so nothing has set threadStatus. *)
TestUnsetStatus(a) ==
  /\ CallAt(a, "unset")
  /\ \E status \in Garbage :
       Goto(a, IF Running(CallR(a)) /\ status = "timeout" THEN "forget" ELSE "join")
  /\ UNCHANGED <<macro, run, active>>

Uncounted(r) == [r EXCEPT !.threadCount = 0]
ForgetThreads(a) ==
  /\ CallAt(a, "forget")
  /\ Lock(a, CallM(a))
  /\ Set(CallM(a), Notified(Uncounted(CallR(a))))
  /\ Goto(a, "join")
  /\ UNCHANGED <<run, active>>

(* _threadCount only changes under the lock, so testing it and blocking is  *)
(* one step.                                                                *)
WaitThreadsChanged(a) ==
  /\ CallAt(a, "wait")
  /\ Lock(a, CallM(a))
  /\ \/ /\ Running(CallR(a))
        /\ Set(CallM(a), Blocked(CallR(a), a))
        /\ UNCHANGED call
     \/ /\ ~Running(CallR(a))
        /\ Goto(a, IF IsReset(a) THEN "join" ELSE "waited")
        /\ UNCHANGED macro
  /\ UNCHANGED <<run, active>>

(* joinAllThreads(): join every thread but oneself, which is detached; then *)
(* clear the handles.                                                       *)
Ended(t) == run[t].at = "gone"
NoHandles(r) == [r EXCEPT !.handles = {}]

(* Mutant of JoinAll: the threads are not joined. *)
JoinNone(a) ==
  /\ CallAt(a, "join")
  /\ Goto(a, "erase")
  /\ UNCHANGED <<macro, run, active>>

JoinAll(a) ==
  /\ CallAt(a, "join")
  /\ \A t \in CallR(a).handles \ {a} : Ended(t)
  /\ run' = [t \in Actors |-> IF t \in CallR(a).handles \ {a} THEN NoFrame ELSE run[t]]
  /\ Set(CallM(a), NoHandles(CallR(a)))
  /\ Goto(a, "erase")
  /\ UNCHANGED active

AfterErase(a) ==
  CASE call[a].op = "reset" -> Goto(a, "restore")
    [] call[a].op = "copy"  -> Goto(a, "assign")
    [] OTHER                -> Return(a)

(* To destroy a joinable handle, one that was neither joined nor detached,  *)
(* calls std::terminate(), whether its thread has ended or not.             *)
Erasable(a) == CallR(a).handles = {}
LivesOn(r, op) == [r EXCEPT !.life = IF op = "destroy" THEN "freed" ELSE @]
EraseHandles(a) ==
  /\ CallAt(a, "erase")
  /\ \/ /\ Erasable(a)
        /\ Set(CallM(a), LivesOn(CallR(a), call[a].op))
        /\ AfterErase(a)
     \/ /\ ~Erasable(a)
        /\ Set(CallM(a), [CallR(a) EXCEPT !.life = "terminated"])
        /\ UNCHANGED call
  /\ UNCHANGED <<run, active>>

(* The reset thread ends by allowing the macro to run again. *)
Restore(a) ==
  /\ CallAt(a, "restore")
  /\ IF call[a].prev # DISABLE
     THEN call' = [call EXCEPT ![a] = CallOf("interrupt", CallM(a), "setInterruptor", CONTINUE)]
     ELSE Return(a)
  /\ UNCHANGED <<macro, run, active>>

(* copy(): take the members of a macro that nothing runs. *)
Copied(r, other) ==
  [interruptor |-> other.interruptor, sticky |-> other.sticky,
   threadMax |-> other.threadMax, signals |-> other.signals,
   threadCount |-> r.threadCount, queued |-> r.queued, handles |-> r.handles,
   waiting |-> r.waiting, mutex |-> r.mutex, registered |-> r.registered,
   life |-> r.life]
Assign(a) ==
  /\ CallAt(a, "assign")
  /\ Lock(a, CallM(a))
  /\ Set(CallM(a), Copied(CallR(a), Setups[call[a].val]))
  /\ Goto(a, "limit")
  /\ UNCHANGED <<run, active>>

ClearStep(a) ==
  \/ ResetReads(a) \/ Dequeue(a) \/ Unregister(a) \/ TestRunning(a)
  \/ TestUnsetStatus(a) \/ ForgetThreads(a) \/ WaitThreadsChanged(a)
  \/ JoinAll(a) \/ EraseHandles(a) \/ Restore(a) \/ Assign(a)

-----------------------------------------------------------------------------
(* setSignals(), setThreadMax(), setSticky() *)

(* Mutant of MayEdit: the signals change while the macro runs. *)
AlwaysEdit(r) == TRUE

MayEdit(r) == r.threadCount = 0
SetSignals(a) ==
  /\ CallAt(a, "setSignals")
  /\ Lock(a, CallM(a))
  /\ \/ /\ MayEdit(CallR(a))
        /\ Set(CallM(a), [CallR(a) EXCEPT !.signals = call[a].val])
        /\ Return(a)
        /\ UNCHANGED run
     \/ /\ ~MayEdit(CallR(a))
        /\ Throw(a)
        /\ UNCHANGED macro
  /\ UNCHANGED active

SetThreadMax(a) ==
  LET val == call[a].val IN
  /\ CallAt(a, "setThreadMax")
  /\ \/ /\ val \notin 1 .. GlobalThreadMax
        /\ Throw(a)
        /\ UNCHANGED macro
     \/ /\ val \in 1 .. GlobalThreadMax
        /\ Lock(a, CallM(a))
        /\ Set(CallM(a), [CallR(a) EXCEPT !.threadMax = val])
        /\ IF val = CallR(a).threadMax THEN Return(a) ELSE Goto(a, "limit")
        /\ UNCHANGED run
  /\ UNCHANGED active

SetSticky(a) ==
  /\ CallAt(a, "setSticky")
  /\ Lock(a, CallM(a))
  /\ Set(CallM(a), [CallR(a) EXCEPT !.sticky = (call[a].val # 0)])
  /\ Return(a)
  /\ UNCHANGED <<run, active>>

SetterStep(a) == SetSignals(a) \/ SetThreadMax(a) \/ SetSticky(a)

CallStep(a) ==
  StartStep(a) \/ SetInterruptorStep(a) \/ ClearStep(a) \/ SetterStep(a)

-----------------------------------------------------------------------------
(* Where each call begins, from a client or from a signal. *)
EntryOf(name) ==
  CASE name = "setInterruptor"       -> "interrupt"
    [] name \in {"copy", "destroy"}  -> "disable"
    [] OTHER                         -> name
Begin(a, m, o) ==
  call' = [call EXCEPT ![a] = CallOf(EntryOf(o.name), m, o.name, o.val)]
=============================================================================
