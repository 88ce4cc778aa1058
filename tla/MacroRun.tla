------------------------------ MODULE MacroRun ------------------------------
(***************************************************************************)
(* MacroImpl::run() and what it calls on the way: runPreamble(),           *)
(* consumeInterrupt(), pauseLoop(), decQueued(), dispatchSignals(),        *)
(* onRunComplete() (src/src/macro.cpp).  A std::thread that start()        *)
(* created executes it, or a client that calls run() itself.  A signal is  *)
(* sent by a call of its own above the run frame.                          *)
(***************************************************************************)
EXTENDS MacroApi

CountedIn(r)  == [r EXCEPT !.threadCount = Incremented(@)]

CountedOut(r) == [r EXCEPT !.threadCount = Decremented(@)]

(* runPreamble(): one more running thread. *)
Enter(a) ==
  /\ RunAt(a, "enter")
  /\ Lock(a, RunM(a))
  /\ Set(RunM(a), Notified(CountedIn(RunR(a))))
  /\ RunTo(a, "consume")
  /\ UNCHANGED <<call, active>>

(* consumeInterrupt(): INTERRUPT ends this run, which first changes it to   *)
(* CONTINUE; the lock is free again before that call.                       *)
AfterConsume(a) == IF run[a].at = "consume" THEN "signals" ELSE "stop"

(* Mutant of Interrupted: every interrupt type ends one run. *)
AnyInterrupt(r) == r.interruptor >= INTERRUPT
Interrupted(r) == r.interruptor = INTERRUPT
ConsumeInterrupt(a) ==
  /\ RunAt(a, "consume") \/ RunAt(a, "loop")
  /\ \/ /\ ~Interrupted(RunR(a))
        /\ RunTo(a, AfterConsume(a))
        /\ UNCHANGED call
     \/ /\ Interrupted(RunR(a))
        /\ Lock(a, RunM(a))
        /\ RunTo(a, "leave")
        /\ Begin(a, RunM(a), [name |-> "setInterruptor", val |-> CONTINUE])
  /\ UNCHANGED <<macro, active>>

HasSignals(r) == SignalLists[r.signals] # <<>>
TestSignals(a) ==
  /\ RunAt(a, "signals")
  /\ RunTo(a, IF HasSignals(RunR(a)) THEN "pause" ELSE "leave")
  /\ UNCHANGED <<macro, call, active>>

(* pauseIfInterrupted(): without the lock first. *)
Paused(r) == r.interruptor = PAUSE
TestPause(a) ==
  /\ RunAt(a, "pause")
  /\ RunTo(a, IF Paused(RunR(a)) THEN "pausing" ELSE "loop")
  /\ UNCHANGED <<macro, call, active>>

(* pauseLoop(): the wait tests its predicate with the lock.  An unlocked    *)
(* dequeue() may come between a test that says to wait and the wait.        *)
TestPauseLoop(a) ==
  /\ RunAt(a, "pausing")
  /\ Lock(a, RunM(a))
  /\ \/ /\ Paused(RunR(a))
        /\ Set(RunM(a), Locked(RunR(a), a))
        /\ RunTo(a, "block")
     \/ /\ ~Paused(RunR(a))
        /\ RunTo(a, "loop")
        /\ UNCHANGED macro
  /\ UNCHANGED <<call, active>>

BlockInPause(a) ==
  /\ RunAt(a, "block")
  /\ Set(RunM(a), Unlocked(Blocked(RunR(a), a)))
  /\ RunTo(a, "pausing")
  /\ UNCHANGED <<call, active>>

(* The head of the loop, after consumeInterrupt(). *)
Stopped(r) == r.interruptor >= INTERRUPT_ALL
TestStopped(a) ==
  /\ RunAt(a, "stop")
  /\ RunTo(a, IF Stopped(RunR(a)) THEN "leave" ELSE "idle")
  /\ UNCHANGED <<macro, call, active>>

(* A sticky macro with one thread runs on without a queue. *)
Stays(r) == r.sticky /\ ~(Signed(r.threadCount) > 1)
TestIdle(a) ==
  /\ RunAt(a, "idle")
  /\ \/ /\ RunR(a).queued > 0
        /\ RunTo(a, "test")
     \/ /\ RunR(a).queued <= 0
        /\ Stays(RunR(a))
        /\ SendFrom(a, 1)
     \/ /\ RunR(a).queued <= 0
        /\ ~Stays(RunR(a))
        /\ RunTo(a, "leave")
  /\ UNCHANGED <<macro, call, active>>

(* decQueued(): test, decrement and clamp, each on its own. *)
TestQueued(a) ==
  /\ RunAt(a, "test")
  /\ IF RunR(a).queued <= 0
     THEN SendFrom(a, 1)
     ELSE RunTo(a, "decrement")
  /\ UNCHANGED <<macro, call, active>>

DecQueued(a) ==
  /\ RunAt(a, "decrement")
  /\ Set(RunM(a), QueuedBy(RunR(a), -1))
  /\ RunTo(a, "clamp")
  /\ UNCHANGED <<call, active>>

ClampQueued(a) ==
  /\ RunAt(a, "clamp")
  /\ Set(RunM(a), Limited(RunR(a)))
  /\ SendFrom(a, 1)
  /\ UNCHANGED <<call, active>>

(* dispatchSignals(): send the next signal, skip the rest on INTERRUPT, or  *)
(* break on INTERRUPT_ALL and DISABLE.                                      *)
Sends(r) == r.interruptor < INTERRUPT
DispatchSignal(a) ==
  LET list == SignalLists[RunR(a).signals]
      i    == run[a].i
  IN /\ RunAt(a, "send")
     /\ \/ /\ i > Len(list) \/ Stopped(RunR(a))
           /\ RunTo(a, "pause")
           /\ UNCHANGED call
        \/ /\ i <= Len(list)
           /\ ~Stopped(RunR(a))
           /\ SendFrom(a, i + 1)
           /\ IF Sends(RunR(a)) /\ list[i].name # "send"
              THEN Begin(a, RunM(a), list[i])
              ELSE UNCHANGED call
     /\ UNCHANGED <<macro, active>>

(* onRunComplete(): count down under the lock, give the thread back under   *)
(* the global mutex, notify without a lock.                                 *)
RunComplete(a) ==
  /\ RunAt(a, "leave")
  /\ Lock(a, RunM(a))
  /\ Set(RunM(a), CountedOut(RunR(a)))
  /\ RunTo(a, "release")
  /\ UNCHANGED <<call, active>>

GiveBack(n) == IF n > 0 THEN n - 1 ELSE n
Release(a) ==
  /\ RunAt(a, "release")
  /\ active' = GiveBack(active)
  /\ RunTo(a, "notify")
  /\ UNCHANGED <<macro, call>>

Ending(a) ==
  IF a \in RunR(a).handles THEN [at |-> "gone", m |-> RunM(a), i |-> 1] ELSE NoFrame

(* Mutant of NotifyThreadsChanged: no notification after the count. *)
NotifyNobody(a) ==
  /\ RunAt(a, "notify")
  /\ run' = [run EXCEPT ![a] = Ending(a)]
  /\ UNCHANGED <<macro, call, active>>

NotifyThreadsChanged(a) ==
  /\ RunAt(a, "notify")
  /\ Set(RunM(a), Notified(RunR(a)))
  /\ run' = [run EXCEPT ![a] = Ending(a)]
  /\ UNCHANGED <<call, active>>

RunStep(a) ==
  \/ Enter(a) \/ ConsumeInterrupt(a) \/ TestSignals(a) \/ TestPause(a)
  \/ TestPauseLoop(a) \/ BlockInPause(a) \/ TestStopped(a) \/ TestIdle(a)
  \/ TestQueued(a) \/ DecQueued(a) \/ ClampQueued(a) \/ DispatchSignal(a)
  \/ RunComplete(a) \/ Release(a) \/ NotifyThreadsChanged(a)
=============================================================================
