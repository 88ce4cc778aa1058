-------------------------- MODULE MacroQueueProofs --------------------------
(***************************************************************************)
(* The queue of a macro stays within _threadMax, whatever the number of    *)
(* macros, threads and clients and the calls they make.                    *)
(*                                                                         *)
(* Few steps write _queued, and most of them set it to 0.  One that makes  *)
(* the queue longer ends with limitMaxThreads(), and so does, a step       *)
(* later, one that makes _threadMax smaller.                               *)
(***************************************************************************)
EXTENDS MacroThreadsProofs

(* setThreadMax() or copy() has lowered _threadMax of m and has not called *)
(* limitMaxThreads() yet.                                                  *)
Lowering(a, m) ==
  /\ call[a].m = m
  /\ call[a].at = "limit"
  /\ call[a].op \in {"setThreadMax", "copy"}

(* A queue is never above the limit of all macros, so that an unsigned     *)
(* comparison with it is a comparison.                                     *)
QueueSmall == \A m \in Macros : macro[m].queued <= GlobalThreadMax
QueueOK    == \A m \in Macros :
  macro[m].queued <= macro[m].threadMax \/ \E a \in Actors : Lowering(a, m)
QueueInv   == TypeOK /\ QueueSmall /\ QueueOK

-----------------------------------------------------------------------------
(* Changes of a macro that leave its queue alone or empty it. *)
Calm(r, new) ==
  /\ new.threadMax = r.threadMax
  /\ new.queued \in {0, r.queued}

LEMMA CalmHelpers ==
  ASSUME NEW r \in MacroRecord
  PROVE  /\ Calm(r, r)
         /\ \A v : /\ Calm(r, Interrupt(r, v)) /\ Calm(r, Notified(Interrupt(r, v)))
                   /\ Calm(r, Unlocked(Notified(Interrupt(r, v))))
         /\ Calm(r, Notified(r)) /\ Calm(r, Unlocked(r)) /\ Calm(r, NoHandles(r))
         /\ Calm(r, Unlocked(Emptied(r)))
         /\ \A a : Calm(r, Locked(r, a)) /\ Calm(r, Blocked(r, a))
         /\ \A a : Calm(r, Unlocked(Blocked(r, a)))
         /\ \A t : Calm(r, Unlocked(WithHandle(r, t)))
         /\ Calm(r, Notified(Uncounted(r))) /\ Calm(r, Notified(CountedIn(r)))
         /\ Calm(r, CountedOut(r))
         /\ \A v : Calm(r, Dequeued(r, v)) /\ Calm(r, Written(r, v))
         /\ \A op : Calm(r, LivesOn(r, op))
         /\ \A v : /\ Calm(r, [r EXCEPT !.registered = v])
                   /\ Calm(r, [r EXCEPT !.sticky = v])
                   /\ Calm(r, [r EXCEPT !.signals = v])
                   /\ Calm(r, [r EXCEPT !.life = v])
<1> USE DEF MacroRecord, Calm
<1>1. /\ Calm(r, r)
      /\ \A v : /\ Calm(r, Interrupt(r, v)) /\ Calm(r, Notified(Interrupt(r, v)))
                /\ Calm(r, Unlocked(Notified(Interrupt(r, v))))
      /\ Calm(r, Notified(r)) /\ Calm(r, Unlocked(r)) /\ Calm(r, NoHandles(r))
      /\ Calm(r, Unlocked(Emptied(r)))
  BY DEF Interrupt, Notified, Unlocked, NoHandles, Emptied
<1>2. /\ \A a : Calm(r, Locked(r, a)) /\ Calm(r, Blocked(r, a))
      /\ \A a : Calm(r, Unlocked(Blocked(r, a)))
      /\ \A t : Calm(r, Unlocked(WithHandle(r, t)))
  BY DEF Locked, Blocked, Unlocked, WithHandle
<1>3. /\ Calm(r, Notified(Uncounted(r))) /\ Calm(r, Notified(CountedIn(r)))
      /\ Calm(r, CountedOut(r))
  BY DEF Notified, Uncounted, CountedIn, CountedOut
<1>4. \A v : Calm(r, Dequeued(r, v))
  BY DEF Dequeued, Notified, Interrupt, Emptied
<1>5. \A v : Calm(r, Written(r, v))
  <2>1. Calm(r, NothingToInterrupt(r))
    BY DEF NothingToInterrupt, Dequeued, Notified, Interrupt, Emptied
  <2> QED BY <1>1, <1>4, <2>1 DEF Written
<1>6. \A op : Calm(r, LivesOn(r, op))
  BY DEF LivesOn
<1>7. \A v : /\ Calm(r, [r EXCEPT !.registered = v])
             /\ Calm(r, [r EXCEPT !.sticky = v])
             /\ Calm(r, [r EXCEPT !.signals = v])
             /\ Calm(r, [r EXCEPT !.life = v])
  OBVIOUS
<1> HIDE DEF MacroRecord, Calm
<1> QED BY <1>1, <1>2, <1>3, <1>4, <1>5, <1>6, <1>7

(* A natural number below Wrap is not changed by the conversion. *)
LEMMA SmallUnsigned ==
  ASSUME NEW n \in Nat, n < Wrap
  PROVE  Unsigned(n) = n
BY LimitsAssumption, Z3 DEF Unsigned

(* limitMaxThreads() does what its name says. *)
LEMMA LimitedWithin ==
  ASSUME NEW r \in MacroRecord, r.queued <= GlobalThreadMax + 1
  PROVE  /\ Limited(r).threadMax = r.threadMax
         /\ Limited(r).queued <= r.threadMax
         /\ Unsigned(Limited(r).queued) <= r.threadMax
         /\ Limited(r).queued \in {0, r.queued}
<1>1. r.queued \in Int /\ r.threadMax \in 1 .. GlobalThreadMax
  BY MemberType
<1>2. Emptied(r).queued = 0 /\ Emptied(r).threadMax = r.threadMax
  BY DEF Emptied, MacroRecord
<1>3. CASE Unsigned(r.queued) > r.threadMax
  <2>1. Limited(r) = Emptied(r)
    BY <1>3 DEF Limited
  <2>2. Unsigned(0) = 0
    BY SmallUnsigned, LimitsAssumption
  <2> QED BY <1>1, <1>2, <2>1, <2>2, LimitsAssumption
<1>4. CASE ~(Unsigned(r.queued) > r.threadMax)
  <2>1. Limited(r) = r
    BY <1>4 DEF Limited
  <2>2. Unsigned(r.queued) \in Int /\ Unsigned(r.queued) <= r.threadMax
    <3>1. Unsigned(r.queued) \in Int
      BY <1>1, LimitsAssumption, Z3 DEF Unsigned
    <3> QED BY <1>1, <1>4, <3>1, LimitsAssumption
  <2>3. CASE r.queued < 0
    BY <1>1, <2>1, <2>2, <2>3, LimitsAssumption
  <2>4. CASE r.queued >= 0
    <3>1. Unsigned(r.queued) = r.queued
      BY <1>1, <2>4, SmallUnsigned, LimitsAssumption
    <3> QED BY <1>1, <2>1, <2>2, <3>1, LimitsAssumption
  <2> QED BY <1>1, <2>3, <2>4
<1> QED BY <1>3, <1>4

-----------------------------------------------------------------------------
(***************************************************************************)
(* What a step of a may do: nothing to the queues (Leaves), a calm change  *)
(* of one macro (Calms), a change after which the queue of the macro is    *)
(* within its limit (Limits), one of its limit only, before                *)
(* limitMaxThreads() (Lowers), or take one from the queue, which it is     *)
(* about to clamp (Takes).  Calls that are about to limit stay so.         *)
(***************************************************************************)
OthersWait(a) ==
  \A b \in Actors \ {a} : call[b].at = "limit" => call'[b] = call[b]

Leaves(a) == macro' = macro /\ OthersWait(a) /\ call[a].at # "limit"

Calms(a, m, r) ==
  /\ Set(m, r) /\ OthersWait(a) /\ call[a].at # "limit"
  /\ Calm(macro[m], r)

Limits(a, m, r) ==
  /\ Set(m, r) /\ OthersWait(a)
  /\ call[a].at = "limit" => call[a].m = m
  /\ r.threadMax \in 1 .. GlobalThreadMax /\ r.queued <= r.threadMax
  /\ Unsigned(r.queued) <= r.threadMax
  /\ r.queued \in {0, macro[m].queued, macro[m].queued + 1}

Lowers(a, m, r) ==
  /\ Set(m, r) /\ OthersWait(a) /\ call[a].at # "limit"
  /\ r.queued = macro[m].queued /\ Lowering(a, m)'

Takes(a, m, r) ==
  /\ Set(m, r) /\ OthersWait(a) /\ call[a].at # "limit"
  /\ r.threadMax = macro[m].threadMax /\ r.queued = macro[m].queued - 1
  /\ run[a].m = m /\ run[a].at = "decrement" /\ RunTo(a, "clamp")

QueueStep(a) ==
  \/ Leaves(a)
  \/ \E m \in Macros, r \in MacroRecord :
       Calms(a, m, r) \/ Limits(a, m, r) \/ Lowers(a, m, r) \/ Takes(a, m, r)

LEMMA CalmStep ==
  ASSUME NEW a \in Actors, NEW m \in Macros, NEW r \in MacroRecord,
         Set(m, r), OthersWait(a), call[a].at # "limit", Calm(macro[m], r)
  PROVE  QueueStep(a)
BY DEF QueueStep, Calms

LEMMA LeavesStep ==
  ASSUME NEW a \in Actors, UNCHANGED macro, OthersWait(a), call[a].at # "limit"
  PROVE  QueueStep(a)
BY DEF QueueStep, Leaves

LEMMA LowersStep ==
  ASSUME NEW a \in Actors, NEW m \in Macros, NEW r \in MacroRecord,
         Set(m, r), OthersWait(a), call[a].at # "limit",
         r.queued = macro[m].queued, call'[a].m = m, call'[a].at = "limit",
         call'[a].op \in {"setThreadMax", "copy"}
  PROVE  QueueStep(a)
BY DEF QueueStep, Lowers, Lowering

LEMMA QueueStepKeeps ==
  ASSUME QueueInv, NEW a \in Actors, QueueStep(a)
  PROVE  QueueSmall' /\ QueueOK'
<1>0. /\ macro \in [Macros -> MacroRecord]
      /\ \A m \in Macros : /\ macro[m].queued \in Int
                           /\ macro[m].threadMax \in 1 .. GlobalThreadMax
      /\ GlobalThreadMax \in Nat
  BY LimitsAssumption, MemberType DEF QueueInv, TypeOK, MacrosOK
<1>1. ASSUME NEW m \in Macros, NEW b \in Actors, Lowering(b, m), OthersWait(a), b # a
      PROVE  Lowering(b, m)'
  BY <1>1 DEF Lowering, OthersWait
<1>2. CASE Leaves(a)
  <2>1. ASSUME NEW m \in Macros, NEW b \in Actors, Lowering(b, m) PROVE Lowering(b, m)'
    BY <1>1, <1>2, <2>1 DEF Leaves, Lowering
  <2> QED BY <1>2, <2>1 DEF Leaves, QueueInv, QueueSmall, QueueOK
<1>3. ASSUME NEW m \in Macros, NEW r \in MacroRecord, Calms(a, m, r) \/ Takes(a, m, r)
      PROVE  QueueSmall' /\ QueueOK'
  <2>1. ASSUME NEW o \in Macros, NEW b \in Actors, Lowering(b, o) PROVE Lowering(b, o)'
    BY <1>1, <1>3, <2>1 DEF Calms, Takes, Lowering
  <2>2. \A o \in Macros : macro'[o] = IF o = m THEN r ELSE macro[o]
    BY <1>0, <1>3 DEF Calms, Takes, Set
  <2>3. r.threadMax = macro[m].threadMax /\ r.queued \in {0, macro[m].queued, macro[m].queued - 1}
    BY <1>3 DEF Calms, Takes, Calm
  <2>4. QueueSmall'
    BY <1>0, <2>2, <2>3 DEF QueueInv, QueueSmall
  <2>5. QueueOK'
    BY <1>0, <2>1, <2>2, <2>3 DEF QueueInv, QueueOK
  <2> QED BY <2>4, <2>5
<1>4. ASSUME NEW m \in Macros, NEW r \in MacroRecord, Limits(a, m, r)
      PROVE  QueueSmall' /\ QueueOK'
  <2>1. ASSUME NEW o \in Macros, NEW b \in Actors, Lowering(b, o), o # m
        PROVE  Lowering(b, o)'
    BY <1>1, <1>4, <2>1 DEF Limits, Lowering
  <2>2. \A o \in Macros : macro'[o] = IF o = m THEN r ELSE macro[o]
    BY <1>0, <1>4 DEF Limits, Set
  <2>3. r.threadMax \in 1 .. GlobalThreadMax /\ r.queued <= r.threadMax /\ r.queued \in Int
    BY <1>4, MemberType DEF Limits
  <2>4. QueueSmall'
    BY <1>0, <2>2, <2>3 DEF QueueInv, QueueSmall
  <2>5. QueueOK'
    BY <1>0, <2>1, <2>2, <2>3 DEF QueueInv, QueueOK
  <2> QED BY <2>4, <2>5
<1>5. ASSUME NEW m \in Macros, NEW r \in MacroRecord, Lowers(a, m, r)
      PROVE  QueueSmall' /\ QueueOK'
  <2>1. ASSUME NEW o \in Macros, NEW b \in Actors, Lowering(b, o) PROVE Lowering(b, o)'
    BY <1>1, <1>5, <2>1 DEF Lowers, Lowering
  <2>2. \A o \in Macros : macro'[o] = IF o = m THEN r ELSE macro[o]
    BY <1>0, <1>5 DEF Lowers, Set
  <2>3. r.queued = macro[m].queued /\ Lowering(a, m)'
    BY <1>5 DEF Lowers
  <2>4. QueueSmall'
    BY <1>0, <2>2, <2>3 DEF QueueInv, QueueSmall
  <2>5. QueueOK'
    BY <1>0, <2>1, <2>2, <2>3 DEF QueueInv, QueueOK
  <2> QED BY <2>4, <2>5
<1> QED BY <1>2, <1>3, <1>4, <1>5 DEF QueueStep

-----------------------------------------------------------------------------
(* The steps are such steps, one lemma per group of actions. *)

(* A step of a that changes its own frame only. *)
LEMMA OwnFrame ==
  ASSUME TypeOK, NEW a \in Actors
  PROVE  /\ UNCHANGED call => OthersWait(a)
         /\ Return(a) => OthersWait(a)
         /\ Throw(a) => OthersWait(a)
         /\ \A l : Goto(a, l) => OthersWait(a)
         /\ \A l, v : Remember(a, l, v) => OthersWait(a)
         /\ \A m, o : Begin(a, m, o) => OthersWait(a)
         /\ \A f : call' = [call EXCEPT ![a] = f] => OthersWait(a)
BY DEF TypeOK, CallsOK, OthersWait, Return, Throw, Goto, Remember, Begin

LEMMA StartQueues ==
  ASSUME QueueInv, NEW a \in Actors, StartStep(a)
  PROVE  QueueStep(a)
<1> USE DEF CallAt
<1>1. /\ TypeOK /\ CallM(a) \in Macros /\ CallR(a) \in MacroRecord
      /\ CallR(a) = macro[CallM(a)] /\ CallM(a) = call[a].m
      /\ CallR(a).queued \in Int /\ CallR(a).threadMax \in 1 .. GlobalThreadMax
      /\ CallR(a).queued <= GlobalThreadMax
  BY InFrame, MemberType DEF QueueInv, QueueSmall, CallR, CallM
<1>2. CASE StartLock(a)
  <2>1. OthersWait(a) /\ call[a].at # "limit"
    BY <1>1, <1>2, OwnFrame DEF StartLock
  <2>2. CASE UNCHANGED macro
    BY <2>1, <2>2, LeavesStep
  <2>3. CASE Set(CallM(a), Locked(CallR(a), a))
    BY <1>1, <2>1, <2>3, CalmHelpers, UpdateType, CalmStep
  <2> QED BY <1>2, <2>2, <2>3 DEF StartLock
<1>3. CASE Reserve(a) \/ CheckQueued(a)
  <2>1. OthersWait(a) /\ call[a].at # "limit"
    BY <1>1, <1>3, OwnFrame DEF Reserve, CheckQueued
  <2>2. CASE UNCHANGED macro
    BY <2>1, <2>2, LeavesStep
  <2>3. CASE Set(CallM(a), Unlocked(Emptied(CallR(a))))
    BY <1>1, <2>1, <2>3, CalmHelpers, UpdateType, CalmStep
  <2> QED BY <1>3, <2>2, <2>3 DEF Reserve, CheckQueued
<1>4. CASE IncQueuedTest(a)
  BY <1>1, <1>4, OwnFrame, LeavesStep DEF IncQueuedTest
<1>5. CASE IncQueued(a)
  <2> DEFINE r == QueuedBy(CallR(a), 1)
  <2>1. OthersWait(a) /\ call[a].at # "limit" /\ Set(CallM(a), Limited(r))
    BY <1>1, <1>5, OwnFrame DEF IncQueued
  <2>2. r.queued = CallR(a).queued + 1 /\ r.threadMax = CallR(a).threadMax
    BY <1>1 DEF QueuedBy, MacroRecord
  <2>3. r \in MacroRecord
    <3> \A n \in Int : QueuedBy(CallR(a), n) \in MacroRecord
      BY <1>1, UpdateType
    <3> QED OBVIOUS
  <2> HIDE DEF r
  <2>4. r.queued <= GlobalThreadMax + 1
    BY <1>1, <2>2, LimitsAssumption
  <2>5. Limited(r) \in MacroRecord
    BY <2>3, ComposedType
  <2>6. /\ Limited(r).threadMax \in 1 .. GlobalThreadMax
        /\ Limited(r).queued <= Limited(r).threadMax
        /\ Unsigned(Limited(r).queued) <= Limited(r).threadMax
        /\ Limited(r).queued \in {0, macro[CallM(a)].queued + 1}
    BY <1>1, <2>2, <2>3, <2>4, LimitedWithin
  <2>7. Limits(a, CallM(a), Limited(r))
    BY <2>1, <2>6 DEF Limits
  <2> QED BY <1>1, <2>5, <2>7 DEF QueueStep
<1>6. CASE Spawn(a)
  <2>1. PICK t \in FreeThreads : Set(CallM(a), Unlocked(WithHandle(CallR(a), t)))
    BY <1>6 DEF Spawn
  <2>2. OthersWait(a) /\ call[a].at # "limit" /\ t \in Threads
    BY <1>1, <1>6, OwnFrame DEF Spawn, FreeThreads
  <2>3. Unlocked(WithHandle(CallR(a), t)) \in MacroRecord
    BY <1>1, <2>2, UpdateType
  <2> QED BY <1>1, <2>1, <2>2, <2>3, CalmHelpers, CalmStep
<1>7. CASE SpawnFails(a)
  BY <1>1, <1>7, OwnFrame, CalmHelpers, UpdateType, CalmStep DEF SpawnFails
<1>8. CASE LimitMaxThreads(a)
  <2> DEFINE r == CallR(a)
  <2>1. OthersWait(a) /\ Set(CallM(a), Limited(r))
    BY <1>1, <1>8, OwnFrame DEF LimitMaxThreads
  <2>2. r.queued <= GlobalThreadMax + 1
    BY <1>1, LimitsAssumption
  <2>3. /\ Limited(r) \in MacroRecord /\ Limited(r).threadMax \in 1 .. GlobalThreadMax
        /\ Limited(r).queued <= Limited(r).threadMax
        /\ Unsigned(Limited(r).queued) <= Limited(r).threadMax
        /\ Limited(r).queued \in {0, macro[CallM(a)].queued}
    BY <1>1, <2>2, ComposedType, LimitedWithin
  <2> HIDE DEF r
  <2>4. Limits(a, CallM(a), Limited(r))
    BY <1>1, <2>1, <2>3 DEF Limits
  <2> QED BY <1>1, <2>3, <2>4 DEF QueueStep
<1>9. CASE Resume(a)
  <2> DEFINE r == Unlocked(Notified(Interrupt(CallR(a), CONTINUE)))
  <2>1. CONTINUE \in Interrupts
    BY DEF Interrupts, CONTINUE, DISABLE
  <2>2. Notified(Interrupt(CallR(a), CONTINUE)) \in MacroRecord
    BY <1>1, <2>1, UpdateType
  <2>3. r \in MacroRecord /\ Calm(CallR(a), r)
    BY <1>1, <2>2, UpdateType, CalmHelpers
  <2>4. OthersWait(a) /\ call[a].at # "limit" /\ Set(CallM(a), r)
    BY <1>1, <1>9, OwnFrame DEF Resume
  <2> HIDE DEF r
  <2> QED BY <1>1, <2>3, <2>4, CalmStep
<1> QED BY <1>2, <1>3, <1>4, <1>5, <1>6, <1>7, <1>8, <1>9 DEF StartStep

LEMMA SetInterruptorQueues ==
  ASSUME QueueInv, NEW a \in Actors, SetInterruptorStep(a)
  PROVE  QueueStep(a)
<1> USE DEF CallAt
<1>1. /\ TypeOK /\ CallM(a) \in Macros /\ CallR(a) \in MacroRecord
      /\ CallR(a) = macro[CallM(a)] /\ Legal(call[a])
  BY InFrame DEF QueueInv, CallR, CallM
<1>2. CASE ReadInterruptor(a) \/ CompareInterruptor(a) \/ DetachFails(a)
  BY <1>1, <1>2, OwnFrame, LeavesStep DEF ReadInterruptor, CompareInterruptor, DetachFails
<1>3. CASE WriteInterruptor(a)
  <2> DEFINE f == Spawning(call[a], call[a].val = INTERRUPT_ALL /\ Running(CallR(a)))
             r == Written(CallR(a), call[a].val)
  <2>1. \/ call' = [call EXCEPT ![a] = f]
        \/ Goto(a, "detach") \/ Return(a)
    BY <1>3 DEF WriteInterruptor
  <2> HIDE DEF f
  <2>2. OthersWait(a) /\ call[a].at # "limit"
    BY <1>1, <1>3, <2>1, OwnFrame DEF WriteInterruptor
  <2>3. call[a].val \in Interrupts
    BY <1>1, <1>3 DEF WriteInterruptor, Legal
  <2>4. r \in MacroRecord /\ Calm(CallR(a), r)
    BY <1>1, <2>3, ComposedType, CalmHelpers
  <2>5. Set(CallM(a), r)
    BY <1>3 DEF WriteInterruptor
  <2> HIDE DEF r
  <2> QED BY <1>1, <2>2, <2>4, <2>5, CalmStep
<1>4. CASE ApplyDispatch(a)
  <2> DEFINE r == [CallR(a) EXCEPT !.registered = Enabled(CallR(a))]
  <2>1. OthersWait(a) /\ call[a].at # "limit" /\ Set(CallM(a), r)
    BY <1>1, <1>4, OwnFrame DEF ApplyDispatch
  <2>2. r \in MacroRecord /\ Calm(CallR(a), r)
    BY <1>1, UpdateType, CalmHelpers DEF Enabled
  <2> HIDE DEF r
  <2> QED BY <1>1, <2>1, <2>2, CalmStep
<1>5. CASE DetachReset(a)
  <2>1. PICK x \in FreeResets :
          call' = [call EXCEPT ![a] = NoCall, ![x] = CallOf("reset", CallM(a), "reset", 0)]
    BY <1>5 DEF DetachReset
  <2>2. call[x].at = "none"
    BY DEF FreeResets
  <2>3. OthersWait(a)
    BY <1>1, <2>1, <2>2 DEF OthersWait, TypeOK, CallsOK
  <2> QED BY <1>5, <2>3, LeavesStep DEF DetachReset
<1> QED BY <1>2, <1>3, <1>4, <1>5 DEF SetInterruptorStep

LEMMA ClearQueues ==
  ASSUME QueueInv, NEW a \in Actors, ClearStep(a)
  PROVE  QueueStep(a)
<1> USE DEF CallAt
<1>1. /\ TypeOK /\ CallM(a) \in Macros /\ CallR(a) \in MacroRecord
      /\ CallR(a) = macro[CallM(a)] /\ CallM(a) = call[a].m /\ Legal(call[a])
  BY InFrame DEF QueueInv, CallR, CallM
<1>2. CASE \/ ResetReads(a) \/ TestRunning(a) \/ TestUnsetStatus(a)
  BY <1>1, <1>2, OwnFrame, LeavesStep DEF ResetReads, TestRunning, TestUnsetStatus
<1>3. CASE Restore(a)
  <2> DEFINE f == CallOf("interrupt", CallM(a), "setInterruptor", CONTINUE)
  <2>1. call' = [call EXCEPT ![a] = f] \/ Return(a)
    BY <1>3 DEF Restore
  <2> HIDE DEF f
  <2> QED BY <1>1, <1>3, <2>1, OwnFrame, LeavesStep DEF Restore
<1>4. CASE Dequeue(a)
  <2>1. ClearType(a) \in Interrupts
    BY DEF ClearType, Interrupts, CONTINUE, INTERRUPT_ALL, DISABLE
  <2>2. Dequeued(CallR(a), ClearType(a)) \in MacroRecord
    BY <1>1, <2>1, ComposedType
  <2>3. Calm(CallR(a), Dequeued(CallR(a), ClearType(a)))
    BY <1>1, CalmHelpers
  <2> QED BY <1>1, <1>4, <2>2, <2>3, OwnFrame, CalmStep DEF Dequeue
<1>5. CASE Unregister(a)
  <2> DEFINE r == [CallR(a) EXCEPT !.registered = FALSE]
  <2>1. OthersWait(a) /\ call[a].at # "limit" /\ Set(CallM(a), r)
    BY <1>1, <1>5, OwnFrame DEF Unregister
  <2>2. r \in MacroRecord /\ Calm(CallR(a), r)
    BY <1>1, UpdateType, CalmHelpers
  <2> HIDE DEF r
  <2> QED BY <1>1, <2>1, <2>2, CalmStep
<1>6. CASE ForgetThreads(a)
  <2>1. Notified(Uncounted(CallR(a))) \in MacroRecord
    BY <1>1, UpdateType
  <2> QED BY <1>1, <1>6, <2>1, OwnFrame, CalmHelpers, CalmStep DEF ForgetThreads
<1>7. CASE WaitThreadsChanged(a)
  <2>1. OthersWait(a) /\ call[a].at # "limit"
    BY <1>1, <1>7, OwnFrame DEF WaitThreadsChanged
  <2>2. CASE UNCHANGED macro
    BY <2>1, <2>2, LeavesStep
  <2>3. CASE Set(CallM(a), Blocked(CallR(a), a))
    BY <1>1, <2>1, <2>3, UpdateType, CalmHelpers, CalmStep
  <2> QED BY <1>7, <2>2, <2>3 DEF WaitThreadsChanged
<1>8. CASE EraseHandles(a)
  <2>1. UNCHANGED call \/ Return(a) \/ \E l \in {"restore", "assign"} : Goto(a, l)
    BY <1>8 DEF EraseHandles, AfterErase
  <2>2. OthersWait(a) /\ call[a].at # "limit"
    BY <1>1, <1>8, <2>1, OwnFrame DEF EraseHandles
  <2>3. CASE Set(CallM(a), LivesOn(CallR(a), call[a].op))
    <3>1. LivesOn(CallR(a), call[a].op) \in MacroRecord
      BY <1>1, ComposedType
    <3> QED BY <1>1, <2>2, <2>3, <3>1, CalmHelpers, CalmStep
  <2>4. CASE Set(CallM(a), [CallR(a) EXCEPT !.life = "terminated"])
    BY <1>1, <2>2, <2>4, UpdateType, CalmHelpers, CalmStep
  <2> QED BY <1>8, <2>3, <2>4 DEF EraseHandles
<1>9. CASE Assign(a)
  <2> DEFINE r == Copied(CallR(a), Setups[call[a].val])
  <2>1. call[a].op = "copy" /\ call[a].val \in DOMAIN Setups
    BY <1>1, <1>9 DEF Assign, Legal
  <2>2. OthersWait(a) /\ call[a].at # "limit" /\ Set(CallM(a), r) /\ Goto(a, "limit")
    BY <1>1, <1>9, OwnFrame DEF Assign
  <2>3. r \in MacroRecord /\ r.queued = CallR(a).queued
    BY <1>1, <2>1, ComposedType DEF Copied
  <2>4. call'[a].m = CallM(a) /\ call'[a].at = "limit" /\ call'[a].op = "copy"
    BY <1>1, <2>1, <2>2 DEF Goto, TypeOK, CallsOK, CallFrame
  <2> HIDE DEF r
  <2> QED BY <1>1, <2>2, <2>3, <2>4, LowersStep
<1>10. CASE JoinAll(a)
  BY <1>1, <1>10, OwnFrame, UpdateType, CalmHelpers, CalmStep DEF JoinAll
<1> QED BY <1>2, <1>3, <1>4, <1>5, <1>6, <1>7, <1>8, <1>9, <1>10 DEF ClearStep

LEMMA SetterQueues ==
  ASSUME QueueInv, NEW a \in Actors, SetterStep(a)
  PROVE  QueueStep(a)
<1> USE DEF CallAt
<1>1. /\ TypeOK /\ CallM(a) \in Macros /\ CallR(a) \in MacroRecord
      /\ CallR(a) = macro[CallM(a)] /\ CallM(a) = call[a].m /\ Legal(call[a])
  BY InFrame DEF QueueInv, CallR, CallM
<1>2. CASE SetSignals(a)
  <2>1. OthersWait(a) /\ call[a].at # "limit"
    BY <1>1, <1>2, OwnFrame DEF SetSignals
  <2>2. CASE UNCHANGED macro
    BY <2>1, <2>2, LeavesStep
  <2>3. CASE Set(CallM(a), [CallR(a) EXCEPT !.signals = call[a].val])
    <3>1. call[a].val \in DOMAIN SignalLists
      BY <1>1, <1>2 DEF SetSignals, Legal
    <3> QED BY <1>1, <2>1, <2>3, <3>1, UpdateType, CalmHelpers, CalmStep
  <2> QED BY <1>2, <2>2, <2>3 DEF SetSignals
<1>3. CASE SetThreadMax(a)
  <2> DEFINE val == call[a].val
             r   == [CallR(a) EXCEPT !.threadMax = val]
  <2>1. OthersWait(a) /\ call[a].at # "limit" /\ call[a].op = "setThreadMax"
    BY <1>1, <1>3, OwnFrame DEF SetThreadMax, Legal
  <2>2. CASE UNCHANGED macro
    BY <2>1, <2>2, LeavesStep
  <2>3. CASE Set(CallM(a), r) /\ val \in 1 .. GlobalThreadMax
    <3>1. r \in MacroRecord
      BY <1>1, <2>3, UpdateType
    <3>2. r.queued = CallR(a).queued /\ r.threadMax = val
      BY <1>1 DEF MacroRecord
    <3>3. CASE val = CallR(a).threadMax
      <4>1. Calm(CallR(a), r)
        BY <3>2, <3>3 DEF Calm
      <4> QED BY <1>1, <2>1, <2>3, <3>1, <4>1, CalmStep
    <3>4. CASE val # CallR(a).threadMax
      <4>1. Goto(a, "limit") \/ UNCHANGED macro
        BY <1>3, <3>4 DEF SetThreadMax
      <4>2. CASE Goto(a, "limit")
        <5>1. /\ call'[a].m = CallM(a) /\ call'[a].at = "limit"
              /\ call'[a].op = "setThreadMax"
          BY <1>1, <2>1, <4>2 DEF Goto, TypeOK, CallsOK, CallFrame
        <5> HIDE DEF r
        <5> QED BY <1>1, <2>1, <2>3, <3>1, <3>2, <5>1, LowersStep
      <4> QED BY <2>2, <4>1, <4>2
    <3> QED BY <3>3, <3>4
  <2> QED BY <1>3, <2>2, <2>3 DEF SetThreadMax
<1>4. CASE SetSticky(a)
  <2> DEFINE r == [CallR(a) EXCEPT !.sticky = (call[a].val # 0)]
  <2>1. OthersWait(a) /\ call[a].at # "limit" /\ Set(CallM(a), r)
    BY <1>1, <1>4, OwnFrame DEF SetSticky
  <2>2. r \in MacroRecord /\ Calm(CallR(a), r)
    BY <1>1, UpdateType, CalmHelpers
  <2> HIDE DEF r
  <2> QED BY <1>1, <2>1, <2>2, CalmStep
<1> QED BY <1>2, <1>3, <1>4 DEF SetterStep

LEMMA RunQueues ==
  ASSUME QueueInv, NEW a \in Actors, RunStep(a)
  PROVE  QueueStep(a)
<1> USE DEF RunAt
<1>1. /\ TypeOK /\ RunM(a) \in Macros /\ RunR(a) \in MacroRecord
      /\ RunR(a) = macro[RunM(a)]
      /\ RunR(a).queued \in Int /\ RunR(a).threadMax \in 1 .. GlobalThreadMax
      /\ RunR(a).queued <= GlobalThreadMax
  BY InFrame, MemberType DEF QueueInv, QueueSmall, RunR, RunM
<1>2. CASE \/ ConsumeInterrupt(a) \/ TestSignals(a) \/ TestPause(a) \/ TestStopped(a)
           \/ TestIdle(a) \/ TestQueued(a) \/ DispatchSignal(a)
  <2>1. OthersWait(a) /\ call[a].at = "none"
    BY <1>1, <1>2, OwnFrame DEF ConsumeInterrupt, TestSignals, TestPause, TestStopped,
                                TestIdle, TestQueued, DispatchSignal
  <2>2. UNCHANGED macro
    BY <1>2 DEF ConsumeInterrupt, TestSignals, TestPause, TestStopped, TestIdle, TestQueued,
                DispatchSignal
  <2> QED BY <2>1, <2>2, LeavesStep
<1>3. CASE Enter(a)
  <2>1. Notified(CountedIn(RunR(a))) \in MacroRecord
    BY <1>1, UpdateType, ComposedType
  <2> QED BY <1>1, <1>3, <2>1, OwnFrame, CalmHelpers, CalmStep DEF Enter
<1>4. CASE TestPauseLoop(a)
  <2>1. OthersWait(a) /\ call[a].at # "limit"
    BY <1>1, <1>4, OwnFrame DEF TestPauseLoop
  <2>2. CASE UNCHANGED macro
    BY <2>1, <2>2, LeavesStep
  <2>3. CASE Set(RunM(a), Locked(RunR(a), a))
    BY <1>1, <2>1, <2>3, UpdateType, CalmHelpers, CalmStep
  <2> QED BY <1>4, <2>2, <2>3 DEF TestPauseLoop
<1>5. CASE BlockInPause(a)
  <2>1. Unlocked(Blocked(RunR(a), a)) \in MacroRecord
    BY <1>1, UpdateType
  <2> QED BY <1>1, <1>5, <2>1, OwnFrame, CalmHelpers, CalmStep DEF BlockInPause
<1>6. CASE DecQueued(a)
  <2> DEFINE r == QueuedBy(RunR(a), -1)
  <2>1. /\ OthersWait(a) /\ call[a].at # "limit" /\ Set(RunM(a), r)
        /\ run[a].at = "decrement" /\ RunTo(a, "clamp") /\ run[a].m = RunM(a)
    BY <1>1, <1>6, OwnFrame DEF DecQueued, RunM
  <2>2. r \in MacroRecord
    <3> \A n \in Int : QueuedBy(RunR(a), n) \in MacroRecord
      BY <1>1, UpdateType
    <3> QED OBVIOUS
  <2>3. r.queued = RunR(a).queued - 1 /\ r.threadMax = RunR(a).threadMax
    BY <1>1 DEF QueuedBy, MacroRecord
  <2> HIDE DEF r
  <2>4. Takes(a, RunM(a), r)
    BY <1>1, <2>1, <2>3 DEF Takes
  <2> QED BY <1>1, <2>2, <2>4 DEF QueueStep
<1>7. CASE ClampQueued(a)
  <2> DEFINE r == RunR(a)
  <2>1. OthersWait(a) /\ call[a].at # "limit" /\ Set(RunM(a), Limited(r))
    BY <1>1, <1>7, OwnFrame DEF ClampQueued
  <2>2. r.queued <= GlobalThreadMax + 1
    BY <1>1, LimitsAssumption
  <2>3. /\ Limited(r) \in MacroRecord /\ Limited(r).threadMax \in 1 .. GlobalThreadMax
        /\ Limited(r).queued <= Limited(r).threadMax
        /\ Unsigned(Limited(r).queued) <= Limited(r).threadMax
        /\ Limited(r).queued \in {0, macro[RunM(a)].queued}
    BY <1>1, <2>2, ComposedType, LimitedWithin
  <2> HIDE DEF r
  <2>4. Limits(a, RunM(a), Limited(r))
    BY <2>1, <2>3 DEF Limits
  <2> QED BY <1>1, <2>3, <2>4 DEF QueueStep
<1>8. CASE RunComplete(a)
  <2>1. CountedOut(RunR(a)) \in MacroRecord
    BY <1>1, ComposedType
  <2> QED BY <1>1, <1>8, <2>1, OwnFrame, CalmHelpers, CalmStep DEF RunComplete
<1>9. CASE Release(a)
  BY <1>1, <1>9, OwnFrame, LeavesStep DEF Release
<1>10. CASE NotifyThreadsChanged(a)
  BY <1>1, <1>10, OwnFrame, CalmHelpers, UpdateType, CalmStep DEF NotifyThreadsChanged
<1> QED BY <1>2, <1>3, <1>4, <1>5, <1>6, <1>7, <1>8, <1>9, <1>10 DEF RunStep

LEMMA InvokeQueues ==
  ASSUME QueueInv, NEW c \in Clients, Invoke(c)
  PROVE  QueueStep(c)
<1>1. c \in Actors /\ TypeOK /\ call[c].at = "none"
  BY DEF Actors, QueueInv, Invoke, RunAt
<1>2. PICK m \in Macros :
        /\ UNCHANGED call \/ \E o : Begin(c, m, o)
        /\ UNCHANGED macro \/ Set(m, [macro[m] EXCEPT !.life = "dying"])
  BY DEF Invoke
<1>3. OthersWait(c)
  BY <1>1, <1>2, OwnFrame
<1>4. macro[m] \in MacroRecord
  BY <1>1 DEF TypeOK, MacrosOK
<1> QED BY <1>1, <1>2, <1>3, <1>4, UpdateType, CalmHelpers, LeavesStep, CalmStep

LEMMA NextQueues ==
  ASSUME QueueInv, [Next]_vars
  PROVE  QueueInv'
<1>1. TypeOK'
  BY NextTyped DEF QueueInv
<1>2. ASSUME NEW c \in Clients, Invoke(c) PROVE QueueInv'
  BY <1>1, <1>2, InvokeQueues, QueueStepKeeps DEF QueueInv, Actors
<1>3. ASSUME NEW a \in Actors, Step(a) PROVE QueueInv'
  <2>1. QueueStep(a)
    BY <1>3, StartQueues, SetInterruptorQueues, ClearQueues, SetterQueues, RunQueues
       DEF Step, CallStep
  <2> QED BY <1>1, <2>1, QueueStepKeeps DEF QueueInv
<1>4. CASE UNCHANGED vars
  BY <1>1, <1>4 DEF vars, QueueInv, QueueSmall, QueueOK, Lowering
<1> QED BY <1>2, <1>3, <1>4 DEF Next

LEMMA QueueInitially == ASSUME Init PROVE QueueInv
<1>1. \A m \in Macros : macro[m].queued = 0 /\ macro[m].threadMax \in 1 .. GlobalThreadMax
  <2>1. \A m \in Macros : macro[m].queued = 0
    BY DEF Init, NewMacro
  <2>2. \A m \in Macros : macro[m].threadMax \in 1 .. GlobalThreadMax
    BY InitTyped, MemberType DEF TypeOK, MacrosOK
  <2> QED BY <2>1, <2>2
<1> QED BY <1>1, InitTyped, LimitsAssumption DEF QueueInv, QueueSmall, QueueOK

(* Whatever calls are made, the queue of a macro stays within _threadMax,   *)
(* except until a setThreadMax() or copy() under way limits it.             *)
THEOREM QueueWithinMax == Spec => []QueuedWithinMax
<1>1. Init => QueueInv
  BY QueueInitially
<1>2. QueueInv /\ [Next]_vars => QueueInv'
  BY NextQueues
<1>3. QueueInv => QueuedWithinMax
  BY DEF QueueInv, QueueOK, Lowering, QueuedWithinMax, InCall
<1> QED BY <1>1, <1>2, <1>3, PTL DEF Spec
-----------------------------------------------------------------------------
(***************************************************************************)
(* A negative queue is repaired by the runs that made it.  Several runs    *)
(* may see the same queued one and take it, so the queue may be below -1;  *)
(* but every run that took one is about to clamp it, and the unsigned      *)
(* comparison of limitMaxThreads() finds every negative number too large:  *)
(* the first run that clamps, or a start() that comes between, empties the *)
(* queue.  This needs that the threads are too few to drive _queued down   *)
(* to a number that the conversion makes a small one again: RoomBelowZero. *)
(***************************************************************************)

(* The runs of m that have taken one from its queue and not clamped it. *)
Clamping(m) == {a \in Actors : run[a].at = "clamp" /\ run[a].m = m}

(* The queue is not further below 0 than there are such runs. *)
Owed     == \A m \in Macros : macro[m].queued + Cardinality(Clamping(m)) >= 0
DebtInv  == QueueInv /\ Owed

(* The runs that are about to clamp stay so. *)
ClampsWait == \A b \in Actors : run[b].at = "clamp" => run'[b] = run[b]

LEMMA ClampersCount ==
  ASSUME NEW m \in Macros
  PROVE  /\ IsFiniteSet(Clamping(m)) /\ Cardinality(Clamping(m)) \in Nat
         /\ Cardinality(Clamping(m)) <= Cardinality(Actors)
         /\ Cardinality(Actors) \in Nat
         /\ Cardinality(Clamping(m)) # 0 => \E a \in Actors : a \in Clamping(m)
<1>1. Clamping(m) \subseteq Actors
  BY DEF Clamping
<1>2. IsFiniteSet(Actors)
  BY ActorsAssumption
<1>3. IsFiniteSet(Clamping(m)) /\ Cardinality(Clamping(m)) <= Cardinality(Actors)
  BY <1>1, <1>2, FS_Subset
<1>4. Clamping(m) = {} => Cardinality(Clamping(m)) = 0
  BY FS_EmptySet
<1> QED BY <1>1, <1>2, <1>3, <1>4, FS_CardinalityType

(* When the clampers stay, those of m are not fewer. *)
LEMMA ClampersStay ==
  ASSUME ClampsWait, NEW m \in Macros
  PROVE  /\ Cardinality(Clamping(m)) <= Cardinality(Clamping(m)')
         /\ Cardinality(Clamping(m)') \in Nat
<1>1. Clamping(m) \subseteq Clamping(m)' /\ Clamping(m)' \subseteq Actors
  BY DEF Clamping, ClampsWait
<1>2. IsFiniteSet(Clamping(m)')
  BY <1>1, ActorsAssumption, FS_Subset
<1> QED BY <1>1, <1>2, FS_Subset, FS_CardinalityType

(* A negative number that is owed is no unsigned number within the limit. *)
LEMMA DebtIsLarge ==
  ASSUME RoomBelowZero, NEW m \in Macros, NEW n \in Int,
         n + Cardinality(Clamping(m)) >= 0, n < 0
  PROVE  Unsigned(n) > GlobalThreadMax
<1> DEFINE k == Cardinality(Actors)
<1>1. k \in Nat /\ n + k >= 0
  BY ClampersCount
<1>2. GlobalThreadMax \in Nat /\ Wrap \in Nat /\ k + GlobalThreadMax < Wrap
  BY LimitsAssumption DEF RoomBelowZero
<1> HIDE DEF k
<1>3. n + Wrap > GlobalThreadMax /\ n + Wrap \in 0 .. Wrap - 1
  BY <1>1, <1>2
<1>4. n % Wrap = n + Wrap
  BY <1>2, <1>3, Z3
<1> QED BY <1>3, <1>4 DEF Unsigned

(* A run that clamps, or a limitMaxThreads() of any other call, leaves no   *)
(* negative queue.                                                          *)
LEMMA LimitsRepair ==
  ASSUME DebtInv, RoomBelowZero, NEW a \in Actors, NEW m \in Macros, NEW r \in MacroRecord,
         Limits(a, m, r)
  PROVE  r.queued >= 0
<1>1. r.queued \in Int /\ r.threadMax \in 1 .. GlobalThreadMax /\ macro[m].queued \in Int
  BY MemberType DEF DebtInv, QueueInv, TypeOK, MacrosOK
<1>2. SUFFICES ASSUME r.queued < 0 PROVE FALSE
  BY <1>1
<1>3. r.queued \in {macro[m].queued, macro[m].queued + 1} /\ Unsigned(r.queued) <= r.threadMax
  BY <1>2 DEF Limits
<1>4. r.queued + Cardinality(Clamping(m)) >= 0
  BY <1>1, <1>3, ClampersCount DEF DebtInv, Owed
<1>5. Unsigned(r.queued) > GlobalThreadMax /\ Unsigned(r.queued) \in Int
  BY <1>1, <1>2, <1>4, DebtIsLarge, LimitsAssumption, Z3 DEF Unsigned
<1> QED BY <1>1, <1>3, <1>5, LimitsAssumption

LEMMA DebtKept ==
  ASSUME DebtInv, RoomBelowZero, ClampsWait, NEW a \in Actors, QueueStep(a)
  PROVE  Owed'
<1>1. /\ macro \in [Macros -> MacroRecord] /\ run \in [Actors -> RunFrame]
      /\ \A m \in Macros : macro[m].queued \in Int
      /\ \A m \in Macros : macro[m].queued + Cardinality(Clamping(m)) >= 0
  BY MemberType DEF DebtInv, Owed, QueueInv, TypeOK, MacrosOK, RunsOK
<1>2. \A m \in Macros : /\ Cardinality(Clamping(m)) <= Cardinality(Clamping(m)')
                        /\ Cardinality(Clamping(m)') \in Nat
                        /\ Cardinality(Clamping(m)) \in Nat
  BY ClampersStay, ClampersCount
<1>3. ASSUME NEW m \in Macros, macro'[m].queued = macro[m].queued
      PROVE  macro'[m].queued + Cardinality(Clamping(m)') >= 0
  BY <1>1, <1>2, <1>3
<1>4. ASSUME NEW m \in Macros, macro'[m].queued \in Nat
      PROVE  macro'[m].queued + Cardinality(Clamping(m)') >= 0
  BY <1>2, <1>4
<1>5. CASE Leaves(a)
  BY <1>3, <1>5 DEF Leaves, Owed
<1>6. ASSUME NEW m \in Macros, NEW r \in MacroRecord, Set(m, r),
             r.queued = macro[m].queued \/ r.queued >= 0
      PROVE  Owed'
  <2>1. \A o \in Macros : macro'[o] = IF o = m THEN r ELSE macro[o]
    BY <1>1, <1>6 DEF Set
  <2>2. r.queued \in Int
    BY MemberType
  <2> QED BY <1>3, <1>4, <1>6, <2>1, <2>2 DEF Owed
<1>7. ASSUME NEW m \in Macros, NEW r \in MacroRecord, Takes(a, m, r)
      PROVE  Owed'
  <2>1. \A o \in Macros : macro'[o] = IF o = m THEN r ELSE macro[o]
    BY <1>1, <1>7 DEF Takes, Set
  <2>2. r.queued = macro[m].queued - 1
    BY <1>7 DEF Takes
  <2>3. Clamping(m)' = Clamping(m) \cup {a} /\ a \notin Clamping(m)
    BY <1>1, <1>7 DEF Takes, Clamping, RunTo, RunFrame
  <2>4. Cardinality(Clamping(m)') = Cardinality(Clamping(m)) + 1
    BY <2>3, ClampersCount, FS_AddElement
  <2>5. macro'[m].queued + Cardinality(Clamping(m)') >= 0
    BY <1>1, <1>2, <2>1, <2>2, <2>4
  <2> QED BY <1>3, <2>1, <2>5 DEF Owed
<1>8. ASSUME NEW m \in Macros, NEW r \in MacroRecord,
             Calms(a, m, r) \/ Limits(a, m, r) \/ Lowers(a, m, r)
      PROVE  Owed'
  <2>1. CASE Calms(a, m, r)
    BY <1>6, <2>1 DEF Calms, Calm
  <2>2. CASE Limits(a, m, r)
    BY <1>6, <2>2, LimitsRepair DEF Limits
  <2>3. CASE Lowers(a, m, r)
    BY <1>6, <2>3 DEF Lowers
  <2> QED BY <1>8, <2>1, <2>2, <2>3
<1> QED BY <1>5, <1>7, <1>8 DEF QueueStep

(* The run that clamps its own step leaves no debt. *)
LEMMA ClampPays ==
  ASSUME DebtInv, RoomBelowZero, NEW a \in Actors, ClampQueued(a)
  PROVE  Owed'
<1> DEFINE m == RunM(a)
           r == Limited(macro[m])
<1>1. /\ TypeOK /\ run \in [Actors -> RunFrame] /\ macro \in [Macros -> MacroRecord]
      /\ \A o \in Macros : macro[o].queued \in Int
      /\ \A o \in Macros : macro[o].queued + Cardinality(Clamping(o)) >= 0
  BY MemberType DEF DebtInv, Owed, QueueInv, TypeOK, MacrosOK, RunsOK
<1>2. m \in Macros /\ macro[m] \in MacroRecord /\ macro[m].queued <= GlobalThreadMax
  BY <1>1, InFrame DEF RunM, DebtInv, QueueInv, QueueSmall, ClampQueued, RunAt
<1>3. Set(m, r) /\ SendFrom(a, 1) /\ run[a].at = "clamp" /\ run[a].m = m
  BY DEF ClampQueued, RunAt, RunR, RunM
<1> HIDE DEF m
<1>4. /\ r \in MacroRecord /\ r.queued \in {0, macro[m].queued}
      /\ Unsigned(r.queued) <= macro[m].threadMax
  BY <1>1, <1>2, ComposedType, LimitedWithin, LimitsAssumption
<1> HIDE DEF r
<1>5. r.queued >= 0
  <2>1. r.queued \in Int /\ macro[m].threadMax \in 1 .. GlobalThreadMax
    BY <1>2, <1>4, MemberType
  <2>2. SUFFICES ASSUME r.queued < 0 PROVE FALSE
    BY <2>1
  <2>3. r.queued + Cardinality(Clamping(m)) >= 0
    BY <1>1, <1>2, <1>4, <2>2
  <2>4. Unsigned(r.queued) > GlobalThreadMax /\ Unsigned(r.queued) \in Int
    BY <1>2, <2>1, <2>2, <2>3, DebtIsLarge, LimitsAssumption, Z3 DEF Unsigned
  <2> QED BY <1>4, <2>1, <2>4, LimitsAssumption
<1>6. ASSUME NEW o \in Macros
      PROVE  macro'[o].queued + Cardinality(Clamping(o)') >= 0
  <2>1. IsFiniteSet(Clamping(o)') /\ Cardinality(Clamping(o)') \in Nat
    <3>1. Clamping(o)' \subseteq Actors
      BY DEF Clamping
    <3> QED BY <3>1, ActorsAssumption, FS_Subset, FS_CardinalityType
  <2>2. CASE o = m
    <3>1. macro'[o] = r /\ r.queued \in Int
      BY <1>1, <1>2, <1>3, <1>4, <2>2, MemberType DEF Set
    <3> QED BY <1>5, <2>1, <3>1
  <2>3. CASE o # m
    <3>1. macro'[o] = macro[o]
      BY <1>1, <1>2, <1>3, <2>3 DEF Set
    <3>2. Clamping(o)' = Clamping(o)
      BY <1>1, <1>3, <2>3 DEF Clamping, SendFrom
    <3> QED BY <1>1, <3>1, <3>2
  <2> QED BY <2>2, <2>3
<1> QED BY <1>6 DEF Owed

(* Nobody but the clamping run itself takes it away from there. *)
LEMMA ClampersWait ==
  ASSUME TypeOK, NEW a \in Actors, Step(a), ~ClampQueued(a)
  PROVE  ClampsWait
<1>1. run \in [Actors -> RunFrame]
  BY DEF TypeOK, RunsOK
<1>2. /\ UNCHANGED run => ClampsWait
      /\ \A t, f : run[t].at # "clamp" /\ run' = [run EXCEPT ![t] = f] => ClampsWait
      /\ run[a].at # "clamp" => \A l : RunTo(a, l) => ClampsWait
      /\ run[a].at # "clamp" => \A i : SendFrom(a, i) => ClampsWait
      /\ Throw(a) => ClampsWait
  BY <1>1 DEF ClampsWait, RunTo, SendFrom, Throw
<1>3. CASE StartStep(a)
  <2>1. CASE Spawn(a)
    BY <1>2, <2>1 DEF Spawn, FreeThreads
  <2>2. CASE ~Spawn(a)
    <3>1. UNCHANGED run
      BY <1>3, <2>2 DEF StartStep, StartLock, Resume, Reserve, IncQueuedTest, IncQueued,
                        CheckQueued, SpawnFails, LimitMaxThreads
    <3> QED BY <1>2, <3>1
  <2> QED BY <2>1, <2>2
<1>4. CASE SetInterruptorStep(a)
  <2>1. UNCHANGED run \/ Throw(a)
    BY <1>4 DEF SetInterruptorStep, ReadInterruptor, CompareInterruptor, WriteInterruptor,
                ApplyDispatch, DetachReset, DetachFails
  <2> QED BY <1>2, <2>1
<1>5. CASE ClearStep(a)
  <2>1. CASE JoinAll(a)
    BY <1>1, <1>2, <2>1 DEF JoinAll, Ended, ClampsWait
  <2>2. CASE ~JoinAll(a)
    <3>1. UNCHANGED run
      BY <1>5, <2>2 DEF ClearStep, ResetReads, Dequeue, Unregister, TestRunning,
           TestUnsetStatus, ForgetThreads, WaitThreadsChanged, EraseHandles, Restore, Assign
    <3> QED BY <1>2, <3>1
  <2> QED BY <2>1, <2>2
<1>6. CASE SetterStep(a)
  <2>1. UNCHANGED run \/ Throw(a)
    BY <1>6 DEF SetterStep, SetSignals, SetThreadMax, SetSticky
  <2> QED BY <1>2, <2>1
<1>7. CASE RunStep(a)
  <2>1. run[a].at # "clamp"
    BY <1>7 DEF RunStep, RunAt, Enter, ConsumeInterrupt, TestSignals, TestPause, TestPauseLoop,
         BlockInPause, TestStopped, TestIdle, TestQueued, DecQueued, DispatchSignal,
         RunComplete, Release, NotifyThreadsChanged
  <2>2. \/ run' = [run EXCEPT ![a] = Ending(a)]
        \/ \E l : RunTo(a, l)
        \/ \E i : SendFrom(a, i)
    BY <1>7 DEF RunStep, Enter, ConsumeInterrupt, TestSignals, TestPause, TestPauseLoop,
         BlockInPause, TestStopped, TestIdle, TestQueued, DecQueued, DispatchSignal,
         RunComplete, Release, NotifyThreadsChanged
  <2> QED BY <1>2, <2>1, <2>2
<1> QED BY <1>3, <1>4, <1>5, <1>6, <1>7 DEF Step, CallStep

LEMMA NextOwes ==
  ASSUME DebtInv, RoomBelowZero, [Next]_vars
  PROVE  DebtInv'
<1>1. QueueInv /\ TypeOK /\ run \in [Actors -> RunFrame]
  BY DEF DebtInv, QueueInv, TypeOK, RunsOK
<1>2. QueueInv'
  BY <1>1, NextQueues
<1>3. ASSUME NEW c \in Clients, Invoke(c) PROVE Owed'
  <2>1. run[c].at = "none" /\ (UNCHANGED run \/ \E m \in Macros : run' = [run EXCEPT ![c] = Entered(m)])
    BY <1>3 DEF Invoke, RunAt
  <2>2. ClampsWait
    BY <1>1, <2>1 DEF ClampsWait
  <2> QED BY <1>1, <1>3, <2>2, InvokeQueues, DebtKept DEF Actors
<1>4. ASSUME NEW a \in Actors, Step(a) PROVE Owed'
  <2>1. CASE ClampQueued(a)
    BY <2>1, ClampPays
  <2>2. CASE ~ClampQueued(a)
    <3>1. QueueStep(a)
      BY <1>1, <1>4, StartQueues, SetInterruptorQueues, ClearQueues, SetterQueues, RunQueues
         DEF Step, CallStep
    <3> QED BY <1>1, <1>4, <2>2, <3>1, ClampersWait, DebtKept
  <2> QED BY <2>1, <2>2
<1>5. CASE UNCHANGED vars
  BY <1>2, <1>5 DEF vars, DebtInv, Owed, Clamping
<1> QED BY <1>2, <1>3, <1>4, <1>5 DEF Next, DebtInv

(* However many runs make a queued one theirs at once, a negative _queued   *)
(* is seen only while a run that took one is about to clamp it; unsigned    *)
(* int need only be wide enough to tell the negative numbers that all       *)
(* threads together can reach from a limit.                                 *)
THEOREM NegativeQueuesAreRepaired == ASSUME RoomBelowZero PROVE Spec => []QueuedRepaired
<1>1. Init => DebtInv
  <2> SUFFICES ASSUME Init PROVE DebtInv
    OBVIOUS
  <2>1. QueueInv
    BY QueueInitially
  <2>2. \A m \in Macros : macro[m].queued = 0
    BY DEF Init, NewMacro
  <2> QED BY <2>1, <2>2, ClampersCount DEF DebtInv, Owed
<1>2. DebtInv /\ [Next]_vars => DebtInv'
  BY NextOwes
<1>3. DebtInv => QueuedRepaired
  <2> SUFFICES ASSUME DebtInv, NEW m \in Macros, macro[m].queued < 0
               PROVE  \E a \in Actors : run[a].at = "clamp" /\ run[a].m = m
    BY DEF QueuedRepaired
  <2>1. Cardinality(Clamping(m)) # 0
    BY MemberType DEF DebtInv, Owed, QueueInv, TypeOK, MacrosOK
  <2> QED BY <2>1, ClampersCount DEF Clamping
<1> QED BY <1>1, <1>2, <1>3, PTL DEF Spec
=============================================================================
