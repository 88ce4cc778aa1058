---------------------------- MODULE MacroThreads ----------------------------
(***************************************************************************)
(* The macros of libmacro with all the threads at work on them: clients    *)
(* that call the members of the macros, the threads that start() creates   *)
(* and the reset threads of INTERRUPT_ALL (src/src/macro.cpp).             *)
(***************************************************************************)
EXTENDS MacroRun

NewMacro(setup) ==
  [interruptor |-> setup.interruptor, sticky |-> setup.sticky, threadCount |-> 0,
   threadMax |-> setup.threadMax, queued |-> 0, signals |-> setup.signals,
   handles |-> {}, waiting |-> {}, mutex |-> NoOne,
   registered |-> setup.interruptor # DISABLE, life |-> "alive"]

(* Each macro has been given one of the Initial setups, its dispatch        *)
(* relations are those of its interruptor, and nothing has started it.      *)
Init ==
  /\ macro \in [Macros -> {NewMacro(Setups[n]) : n \in Initial}]
  /\ run = [a \in Actors |-> NoFrame]
  /\ call = [a \in Actors |-> NoCall]
  /\ active = 0

InCall(a, m) == call[a].at # "none" /\ call[a].m = m
InRun(a, m)  == run[a].at \notin {"none", "gone"} /\ run[a].m = m

(* A client calls a macro.  It destroys one that no client is calling.      *)
Invoke(c) ==
  /\ RunAt(c, "none")
  /\ \E m \in Macros, o \in Ops[c] :
       /\ macro[m].life = "alive"
       /\ \/ /\ o.name = "run"
             /\ run' = [run EXCEPT ![c] = Entered(m)]
             /\ UNCHANGED <<macro, call>>
          \/ /\ o.name = "destroy"
             /\ \A d \in Clients : ~InCall(d, m) /\ ~InRun(d, m)
             /\ Set(m, [macro[m] EXCEPT !.life = "dying"])
             /\ Begin(c, m, o)
             /\ UNCHANGED run
          \/ /\ o.name \notin {"run", "destroy"}
             /\ Begin(c, m, o)
             /\ UNCHANGED <<macro, run>>
  /\ UNCHANGED active

Step(a) == CallStep(a) \/ RunStep(a)

Next ==
  \/ \E c \in Clients : Invoke(c)
  \/ \E a \in Actors : Step(a)

Spec == Init /\ [][Next]_vars

(* The scheduler runs every thread, and a thread that waits for a mutex     *)
(* which is free again and again gets it.  Nobody has to call a macro.      *)
Fairness == \A a \in Actors : SF_vars(Step(a))
FairSpec == Spec /\ Fairness

-----------------------------------------------------------------------------
(* A call keeps the argument it was made with. *)
Legal(frame) ==
  /\ frame.op = "setSignals" => frame.val \in DOMAIN SignalLists
  /\ frame.op = "copy" => frame.val \in DOMAIN Setups
  /\ frame.at \in {"setSignals", "setThreadMax"} => frame.op = frame.at
  /\ frame.at = "assign" => frame.op = "copy"
  /\ frame.at \in {"compare", "write"} => frame.val \in Interrupts

MacrosOK == macro \in [Macros -> MacroRecord]
RunsOK   == run \in [Actors -> RunFrame]
CallsOK  == call \in [Actors -> CallFrame] /\ \A a \in Actors : Legal(call[a])
ActiveOK == active \in 0 .. Wrap - 1

(* Every member and every frame has its type; a setSignals() or copy() that *)
(* is under way has an argument it can store.                               *)
TypeOK == MacrosOK /\ RunsOK /\ CallsOK /\ ActiveOK

(* The actors that start() has made take one of the g_threadMax threads,    *)
(* for a thread it has not created yet.                                     *)
ReservingLabels == {"test", "increment", "check", "emplace"}
Reserving == {a \in Actors : call[a].at \in ReservingLabels}

(* The actors that _threadCount of m counts. *)
Counted(m) ==
  {a \in Actors : run[a].m = m /\ run[a].at \notin {"none", "enter", "release", "notify", "gone"}}

(* Nobody is inside m, in run() or in another member function. *)
Untouched(m) == \A a \in Actors : ~InCall(a, m) /\ ~InRun(a, m)

(* Nobody but the threads of the macros is inside run(). *)
OnlyThreadsRun == \A a \in Actors \ Threads : run[a].at = "none"
NoSyncRun == \A c \in Clients : \A o \in Ops[c] : o.name # "run"

(* g_activeThreadCount is exact: every thread start() created and has not   *)
(* ended is counted once, and so is every thread start() is about to        *)
(* create, on whichever way out of start() and run().                       *)
ActiveExact == active = Cardinality(Live) + Cardinality(Reserving)

(* The threads of the macros are a pool of at most g_threadMax. *)
Pool == INSTANCE ThreadPool WITH
  Requesters <- Actors, Workers <- Threads, Limit <- GlobalThreadMax,
  reserved <- Reserving, live <- Live
PoolSpec == Pool!Spec

(* g_activeThreadCount stays within its limit. *)
ActiveWithinLimit == active <= GlobalThreadMax

(* However many macros start at once, the threads they have together stay   *)
(* within g_threadMax.                                                      *)
GlobalLimit == Cardinality(Live) <= GlobalThreadMax

(* _threadCount counts the threads inside run(), on every way out of it. *)
ThreadCountExact == \A m \in Macros : macro[m].threadCount = Cardinality(Counted(m))

(* A negative _queued, which two runs make of the last queued one, is seen  *)
(* only while the run that made it is about to clamp it.                    *)
QueuedRepaired == \A m \in Macros :
  macro[m].queued < 0 => \E a \in Actors : run[a].at = "clamp" /\ run[a].m = m

(* The queue stays within _threadMax, except while the setThreadMax() or    *)
(* copy() that lowered _threadMax has not called limitMaxThreads() yet.     *)
QueuedWithinMax == \A m \in Macros :
  macro[m].queued <= macro[m].threadMax
    \/ \E a \in Actors : /\ InCall(a, m)
                          /\ call[a].at = "limit"
                          /\ call[a].op \in {"setThreadMax", "copy"}

(* No run sleeps in pauseLoop() when the macro is not paused any more: the  *)
(* notification that goes with a change of the interruptor is never lost.   *)
NoLostUnpause == \A m \in Macros : \A a \in macro[m].waiting :
  RunAt(a, "pausing") => Paused(macro[m])

(* No run sleeps in pauseLoop() when the macro may go on.  An unlocked      *)
(* dequeue() of a reset thread or a destructor can be missed; a             *)
(* setInterruptor() or start() that lets the macro go on afterwards cannot. *)
NoLostResume == \A m \in Macros : \A a \in macro[m].waiting :
  RunAt(a, "pausing") => macro[m].interruptor \notin {CONTINUE, INTERRUPT}

(* Who waits for the threads to end will be told: some thread is counted,   *)
(* or one that was has not notified yet.                                    *)
WaitersServed == \A m \in Macros : \A a \in macro[m].waiting :
  CallAt(a, "wait") =>
    \/ Running(macro[m])
    \/ \E t \in Actors : run[t].at \in {"release", "notify"} /\ run[t].m = m

(* When nobody is inside a macro, the dispatchers hold it if and only if it *)
(* is enabled.                                                              *)
RegisteredMatches == \A m \in Macros :
  Untouched(m) /\ macro[m].life = "alive" =>
    macro[m].registered = Enabled(macro[m])

(* Only one thread at a time joins the threads of a macro. *)
JoinedByOne == \A m \in Macros :
  Cardinality({a \in Actors : InCall(a, m) /\ call[a].at \in {"join", "erase"}}) <= 1

(* Every thread has been joined when its handle goes: none is left to end   *)
(* the program.                                                             *)
NeverTerminates == ~Terminated

(* When the destructor has returned, nobody is inside the macro. *)
FreedIsUntouched == \A m \in Macros : macro[m].life = "freed" => Untouched(m)

-----------------------------------------------------------------------------
(* The signals a run is sending do not change under it: what setSignals()   *)
(* and copy() write, no run on its way through the list can see.            *)
Sending(m) == \E a \in Actors : run[a].at = "send" /\ run[a].m = m
SignalsStable == [][\A m \in Macros :
  Sending(m) => macro'[m].signals = macro[m].signals]_vars

(* A disabled macro stays disabled unless a client is in setInterruptor()   *)
(* or copy() on it at that moment: no run, no start(), no reset thread and  *)
(* no signal enables it.                                                    *)
Asked(m) == \E c \in Clients :
  InCall(c, m) /\ run[c].at = "none" /\ call[c].op \in {"setInterruptor", "copy"}
DisabledStays == [][\A m \in Macros :
  macro[m].interruptor = DISABLE /\ ~Asked(m) => macro'[m].interruptor = DISABLE]_vars

(* Who is about to write another interruptor over the one there is: a       *)
(* setInterruptor(), also the one of a run that has seen INTERRUPT, a       *)
(* copy(), a reset thread, a start() that has seen INTERRUPT.               *)
Commanding(m) == {a \in Actors : InCall(a, m) /\
  (call[a].op \in {"setInterruptor", "copy", "reset"} \/ call[a].at = "resume")}
Settled(m) == macro[m].interruptor = DISABLE /\ Commanding(m) = {}

(* Once DISABLE has settled, with no older command on its way that could    *)
(* overwrite it, it stays, and no run, signal, start() or reset thread      *)
(* takes up a command, until a client calls setInterruptor() or copy().     *)
DisableSettles == [][\A m \in Macros : Settled(m) =>
  Settled(m)' \/ \E c \in Clients : RunAt(c, "none") /\ c \in Commanding(m)']_vars

-----------------------------------------------------------------------------
(* INTERRUPT_ALL does not last. *)
InterruptAllEnds == \A m \in Macros :
  macro[m].interruptor = INTERRUPT_ALL ~> macro[m].interruptor # INTERRUPT_ALL

(* A run that pauses goes on once the macro is not paused any more. *)
PauseEnds == \A a \in Actors :
  run[a].at = "pausing" ~> run[a].at # "pausing" \/ Paused(macro[run[a].m])

(* Who clears the threads of a macro is done with it some time. *)
ClearReturns == \A a \in Actors : call[a].at = "clear" ~> call[a].at = "erase"

=============================================================================
