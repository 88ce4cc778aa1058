----------------------------- MODULE MacroState -----------------------------
(***************************************************************************)
(* The state of the macros of libmacro (src/src/macro.cpp), of the threads *)
(* at work on them, and the helpers their steps are made of.               *)
(*                                                                         *)
(* A macro is the data members of a MacroImpl.  An actor is a thread: a    *)
(* client thread of the program, one of the std::threads that start()      *)
(* creates, or a detached reset thread of INTERRUPT_ALL.  An actor has two *)
(* stack frames: `run`, its place in MacroImpl::run(), and `call`, its     *)
(* place in another member function.  A call that run() makes, or that a   *)
(* signal it sends makes, is above the run frame, which waits for it.      *)
(***************************************************************************)
EXTENDS Integers, Sequences, FiniteSets

CONSTANTS
  Macros,           \* the MacroImpl objects
  Clients,          \* threads of the program that call the macros
  Threads,          \* the std::threads the system can hold, joined or not
  Resets,           \* the detached reset threads the system can hold
  NoOne,            \* the owner of a free mutex
  GlobalThreadMax,  \* g_threadMax
  Wrap,             \* unsigned int is modulo Wrap
  Ops,              \* for each client, the calls it makes: name and argument
  SignalLists,      \* the arrays given to setSignals(): sequences of calls
  Setups,           \* the macros copy() may be given, none of them in use
  Initial,          \* the Setups a macro of the model may begin with
  SpawnMayFail,     \* whether creating a std::thread may throw at any time
  Garbage           \* what an uninitialised std::cv_status may hold

CONTINUE      == 0
PAUSE         == 1
INTERRUPT     == 2
INTERRUPT_ALL == 3
DISABLE       == 4
Interrupts    == CONTINUE .. DISABLE

Actors == Clients \cup Threads \cup Resets

(* A signal either does nothing to a macro ("send") or calls the macro      *)
(* that sends it.                                                           *)
SignalNames == {"send", "start", "setInterruptor", "setSignals", "setThreadMax",
                "setSticky", "copy"}
OpNames     == (SignalNames \ {"send"}) \cup {"run", "destroy"}

LegalCall(o, names) ==
  /\ o \in [name : names, val : Nat]
  /\ o.name = "setSignals" => o.val \in DOMAIN SignalLists
  /\ o.name = "copy" => o.val \in DOMAIN Setups

ASSUME ActorsAssumption ==
  /\ IsFiniteSet(Actors)
  /\ Clients \cap Threads = {}
  /\ Clients \cap Resets = {}
  /\ Threads \cap Resets = {}
  /\ NoOne \notin Actors

ASSUME LimitsAssumption ==
  /\ GlobalThreadMax \in Nat \ {0}
  /\ Wrap \in Nat
  /\ Wrap > GlobalThreadMax + 1

ASSUME OpsAssumption == \A c \in Clients : \A o \in Ops[c] : LegalCall(o, OpNames)

ASSUME SignalListsAssumption ==
  /\ DOMAIN SignalLists \subseteq Nat
  /\ \A n \in DOMAIN SignalLists :
       /\ Len(SignalLists[n]) \in Nat
       /\ \A i \in 1 .. Len(SignalLists[n]) : LegalCall(SignalLists[n][i], SignalNames)

ASSUME SetupsAssumption ==
  /\ Macros # {}
  /\ Initial \subseteq DOMAIN Setups
  /\ DOMAIN Setups \subseteq Nat
  /\ \A n \in DOMAIN Setups :
       Setups[n] \in [interruptor : Interrupts, sticky : BOOLEAN,
                      threadMax : 1 .. GlobalThreadMax, signals : DOMAIN SignalLists]

ASSUME OutcomesAssumption ==
  /\ SpawnMayFail \in BOOLEAN
  /\ Garbage \subseteq {"timeout", "no_timeout"}
  /\ Garbage # {}

VARIABLES
  macro,   \* the members of each macro
  run,     \* the run() frame of each actor
  call,    \* the frame of the other member function each actor is in
  active   \* g_activeThreadCount
vars == <<macro, run, call, active>>

MacroRecord ==
  [interruptor : Interrupts, sticky : BOOLEAN, threadCount : 0 .. Wrap - 1,
   threadMax : 1 .. GlobalThreadMax, queued : Int,
   signals : DOMAIN SignalLists,
   handles : SUBSET Threads,           \* the joinable ones of _threads
   waiting : SUBSET Actors,            \* blocked in _cndThreadCount
   mutex : Actors \cup {NoOne},        \* who holds _mutex between two steps
   registered : BOOLEAN,               \* the dispatchers hold this macro
   \* the destructor began, returned; or std::terminate() ended the program
   life : {"alive", "dying", "freed", "terminated"}]

(* The thread of a run frame has not begun ("none"), is inside run(), or    *)
(* has ended and waits to be joined ("gone").                               *)
RunLabels == {"none", "enter", "consume", "signals", "pause", "pausing", "block", "loop",
              "stop", "idle", "test", "decrement", "clamp", "send", "leave",
              "release", "notify", "gone"}
RunFrame == [at : RunLabels, m : Macros,
             i : Nat \ {0}]          \* the index of the next signal to send

CallLabels == {"none",
  "start", "resume", "reserve", "test", "increment", "check", "emplace", "limit",
  "interrupt", "compare", "write", "apply", "detach",
  "reset", "drain", "resetting", "restore",
  "disable", "unregister", "clear", "sticky", "unset", "drainAgain",
  "wait", "waited", "forget", "join", "erase", "assign",
  "setSignals", "setThreadMax", "setSticky"}
CallFrame == [at : CallLabels, m : Macros, op : OpNames \cup {"reset"}, val : Nat,
              prev : Interrupts,    \* the local `prev`
              spawn : BOOLEAN]      \* the local `spawnResetThread`

CallOf(l, m, op, val) == [at |-> l, m |-> m, op |-> op, val |-> val,
                          prev |-> CONTINUE, spawn |-> FALSE]
AnyMacro == CHOOSE m \in Macros : TRUE
NoFrame  == [at |-> "none", m |-> AnyMacro, i |-> 1]
NoCall   == CallOf("none", AnyMacro, "start", 0)

(***************************************************************************)
(* The arithmetic of the counters.  _threadCount and _threadMax are        *)
(* unsigned, _queued is an int that an unsigned comparison converts;       *)
(* threadCount() returns an int.                                           *)
(***************************************************************************)
Unsigned(n)    == n % Wrap
Signed(n)      == IF 2 * n >= Wrap THEN n - Wrap ELSE n
Incremented(n) == (n + 1) % Wrap
Decremented(n) == (n - 1) % Wrap

(***************************************************************************)
(* What the steps do to the members of a macro.                            *)
(***************************************************************************)
Interrupt(r, val) == [r EXCEPT !.interruptor = val]
QueuedBy(r, n)    == [r EXCEPT !.queued = @ + n]
Emptied(r)        == [r EXCEPT !.queued = 0]
Notified(r)       == [r EXCEPT !.waiting = {}]      \* notify_all()
Locked(r, a)      == [r EXCEPT !.mutex = a]
Unlocked(r)       == [r EXCEPT !.mutex = NoOne]
Blocked(r, a)     == [r EXCEPT !.waiting = @ \cup {a}]

(* Mutants of Limited: the comparison is signed; no limit at all. *)
LimitedSigned(r) == IF r.queued > r.threadMax THEN Emptied(r) ELSE r
NeverLimited(r)  == r

(* limitMaxThreads(); _threadMax is never 0 or above the constant limit. *)
Limited(r) == IF Unsigned(r.queued) > r.threadMax THEN Emptied(r) ELSE r

(* dequeue(): empty the queue, write the interruptor, notify; no lock. *)
Dequeued(r, val) == Notified(Interrupt(Emptied(r), val))

Running(r) == r.threadCount > 0
Enabled(r) == r.interruptor # DISABLE

(***************************************************************************)
(* Where an actor is, in a program std::terminate() has not ended, and what *)
(* its steps do to its frames.                                             *)
(***************************************************************************)
Terminated == \E m \in Macros : macro[m].life = "terminated"

CallAt(a, l) == call[a].at = l /\ ~Terminated
RunAt(a, l)  == run[a].at = l /\ call[a].at = "none" /\ ~Terminated
CallM(a) == call[a].m
CallR(a) == macro[call[a].m]
RunM(a)  == run[a].m
RunR(a)  == macro[run[a].m]

Goto(a, l)  == call' = [call EXCEPT ![a].at = l]
RunTo(a, l) == run' = [run EXCEPT ![a].at = l]
SendFrom(a, i) == run' = [run EXCEPT ![a] = [at |-> "send", m |-> run[a].m, i |-> i]]
Return(a)   == call' = [call EXCEPT ![a] = NoCall]

(* Mutant of Throw: run() does not catch, and misses onRunComplete(). *)
Uncaught(a) ==
  /\ Return(a)
  /\ run' = IF run[a].at = "send" THEN [run EXCEPT ![a].at = "gone"] ELSE run

(* An exception leaves the call; run() catches one that a signal lets out. *)
Throw(a) ==
  /\ Return(a)
  /\ run' = IF run[a].at = "send" THEN [run EXCEPT ![a].at = "leave"] ELSE run

Set(m, r) == macro' = [macro EXCEPT ![m] = r]

(* A step that locks _mutex; NoOne holds it and the actor is not blocked in *)
(* the condition variable.                                                  *)
Lock(a, m) == macro[m].mutex = NoOne /\ a \notin macro[m].waiting

(* The threads start() created that have not given their place back yet. *)
Live == {t \in Threads : run[t].at \notin {"none", "notify", "gone"}}
=============================================================================
