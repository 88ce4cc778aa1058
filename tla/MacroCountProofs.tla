-------------------------- MODULE MacroCountProofs --------------------------
(***************************************************************************)
(* What _threadCount is worth, whatever the number of macros, threads and  *)
(* clients: it counts the threads inside run(), whoever waits for it to    *)
(* become 0 will be notified, and the signals do not change while it is    *)
(* not 0.                                                                  *)
(*                                                                         *)
(* The proofs assume that the count cannot wrap around, either because no  *)
(* client calls run() itself, so that the threads are those of the pool,   *)
(* or because all there are are fewer than an unsigned int can count; and  *)
(* that an unset std::cv_status does not read as a timeout, so that nobody *)
(* sets the count to 0.  The last sections do without the latter.          *)
(***************************************************************************)
EXTENDS MacroControlProofs

(* All there are can be counted. *)
RoomToCount == Cardinality(Actors) < Wrap
FewRuns     == NoSyncRun \/ RoomToCount

(* A reset thread clears the macro and does not run it. *)
ResetsNeverRun == \A x \in Resets : run[x].at = "none"

Base ==
  /\ TypeOK /\ ResetsNeverRun
  /\ RoomToCount \/ PoolInv

NotCounted == {"none", "enter", "release", "notify", "gone"}

(* A thread is inside run() of m, or has counted itself out of it and not  *)
(* notified yet.                                                           *)
Busy(m) == \E t \in Actors : run[t].m = m /\ run[t].at \notin {"none", "enter", "gone"}

(* Whoever is blocked waits for the threads to end, and some are busy, or  *)
(* is paused inside run().                                                 *)
Served == \A m \in Macros : \A a \in macro[m].waiting :
  \/ call[a].at = "wait" /\ call[a].m = m /\ Busy(m)
  \/ call[a].at = "none" /\ run[a].at = "pausing" /\ run[a].m = m

Steady        == "timeout" \notin Garbage
NobodyForgets == \A a \in Actors : call[a].at # "forget"

(* Neither a client nor a signal calls copy(). *)
CopyFree ==
  /\ \A c \in Clients : \A o \in Ops[c] : o.name # "copy"
  /\ \A n \in DOMAIN SignalLists : \A i \in 1 .. Len(SignalLists[n]) :
       SignalLists[n][i].name # "copy"
NoCopyNow == CopyFree => \A a \in Actors : call[a].op # "copy"

CountInv == Base /\ ThreadCountExact /\ Served /\ NobodyForgets /\ NoCopyNow

-----------------------------------------------------------------------------
(* Changes of a macro that its count and its signals do not notice, and    *)
(* after which nobody else waits.                                          *)
Plain(r, new) ==
  /\ new.threadCount = r.threadCount
  /\ new.signals = r.signals
  /\ new.waiting \subseteq r.waiting

LEMMA PlainHelpers ==
  ASSUME NEW r \in MacroRecord
  PROVE  /\ \A v : Plain(r, Interrupt(r, v)) /\ Plain(r, Notified(Interrupt(r, v)))
         /\ \A v : Plain(r, Unlocked(Notified(Interrupt(r, v))))
         /\ Plain(r, Notified(r)) /\ Plain(r, Unlocked(r)) /\ Plain(r, NoHandles(r))
         /\ Plain(r, Unlocked(Emptied(r)))
         /\ \A a : Plain(r, Locked(r, a))
         /\ \A t : Plain(r, Unlocked(WithHandle(r, t)))
         /\ \A n : Plain(r, QueuedBy(r, n)) /\ Plain(r, Limited(QueuedBy(r, n)))
         /\ Plain(r, Limited(r))
         /\ \A v : Plain(r, Dequeued(r, v)) /\ Plain(r, Written(r, v))
         /\ \A op : Plain(r, LivesOn(r, op))
         /\ \A v : /\ Plain(r, [r EXCEPT !.registered = v])
                   /\ Plain(r, [r EXCEPT !.sticky = v])
                   /\ Plain(r, [r EXCEPT !.threadMax = v])
                   /\ Plain(r, [r EXCEPT !.life = v])
<1> USE DEF MacroRecord, Plain
<1>1. /\ \A v : Plain(r, Interrupt(r, v)) /\ Plain(r, Notified(Interrupt(r, v)))
      /\ \A v : Plain(r, Unlocked(Notified(Interrupt(r, v))))
      /\ Plain(r, Notified(r)) /\ Plain(r, Unlocked(r)) /\ Plain(r, NoHandles(r))
      /\ Plain(r, Unlocked(Emptied(r)))
  BY DEF Interrupt, Notified, Unlocked, Emptied, NoHandles
<1>2. /\ \A a : Plain(r, Locked(r, a))
      /\ \A t : Plain(r, Unlocked(WithHandle(r, t)))
  BY DEF Locked, Unlocked, WithHandle
<1>3. /\ \A n : Plain(r, QueuedBy(r, n)) /\ Plain(r, Limited(QueuedBy(r, n)))
      /\ Plain(r, Limited(r))
  BY DEF QueuedBy, Limited, Emptied
<1>4. \A v : Plain(r, Dequeued(r, v))
  BY DEF Dequeued, Notified, Interrupt, Emptied
<1>5. \A v : Plain(r, Written(r, v))
  <2>1. Plain(r, NothingToInterrupt(r))
    BY DEF NothingToInterrupt, Dequeued, Notified, Interrupt, Emptied
  <2> QED BY <1>1, <1>4, <2>1 DEF Written
<1>6. \A op : Plain(r, LivesOn(r, op))
  BY DEF LivesOn
<1>7. \A v : /\ Plain(r, [r EXCEPT !.registered = v])
             /\ Plain(r, [r EXCEPT !.sticky = v])
             /\ Plain(r, [r EXCEPT !.threadMax = v])
             /\ Plain(r, [r EXCEPT !.life = v])
  OBVIOUS
<1> HIDE DEF MacroRecord, Plain
<1> QED BY <1>1, <1>2, <1>3, <1>4, <1>5, <1>6, <1>7

(* What blocking and setting the signals change. *)
LEMMA EditHelpers ==
  ASSUME NEW r \in MacroRecord, NEW a \in Actors, NEW v \in DOMAIN SignalLists
  PROVE  /\ LET b == Blocked(r, a)
            IN /\ b.threadCount = r.threadCount /\ b.signals = r.signals
               /\ b.waiting = r.waiting \cup {a}
         /\ LET b == Unlocked(Blocked(r, a))
            IN /\ b.threadCount = r.threadCount /\ b.signals = r.signals
               /\ b.waiting = r.waiting \cup {a}
         /\ LET b == [r EXCEPT !.signals = v]
            IN b.threadCount = r.threadCount /\ b.waiting = r.waiting
BY DEF MacroRecord, Blocked, Unlocked

LEMMA ForgottenHelper ==
  ASSUME NEW r \in MacroRecord
  PROVE  /\ Notified(Uncounted(r)).threadCount = 0
         /\ Notified(Uncounted(r)).signals = r.signals
BY DEF MacroRecord, Notified, Uncounted

LEMMA CountedHelpers ==
  ASSUME NEW r \in MacroRecord
  PROVE  /\ LET b == Notified(CountedIn(r))
            IN /\ b.threadCount = Incremented(r.threadCount) /\ b.signals = r.signals
               /\ b.waiting = {}
         /\ LET b == CountedOut(r)
            IN /\ b.threadCount = Decremented(r.threadCount) /\ b.signals = r.signals
               /\ b.waiting = r.waiting
         /\ Notified(r).waiting = {}
BY DEF MacroRecord, Notified, CountedIn, CountedOut

-----------------------------------------------------------------------------
(***************************************************************************)
(* What a step of a may do.  Its frames: a thread stays counted or not     *)
(* (Alike), the others stay where they are, nobody begins to forget the    *)
(* threads, nobody copies where nothing asks for it.                       *)
(***************************************************************************)
Alike(b) ==
  \/ run'[b] = run[b]
  \/ /\ run[b].at \notin NotCounted
     /\ run'[b].at \notin NotCounted
     /\ run'[b].m = run[b].m
  \/ run[b].at = "release" /\ run'[b].at = "notify" /\ run'[b].m = run[b].m
  \/ run[b].at \in {"none", "gone"} /\ run'[b].at \in {"none", "enter", "gone"}

KeepsPlace(b) ==
  /\ run[b].at \notin {"none", "gone"} => run'[b] = run[b] /\ call'[b] = call[b]
  /\ call[b].at # "none" => call'[b] = call[b]

Others(a) == \A b \in Actors \ {a} : KeepsPlace(b)
CallsFine ==
  /\ Steady => (NobodyForgets => NobodyForgets')
  /\ NoCopyNow => NoCopyNow'
Frames(a) == (\A b \in Actors : Alike(b)) /\ Others(a) /\ CallsFine

(* And the macros: a plain change of one, or one more who waits, or other  *)
(* signals, or a thread that is counted in, or out, or ends.               *)
Plains(a) ==
  /\ Frames(a)
  /\ \/ UNCHANGED macro
     \/ \E m \in Macros, r \in MacroRecord : Set(m, r) /\ Plain(macro[m], r)

Blocks(a, m, r) ==
  /\ Frames(a) /\ Set(m, r)
  /\ r.threadCount = macro[m].threadCount /\ r.signals = macro[m].signals
  /\ r.waiting = macro[m].waiting \cup {a}
  /\ \/ call'[a].at = "wait" /\ call'[a].m = m /\ Running(macro[m])
     \/ call'[a].at = "none" /\ run'[a].at = "pausing" /\ run'[a].m = m

Edits(a, m, r) ==
  /\ Frames(a) /\ Set(m, r)
  /\ r.threadCount = macro[m].threadCount /\ r.waiting = macro[m].waiting
  /\ call[a].m = m
  /\ \/ call[a].at = "setSignals" /\ macro[m].threadCount = 0
     \/ call[a].at = "assign" /\ call[a].op = "copy"

Counts(a, m, r, from, to) ==
  /\ run[a].at = from /\ run[a].m = m
  /\ run' = [run EXCEPT ![a].at = to] /\ UNCHANGED call
  /\ Set(m, r) /\ r.signals = macro[m].signals /\ r.waiting \subseteq macro[m].waiting

Joins(a, m, r) ==
  /\ Counts(a, m, r, "enter", "consume")
  /\ r.threadCount = Incremented(macro[m].threadCount)
Quits(a, m, r) ==
  /\ Counts(a, m, r, "leave", "release")
  /\ r.threadCount = Decremented(macro[m].threadCount)

Ends(a, m, r) ==
  /\ run[a].at = "notify" /\ run[a].m = m
  /\ \E f \in RunFrame : f.at \in {"none", "gone"} /\ run' = [run EXCEPT ![a] = f]
  /\ UNCHANGED call
  /\ Set(m, r) /\ Plain(macro[m], r) /\ r.waiting = {}

Forgets(a, m, r) ==
  /\ call[a].at = "forget" /\ call[a].m = m /\ macro[m].mutex = NoOne
  /\ Goto(a, "join") /\ UNCHANGED run /\ CallsFine
  /\ Set(m, r) /\ r.threadCount = 0 /\ r.signals = macro[m].signals

CountStep(a) ==
  \/ Plains(a)
  \/ \E m \in Macros, r \in MacroRecord :
       Blocks(a, m, r) \/ Edits(a, m, r) \/ Joins(a, m, r) \/ Quits(a, m, r) \/ Ends(a, m, r)
       \/ Forgets(a, m, r)

Awake(a) == \A m \in Macros : a \notin macro[m].waiting

-----------------------------------------------------------------------------
(* Such steps keep the invariant. *)

(* Those counted are few, and one more who enters is not too many. *)
LEMMA FewCounted ==
  ASSUME Base, NEW m \in Macros
  PROVE  /\ IsFiniteSet(Counted(m))
         /\ Cardinality(Counted(m)) \in 0 .. Wrap - 1
         /\ \A a \in Actors \ Counted(m) : Cardinality(Counted(m)) + 1 \in 0 .. Wrap - 1
<1>1. IsFiniteSet(Counted(m)) /\ Cardinality(Counted(m)) \in Nat
  <2>1. Counted(m) \subseteq Actors
    BY DEF Counted
  <2> QED BY <2>1, ActorsAssumption, FS_Subset, FS_CardinalityType
<1>2. CASE PoolInv
  <2>1. Counted(m) \subseteq Live
    BY <1>2 DEF Counted, Live, PoolInv, PoolOK, OnlyThreadsRun
  <2>2. /\ IsFiniteSet(Live) /\ Cardinality(Live) \in Nat /\ Cardinality(Reserving) \in Nat
    BY <1>2, Places DEF PoolInv
  <2>3. Cardinality(Live) <= GlobalThreadMax
    BY <1>2, <2>2, LimitsAssumption DEF PoolInv, ActiveExact, ActiveWithinLimit
  <2>4. Cardinality(Counted(m)) <= Cardinality(Live)
    BY <2>1, <2>2, FS_Subset
  <2> QED BY <1>1, <2>2, <2>3, <2>4, LimitsAssumption
<1>3. CASE RoomToCount
  <2>1. Cardinality(Actors) \in Nat /\ Cardinality(Actors) < Wrap
    BY <1>3, ActorsAssumption, FS_CardinalityType DEF RoomToCount
  <2>2. Counted(m) \subseteq Actors
    BY DEF Counted
  <2>3. Cardinality(Counted(m)) <= Cardinality(Actors)
    BY <2>2, ActorsAssumption, FS_Subset
  <2>4. ASSUME NEW a \in Actors \ Counted(m)
        PROVE  Cardinality(Counted(m)) + 1 <= Cardinality(Actors)
    <3>1. Cardinality(Counted(m) \cup {a}) = Cardinality(Counted(m)) + 1
      BY <1>1, FS_AddElement
    <3>2. Counted(m) \cup {a} \subseteq Actors
      BY <2>2
    <3>3. Cardinality(Counted(m) \cup {a}) <= Cardinality(Actors)
      BY <3>2, ActorsAssumption, FS_Subset
    <3> QED BY <3>1, <3>3
  <2> QED BY <1>1, <2>1, <2>3, <2>4, LimitsAssumption
<1> QED BY <1>2, <1>3 DEF Base

LEMMA SmallCount ==
  ASSUME NEW n \in 0 .. Wrap - 1
  PROVE  n % Wrap = n
BY LimitsAssumption, Z3

LEMMA AlikeCounted ==
  ASSUME \A b \in Actors : Alike(b), NEW m \in Macros
  PROVE  /\ Counted(m)' = Counted(m)
         /\ Busy(m) => Busy(m)'
<1>1. ASSUME NEW b \in Actors
      PROVE  b \in Counted(m) <=> run'[b].m = m /\ run'[b].at \notin NotCounted
  BY DEF Alike, Counted, NotCounted
<1>2. Counted(m)' = Counted(m)
  BY <1>1 DEF Counted, NotCounted
<1>3. ASSUME NEW t \in Actors, run[t].m = m, run[t].at \notin {"none", "enter", "gone"}
      PROVE  run'[t].m = m /\ run'[t].at \notin {"none", "enter", "gone"}
  BY <1>3 DEF Alike, NotCounted
<1>4. Busy(m) => Busy(m)'
  BY <1>3 DEF Busy
<1> QED BY <1>2, <1>4

(* Somebody else who waits goes on waiting for the same. *)
LEMMA OthersServed ==
  ASSUME Served, NEW a \in Actors, Others(a), NEW m \in Macros,
         NEW b \in macro[m].waiting, b \in Actors, b # a, Busy(m) => Busy(m)'
  PROVE  \/ call'[b].at = "wait" /\ call'[b].m = m /\ Busy(m)'
         \/ call'[b].at = "none" /\ run'[b].at = "pausing" /\ run'[b].m = m
<1>1. CASE call[b].at = "wait" /\ call[b].m = m /\ Busy(m)
  BY <1>1 DEF Others, KeepsPlace
<1>2. CASE call[b].at = "none" /\ run[b].at = "pausing" /\ run[b].m = m
  BY <1>2 DEF Others, KeepsPlace
<1> QED BY <1>1, <1>2 DEF Served

(* The macros after a change of one of them. *)
LEMMA AfterSet ==
  ASSUME TypeOK, NEW m \in Macros, NEW r, Set(m, r)
  PROVE  /\ \A o \in Macros : macro'[o] = IF o = m THEN r ELSE macro[o]
         /\ \A o \in Macros : macro[o] \in MacroRecord /\ macro[o].waiting \subseteq Actors
         /\ macro'[m] = r
BY MemberType DEF TypeOK, MacrosOK, Set

LEMMA PlainsKeeps ==
  ASSUME CountInv, NEW a \in Actors, Awake(a), Plains(a)
  PROVE  CallsFine /\ ThreadCountExact' /\ Served'
<1>1. TypeOK /\ Served /\ Others(a) /\ \A b \in Actors : Alike(b)
  BY DEF CountInv, Base, Plains, Frames
<1>2. \A m \in Macros : /\ macro'[m].threadCount = macro[m].threadCount
                        /\ macro'[m].waiting \subseteq macro[m].waiting
                        /\ macro[m].waiting \subseteq Actors
  <2>1. CASE UNCHANGED macro
    BY <1>1, <2>1, MemberType DEF TypeOK, MacrosOK
  <2>2. ASSUME NEW m \in Macros, NEW r \in MacroRecord, Set(m, r), Plain(macro[m], r)
        PROVE  \A o \in Macros : /\ macro'[o].threadCount = macro[o].threadCount
                                 /\ macro'[o].waiting \subseteq macro[o].waiting
                                 /\ macro[o].waiting \subseteq Actors
    BY <1>1, <2>2, AfterSet DEF Plain
  <2> QED BY <2>1, <2>2 DEF Plains
<1>3. ThreadCountExact'
  BY <1>1, <1>2, AlikeCounted DEF CountInv, ThreadCountExact
<1>4. Served'
  <2> SUFFICES ASSUME NEW m \in Macros, NEW b \in macro'[m].waiting
               PROVE  \/ call'[b].at = "wait" /\ call'[b].m = m /\ Busy(m)'
                      \/ call'[b].at = "none" /\ run'[b].at = "pausing" /\ run'[b].m = m
    BY DEF Served
  <2>1. b \in macro[m].waiting /\ b \in Actors /\ b # a
    BY <1>2 DEF Awake
  <2> QED BY <1>1, <2>1, AlikeCounted, OthersServed
<1> QED BY <1>3, <1>4 DEF Plains, Frames

LEMMA BlocksKeeps ==
  ASSUME CountInv, NEW a \in Actors, Awake(a),
         NEW m \in Macros, NEW r \in MacroRecord, Blocks(a, m, r)
  PROVE  CallsFine /\ ThreadCountExact' /\ Served'
<1>1. TypeOK /\ Served /\ Others(a) /\ (\A b \in Actors : Alike(b)) /\ Set(m, r)
  BY DEF CountInv, Base, Blocks, Frames
<1>2. ThreadCountExact'
  BY <1>1, AfterSet, AlikeCounted DEF CountInv, ThreadCountExact, Blocks
<1>3. Served'
  <2> SUFFICES ASSUME NEW o \in Macros, NEW b \in macro'[o].waiting
               PROVE  \/ call'[b].at = "wait" /\ call'[b].m = o /\ Busy(o)'
                      \/ call'[b].at = "none" /\ run'[b].at = "pausing" /\ run'[b].m = o
    BY DEF Served
  <2>1. CASE b \in macro[o].waiting
    <3>1. b \in Actors /\ b # a
      BY <1>1, <2>1, AfterSet DEF Awake
    <3> QED BY <1>1, <2>1, <3>1, AlikeCounted, OthersServed
  <2>2. CASE b \notin macro[o].waiting
    <3>1. o = m /\ b = a
      BY <1>1, <2>2, AfterSet DEF Blocks
    <3>2. CASE call'[a].at = "wait" /\ call'[a].m = m /\ Running(macro[m])
      <4>1. Cardinality(Counted(m)) > 0 /\ IsFiniteSet(Counted(m))
        BY <3>2, FewCounted DEF Running, CountInv, ThreadCountExact
      <4>2. Counted(m) # {}
        BY <4>1, FS_EmptySet
      <4>3. Busy(m)
        BY <4>2 DEF Counted, Busy
      <4> QED BY <1>1, <3>1, <3>2, <4>3, AlikeCounted
    <3> QED BY <3>1, <3>2 DEF Blocks
  <2> QED BY <2>1, <2>2
<1> QED BY <1>2, <1>3 DEF Blocks, Frames

LEMMA EditsKeeps ==
  ASSUME CountInv, NEW a \in Actors, Awake(a),
         NEW m \in Macros, NEW r \in MacroRecord, Edits(a, m, r)
  PROVE  CallsFine /\ ThreadCountExact' /\ Served'
<1>1. TypeOK /\ Served /\ Others(a) /\ (\A b \in Actors : Alike(b)) /\ Set(m, r)
  BY DEF CountInv, Base, Edits, Frames
<1>2. ThreadCountExact'
  BY <1>1, AfterSet, AlikeCounted DEF CountInv, ThreadCountExact, Edits
<1>3. Served'
  <2> SUFFICES ASSUME NEW o \in Macros, NEW b \in macro'[o].waiting
               PROVE  \/ call'[b].at = "wait" /\ call'[b].m = o /\ Busy(o)'
                      \/ call'[b].at = "none" /\ run'[b].at = "pausing" /\ run'[b].m = o
    BY DEF Served
  <2>1. b \in macro[o].waiting /\ b \in Actors /\ b # a
    BY <1>1, AfterSet DEF Edits, Awake
  <2> QED BY <1>1, <2>1, AlikeCounted, OthersServed
<1> QED BY <1>2, <1>3 DEF Edits, Frames

(* A thread that changes its place in run() and nothing else of the frames. *)
LEMMA CountsFrames ==
  ASSUME CountInv, NEW a \in Actors, NEW f,
         run' = [run EXCEPT ![a] = f], UNCHANGED call
  PROVE  /\ TypeOK /\ Served /\ CallsFine
         /\ Others(a)
         /\ \A b \in Actors : run'[b] = IF b = a THEN f ELSE run[b]
<1>1. run \in [Actors -> RunFrame] /\ TypeOK
  BY DEF CountInv, Base, TypeOK, RunsOK
<1>2. \A b \in Actors : run'[b] = IF b = a THEN f ELSE run[b]
  BY <1>1
<1>3. CallsFine
  BY DEF CallsFine, CountInv, NobodyForgets, NoCopyNow
<1> QED BY <1>1, <1>2, <1>3 DEF Others, KeepsPlace, CountInv

LEMMA JoinsKeeps ==
  ASSUME CountInv, NEW a \in Actors, Awake(a),
         NEW m \in Macros, NEW r \in MacroRecord, Joins(a, m, r)
  PROVE  CallsFine /\ ThreadCountExact' /\ Served'
<1> DEFINE f == [run[a] EXCEPT !.at = "consume"]
<1>0. /\ run' = [run EXCEPT ![a] = f] /\ UNCHANGED call /\ Set(m, r)
      /\ run[a].at = "enter" /\ run[a].m = m /\ r.waiting \subseteq macro[m].waiting
  BY DEF Joins, Counts
<1>1. f.at = "consume" /\ f.m = m
  BY <1>0, InFrame DEF CountInv, Base, RunFrame
<1> HIDE DEF f
<1>2. /\ TypeOK /\ Served /\ CallsFine /\ Others(a)
      /\ \A b \in Actors : run'[b] = IF b = a THEN f ELSE run[b]
  BY <1>0, CountsFrames
<1>3. \A o \in Macros : Counted(o)' = IF o = m THEN Counted(o) \cup {a} ELSE Counted(o)
  BY <1>0, <1>1, <1>2 DEF Counted
<1>4. a \notin Counted(m)
  BY <1>0 DEF Counted
<1>5. ThreadCountExact'
  <2>1. \A o \in Macros : macro'[o] = IF o = m THEN r ELSE macro[o]
    BY <1>0, <1>2, AfterSet
  <2>2. /\ macro[m].threadCount = Cardinality(Counted(m))
        /\ macro[m].threadCount + 1 \in 0 .. Wrap - 1
        /\ Cardinality(Counted(m) \cup {a}) = Cardinality(Counted(m)) + 1
    BY <1>4, FewCounted, FS_AddElement DEF CountInv, ThreadCountExact
  <2>3. r.threadCount = macro[m].threadCount + 1
    <3>1. r.threadCount = (macro[m].threadCount + 1) % Wrap
      BY DEF Joins, Incremented
    <3> QED BY <2>2, <3>1, SmallCount
  <2> QED BY <1>3, <2>1, <2>2, <2>3 DEF CountInv, ThreadCountExact
<1>6. \A o \in Macros : Busy(o) => Busy(o)'
  BY <1>0, <1>1, <1>2 DEF Busy
<1>7. Served'
  <2> SUFFICES ASSUME NEW o \in Macros, NEW b \in macro'[o].waiting
               PROVE  \/ call'[b].at = "wait" /\ call'[b].m = o /\ Busy(o)'
                      \/ call'[b].at = "none" /\ run'[b].at = "pausing" /\ run'[b].m = o
    BY DEF Served
  <2>1. b \in macro[o].waiting /\ b \in Actors /\ b # a
    BY <1>0, <1>2, AfterSet DEF Awake
  <2> QED BY <1>2, <1>6, <2>1, OthersServed
<1> QED BY <1>2, <1>5, <1>7

LEMMA QuitsKeeps ==
  ASSUME CountInv, NEW a \in Actors, Awake(a),
         NEW m \in Macros, NEW r \in MacroRecord, Quits(a, m, r)
  PROVE  CallsFine /\ ThreadCountExact' /\ Served'
<1> DEFINE f == [run[a] EXCEPT !.at = "release"]
<1>0. /\ run' = [run EXCEPT ![a] = f] /\ UNCHANGED call /\ Set(m, r)
      /\ run[a].at = "leave" /\ run[a].m = m /\ r.waiting \subseteq macro[m].waiting
  BY DEF Quits, Counts
<1>1. f.at = "release" /\ f.m = m
  BY <1>0, InFrame DEF CountInv, Base, RunFrame
<1> HIDE DEF f
<1>2. /\ TypeOK /\ Served /\ CallsFine /\ Others(a)
      /\ \A b \in Actors : run'[b] = IF b = a THEN f ELSE run[b]
  BY <1>0, CountsFrames
<1>3. \A o \in Macros : Counted(o)' = IF o = m THEN Counted(o) \ {a} ELSE Counted(o)
  BY <1>0, <1>1, <1>2 DEF Counted
<1>4. a \in Counted(m)
  BY <1>0 DEF Counted
<1>5. ThreadCountExact'
  <2>1. \A o \in Macros : macro'[o] = IF o = m THEN r ELSE macro[o]
    BY <1>0, <1>2, AfterSet
  <2>2. /\ macro[m].threadCount = Cardinality(Counted(m))
        /\ macro[m].threadCount \in 0 .. Wrap - 1
        /\ Cardinality(Counted(m) \ {a}) = Cardinality(Counted(m)) - 1
        /\ Cardinality(Counted(m) \ {a}) \in Nat
    BY <1>4, FewCounted, FS_RemoveElement, FS_CardinalityType DEF CountInv, ThreadCountExact
  <2>3. r.threadCount = macro[m].threadCount - 1
    <3>1. r.threadCount = (macro[m].threadCount - 1) % Wrap
      BY DEF Quits, Decremented
    <3>2. macro[m].threadCount - 1 \in 0 .. Wrap - 1
      BY <2>2, LimitsAssumption
    <3> QED BY <3>1, <3>2, SmallCount
  <2> QED BY <1>3, <2>1, <2>2, <2>3 DEF CountInv, ThreadCountExact
<1>6. \A o \in Macros : Busy(o) => Busy(o)'
  BY <1>0, <1>1, <1>2 DEF Busy
<1>7. Served'
  <2> SUFFICES ASSUME NEW o \in Macros, NEW b \in macro'[o].waiting
               PROVE  \/ call'[b].at = "wait" /\ call'[b].m = o /\ Busy(o)'
                      \/ call'[b].at = "none" /\ run'[b].at = "pausing" /\ run'[b].m = o
    BY DEF Served
  <2>1. b \in macro[o].waiting /\ b \in Actors /\ b # a
    BY <1>0, <1>2, AfterSet DEF Awake
  <2> QED BY <1>2, <1>6, <2>1, OthersServed
<1> QED BY <1>2, <1>5, <1>7

(* A thread that ends notifies whoever waits for its macro. *)
LEMMA EndsKeeps ==
  ASSUME CountInv, NEW a \in Actors, Awake(a),
         NEW m \in Macros, NEW r \in MacroRecord, Ends(a, m, r)
  PROVE  CallsFine /\ ThreadCountExact' /\ Served'
<1>1. PICK f \in RunFrame : f.at \in {"none", "gone"} /\ run' = [run EXCEPT ![a] = f]
  BY DEF Ends
<1>2. /\ UNCHANGED call /\ Set(m, r) /\ Plain(macro[m], r) /\ r.waiting = {}
      /\ run[a].at = "notify" /\ run[a].m = m
  BY DEF Ends
<1>3. /\ TypeOK /\ Served /\ CallsFine /\ Others(a)
      /\ \A b \in Actors : run'[b] = IF b = a THEN f ELSE run[b]
  BY <1>1, <1>2, CountsFrames
<1>4. \A o \in Macros : macro'[o] = IF o = m THEN r ELSE macro[o]
  BY <1>2, <1>3, AfterSet
<1>5. ThreadCountExact'
  <2>1. \A o \in Macros : Counted(o)' = Counted(o)
    BY <1>1, <1>2, <1>3 DEF Counted
  <2> QED BY <1>2, <1>4, <2>1 DEF Plain, CountInv, ThreadCountExact
<1>6. \A o \in Macros \ {m} : Busy(o) => Busy(o)'
  BY <1>2, <1>3 DEF Busy
<1>7. Served'
  <2> SUFFICES ASSUME NEW o \in Macros, NEW b \in macro'[o].waiting
               PROVE  \/ call'[b].at = "wait" /\ call'[b].m = o /\ Busy(o)'
                      \/ call'[b].at = "none" /\ run'[b].at = "pausing" /\ run'[b].m = o
    BY DEF Served
  <2>1. o # m /\ b \in macro[o].waiting /\ b \in Actors /\ b # a
    BY <1>2, <1>3, <1>4, AfterSet DEF Awake
  <2> QED BY <1>3, <1>6, <2>1, OthersServed
<1> QED BY <1>3, <1>5, <1>7

LEMMA CountStepKeeps ==
  ASSUME CountInv, Steady, NEW a \in Actors, Awake(a), CountStep(a), Base'
  PROVE  CountInv'
BY PlainsKeeps, BlocksKeeps, EditsKeeps, JoinsKeeps, QuitsKeeps, EndsKeeps
   DEF CountStep, CountInv, CallsFine, Forgets, NobodyForgets

-----------------------------------------------------------------------------
(* How the frames change, by the helper a step is made of. *)

OwnCall(a) == CallsFine /\ \A b \in Actors \ {a} : call'[b] = call[b]
OwnRun(a)  == (\A b \in Actors : Alike(b)) /\ \A b \in Actors \ {a} : run'[b] = run[b]

LEMMA OwnFrames ==
  ASSUME NEW a \in Actors, OwnCall(a), OwnRun(a)
  PROVE  Frames(a)
BY DEF OwnCall, OwnRun, Frames, Others, KeepsPlace

LEMMA FrameOwn ==
  ASSUME Base, NEW a \in Actors, NEW f, call' = [call EXCEPT ![a] = f],
         f.at = "forget" => ~Steady, f.op \in {"copy"} => f.op = call[a].op
  PROVE  OwnCall(a)
BY DEF Base, TypeOK, CallsOK, OwnCall, CallsFine,
       NobodyForgets, NoCopyNow

LEMMA CallOwn ==
  ASSUME Base, NEW a \in Actors
  PROVE  /\ UNCHANGED call => OwnCall(a)
         /\ Return(a) => OwnCall(a)
         /\ \A l : Goto(a, l) /\ (l = "forget" => ~Steady) => OwnCall(a)
         /\ \A l, v : Remember(a, l, v) /\ l # "forget" => OwnCall(a)
<1>1. UNCHANGED call => OwnCall(a)
  BY DEF OwnCall, CallsFine, NobodyForgets, NoCopyNow
<1>2. Return(a) => OwnCall(a)
  <2>1. NoCall.at # "forget" /\ NoCall.op # "copy"
    BY DEF NoCall, CallOf
  <2> QED BY <2>1, FrameOwn DEF Return
<1>3. ASSUME NEW l, Goto(a, l), l = "forget" => ~Steady PROVE OwnCall(a)
  <2> DEFINE f == [call[a] EXCEPT !.at = l]
  <2>1. call[a] \in CallFrame
    BY DEF Base, TypeOK, CallsOK
  <2>2. f.at = l /\ f.op = call[a].op
    BY <2>1 DEF CallFrame
  <2>3. call' = [call EXCEPT ![a] = f]
    BY <1>3 DEF Goto
  <2> HIDE DEF f
  <2> QED BY <1>3, <2>2, <2>3, FrameOwn
<1>4. ASSUME NEW l, NEW v, Remember(a, l, v), l # "forget" PROVE OwnCall(a)
  <2> DEFINE f == [at |-> l, m |-> call[a].m, op |-> call[a].op,
                   val |-> call[a].val, prev |-> v, spawn |-> FALSE]
  <2>1. f.at = l /\ f.op = call[a].op /\ call' = [call EXCEPT ![a] = f]
    BY <1>4 DEF Remember
  <2> HIDE DEF f
  <2> QED BY <1>4, <2>1, FrameOwn
<1> QED BY <1>1, <1>2, <1>3, <1>4

LEMMA BeginOwn ==
  ASSUME Base, NEW a \in Actors, NEW m, NEW o, Begin(a, m, o),
         LegalCall(o, OpNames), CopyFree => o.name # "copy"
  PROVE  OwnCall(a)
<1> DEFINE f == CallOf(EntryOf(o.name), m, o.name, o.val)
<1>1. o.name \in OpNames
  BY DEF LegalCall
<1>2. f.at # "forget" /\ f.op = o.name
  BY <1>1 DEF CallOf, EntryOf, OpNames, SignalNames
<1>3. call' = [call EXCEPT ![a] = f]
  BY DEF Begin
<1> HIDE DEF f
<1> QED BY <1>2, <1>3 DEF Base, TypeOK, CallsOK, OwnCall, CallsFine,
                          NobodyForgets, NoCopyNow

LEMMA RunOwn ==
  ASSUME Base, NEW a \in Actors
  PROVE  /\ UNCHANGED run => OwnRun(a)
         /\ \A l : RunTo(a, l) /\ {run[a].at, l} \cap NotCounted = {} => OwnRun(a)
         /\ \A i : SendFrom(a, i) /\ run[a].at \notin NotCounted => OwnRun(a)
<1>0. run \in [Actors -> RunFrame]
  BY DEF Base, TypeOK, RunsOK
<1>1. UNCHANGED run => OwnRun(a)
  BY DEF OwnRun, Alike
<1>2. ASSUME NEW f, run' = [run EXCEPT ![a] = f], f.m = run[a].m,
             run[a].at \notin NotCounted, f.at \notin NotCounted
      PROVE  OwnRun(a)
  BY <1>0, <1>2 DEF OwnRun, Alike
<1>3. ASSUME NEW l, RunTo(a, l), {run[a].at, l} \cap NotCounted = {}
      PROVE  OwnRun(a)
  <2> DEFINE f == [run[a] EXCEPT !.at = l]
  <2>1. f.at = l /\ f.m = run[a].m
    BY <1>0 DEF RunFrame
  <2>2. run' = [run EXCEPT ![a] = f]
    BY <1>3 DEF RunTo
  <2> HIDE DEF f
  <2> QED BY <1>2, <1>3, <2>1, <2>2
<1>4. ASSUME NEW i, SendFrom(a, i), run[a].at \notin NotCounted
      PROVE  OwnRun(a)
  <2> DEFINE f == [at |-> "send", m |-> run[a].m, i |-> i]
  <2>1. f.at = "send" /\ f.m = run[a].m /\ run' = [run EXCEPT ![a] = f]
    BY <1>4 DEF SendFrom
  <2> HIDE DEF f
  <2> QED BY <1>2, <1>4, <2>1 DEF NotCounted
<1> QED BY <1>1, <1>3, <1>4

LEMMA ThrowOwn ==
  ASSUME Base, NEW a \in Actors, Throw(a)
  PROVE  Frames(a)
<1>1. OwnCall(a)
  BY CallOwn DEF Throw
<1>2. CASE run[a].at = "send"
  <2>1. RunTo(a, "leave")
    BY <1>2 DEF Throw, RunTo
  <2> QED BY <1>1, <1>2, <2>1, RunOwn, OwnFrames DEF NotCounted
<1>3. CASE run[a].at # "send"
  BY <1>1, <1>3, RunOwn, OwnFrames DEF Throw
<1> QED BY <1>2, <1>3

LEMMA LeavesCounted ==
  ASSUME NEW a \in Actors, Frames(a), UNCHANGED macro
  PROVE  CountStep(a)
BY DEF CountStep, Plains

LEMMA PlainCounted ==
  ASSUME NEW a \in Actors, NEW m \in Macros, NEW r \in MacroRecord,
         Frames(a), Set(m, r), Plain(macro[m], r)
  PROVE  CountStep(a)
BY DEF CountStep, Plains

-----------------------------------------------------------------------------
(* The steps are such steps. *)

LEMMA StartCounts ==
  ASSUME Base, NEW a \in Actors, StartStep(a)
  PROVE  CountStep(a)
<1>1. /\ TypeOK /\ CallM(a) \in Macros /\ CallR(a) \in MacroRecord
      /\ CallR(a) = macro[CallM(a)]
  BY InFrame DEF Base, CallR, CallM
<1>2. CASE StartLock(a)
  <2>1. Frames(a)
    BY <1>2, CallOwn, RunOwn, OwnFrames DEF StartLock
  <2>2. CASE UNCHANGED macro
    BY <2>1, <2>2, LeavesCounted
  <2>3. CASE Set(CallM(a), Locked(CallR(a), a))
    BY <1>1, <2>1, <2>3, PlainHelpers, UpdateType, PlainCounted
  <2> QED BY <1>2, <2>2, <2>3 DEF StartLock
<1>3. CASE Reserve(a) \/ CheckQueued(a)
  <2>1. Frames(a)
    BY <1>3, CallOwn, RunOwn, OwnFrames DEF Reserve, CheckQueued
  <2>2. CASE UNCHANGED macro
    BY <2>1, <2>2, LeavesCounted
  <2>3. CASE Set(CallM(a), Unlocked(Emptied(CallR(a))))
    BY <1>1, <2>1, <2>3, PlainHelpers, UpdateType, PlainCounted
  <2> QED BY <1>3, <2>2, <2>3 DEF Reserve, CheckQueued
<1>4. CASE IncQueuedTest(a)
  BY <1>4, CallOwn, RunOwn, OwnFrames, LeavesCounted DEF IncQueuedTest
<1>5. CASE IncQueued(a)
  <2> DEFINE r == Limited(QueuedBy(CallR(a), 1))
  <2>1. Frames(a) /\ Set(CallM(a), r)
    BY <1>5, CallOwn, RunOwn, OwnFrames DEF IncQueued
  <2>2. r \in MacroRecord
    <3> \A n \in Int : QueuedBy(CallR(a), n) \in MacroRecord
      BY <1>1, UpdateType
    <3>1. QueuedBy(CallR(a), 1) \in MacroRecord
      OBVIOUS
    <3> QED BY <3>1, ComposedType
  <2>3. Plain(CallR(a), r)
    BY <1>1, PlainHelpers
  <2> HIDE DEF r
  <2> QED BY <1>1, <2>1, <2>2, <2>3, PlainCounted
<1>6. CASE Spawn(a)
  <2>1. PICK t \in FreeThreads :
          /\ run' = [run EXCEPT ![t] = Entered(CallM(a))]
          /\ Set(CallM(a), Unlocked(WithHandle(CallR(a), t)))
    BY <1>6 DEF Spawn
  <2>2. OwnCall(a) /\ t \in Threads /\ t \in Actors /\ run[t].at = "none"
    BY <1>6, CallOwn DEF Spawn, FreeThreads, Actors
  <2>3. /\ \A b \in Actors : Alike(b)
        /\ \A b \in Actors : run[b].at \notin {"none", "gone"} => run'[b] = run[b]
    BY <1>1, <2>1, <2>2 DEF Alike, Entered, TypeOK, RunsOK
  <2>4. Frames(a)
    BY <2>2, <2>3 DEF OwnCall, Frames, Others, KeepsPlace
  <2>5. Unlocked(WithHandle(CallR(a), t)) \in MacroRecord
    BY <1>1, <2>2, UpdateType
  <2> QED BY <1>1, <2>1, <2>4, <2>5, PlainHelpers, PlainCounted
<1>7. CASE SpawnFails(a)
  <2>1. Frames(a) /\ Set(CallM(a), Unlocked(CallR(a)))
    BY <1>7, CallOwn, RunOwn, OwnFrames DEF SpawnFails
  <2> QED BY <1>1, <2>1, PlainHelpers, UpdateType, PlainCounted
<1>8. CASE LimitMaxThreads(a)
  <2>1. Frames(a) /\ Set(CallM(a), Limited(CallR(a)))
    BY <1>8, CallOwn, RunOwn, OwnFrames DEF LimitMaxThreads
  <2> QED BY <1>1, <2>1, PlainHelpers, ComposedType, PlainCounted
<1>9. CASE Resume(a)
  <2> DEFINE r == Unlocked(Notified(Interrupt(CallR(a), CONTINUE)))
  <2>1. Frames(a) /\ Set(CallM(a), r)
    BY <1>9, CallOwn, RunOwn, OwnFrames DEF Resume
  <2>2. CONTINUE \in Interrupts
    BY DEF Interrupts, CONTINUE, DISABLE
  <2>3. Notified(Interrupt(CallR(a), CONTINUE)) \in MacroRecord
    BY <1>1, <2>2, UpdateType
  <2>4. r \in MacroRecord /\ Plain(CallR(a), r)
    BY <1>1, <2>3, UpdateType, PlainHelpers
  <2> HIDE DEF r
  <2> QED BY <1>1, <2>1, <2>4, PlainCounted
<1> QED BY <1>2, <1>3, <1>4, <1>5, <1>6, <1>7, <1>8, <1>9 DEF StartStep

LEMMA SetInterruptorCounts ==
  ASSUME Base, NEW a \in Actors, SetInterruptorStep(a)
  PROVE  CountStep(a)
<1>1. /\ TypeOK /\ ResetsNeverRun /\ CallM(a) \in Macros /\ CallR(a) \in MacroRecord
      /\ CallR(a) = macro[CallM(a)] /\ Legal(call[a])
  BY InFrame DEF Base, CallR, CallM
<1>2. CASE ReadInterruptor(a) \/ CompareInterruptor(a) \/ DetachFails(a)
  <2>1. UNCHANGED macro
    BY <1>2 DEF ReadInterruptor, CompareInterruptor, DetachFails
  <2>2. \/ Throw(a)
        \/ UNCHANGED run /\ (Return(a) \/ Goto(a, "write")
                             \/ Remember(a, "compare", CallR(a).interruptor))
    BY <1>2 DEF ReadInterruptor, CompareInterruptor, DetachFails
  <2>3. Frames(a)
    BY <2>2, ThrowOwn, CallOwn, RunOwn, OwnFrames
  <2> QED BY <2>1, <2>3, LeavesCounted
<1>3. CASE WriteInterruptor(a)
  <2> DEFINE f == Spawning(call[a], call[a].val = INTERRUPT_ALL /\ Running(CallR(a)))
             r == Written(CallR(a), call[a].val)
  <2>1. \/ call' = [call EXCEPT ![a] = f]
        \/ Goto(a, "detach") \/ Return(a)
    BY <1>3 DEF WriteInterruptor
  <2>2. f.at = "apply" /\ f.op = call[a].op
    BY DEF Spawning
  <2> HIDE DEF f
  <2>3. OwnCall(a) /\ UNCHANGED run
    BY <1>3, <2>1, <2>2, FrameOwn, CallOwn DEF WriteInterruptor
  <2>4. Frames(a)
    BY <2>3, RunOwn, OwnFrames
  <2>5. call[a].val \in Interrupts
    BY <1>1, <1>3 DEF WriteInterruptor, Legal, CallAt
  <2>6. r \in MacroRecord /\ Plain(CallR(a), r)
    BY <1>1, <2>5, ComposedType, PlainHelpers
  <2>7. Set(CallM(a), r)
    BY <1>3 DEF WriteInterruptor
  <2> HIDE DEF r
  <2> QED BY <1>1, <2>4, <2>6, <2>7, PlainCounted
<1>4. CASE ApplyDispatch(a)
  <2> DEFINE r == [CallR(a) EXCEPT !.registered = Enabled(CallR(a))]
  <2>1. Frames(a) /\ Set(CallM(a), r)
    BY <1>4, CallOwn, RunOwn, OwnFrames DEF ApplyDispatch
  <2>2. r \in MacroRecord /\ Plain(CallR(a), r)
    BY <1>1, UpdateType, PlainHelpers DEF Enabled
  <2> HIDE DEF r
  <2> QED BY <1>1, <2>1, <2>2, PlainCounted
<1>5. CASE DetachReset(a)
  <2> DEFINE f == CallOf("reset", CallM(a), "reset", 0)
  <2>1. PICK x \in FreeResets : call' = [call EXCEPT ![a] = NoCall, ![x] = f]
    BY <1>5 DEF DetachReset
  <2>2. /\ x \in Actors /\ call[x].at = "none" /\ run[x].at = "none"
        /\ UNCHANGED <<macro, run>>
    BY <1>1, <1>5 DEF FreeResets, Actors, ResetsNeverRun, DetachReset
  <2>3. /\ f.at # "forget" /\ f.op # "copy"
        /\ NoCall.at # "forget" /\ NoCall.op # "copy"
    BY DEF CallOf, NoCall
  <2> HIDE DEF f
  <2>4. \A b \in Actors : call'[b] = IF b = x THEN f ELSE IF b = a THEN NoCall ELSE call[b]
    BY <1>1, <2>1, <2>2 DEF TypeOK, CallsOK
  <2>5. CallsFine
    BY <2>3, <2>4 DEF CallsFine, NobodyForgets, NoCopyNow
  <2>6. Frames(a)
    BY <2>2, <2>4, <2>5 DEF Frames, Others, KeepsPlace, Alike
  <2> QED BY <2>2, <2>6, LeavesCounted
<1> QED BY <1>2, <1>3, <1>4, <1>5 DEF SetInterruptorStep

(* clearThreads() and what begins with it.                                  *)
LEMMA ClearCounts ==
  ASSUME Base, NEW a \in Actors, ClearStep(a)
  PROVE  CountStep(a)
<1> USE DEF CallAt
<1>1. /\ TypeOK /\ CallM(a) \in Macros /\ CallR(a) \in MacroRecord
      /\ CallR(a) = macro[CallM(a)] /\ CallM(a) = call[a].m /\ Legal(call[a])
  BY InFrame DEF Base, CallR, CallM
<1>2. CASE ResetReads(a) \/ TestRunning(a) \/ TestUnsetStatus(a)
  <2>1. /\ UNCHANGED <<macro, run>>
        /\ \/ \E v : Remember(a, "drain", v)
           \/ \E l \in CallLabels : Goto(a, l) /\ (l = "forget" => ~Steady)
    BY <1>2 DEF ResetReads, TestRunning, TestUnsetStatus, CallLabels, Steady
  <2>2. OwnCall(a)
    BY <2>1, CallOwn
  <2> QED BY <2>1, <2>2, RunOwn, OwnFrames, LeavesCounted
<1>3. CASE Restore(a)
  <2> DEFINE f == CallOf("interrupt", CallM(a), "setInterruptor", CONTINUE)
  <2>1. call' = [call EXCEPT ![a] = f] \/ Return(a)
    BY <1>3 DEF Restore
  <2>2. f.at # "forget" /\ f.op # "copy"
    BY DEF CallOf
  <2> HIDE DEF f
  <2>3. OwnCall(a)
    BY <2>1, <2>2, FrameOwn, CallOwn
  <2> QED BY <1>3, <2>3, RunOwn, OwnFrames, LeavesCounted DEF Restore
<1>4. CASE Dequeue(a)
  <2> DEFINE r == Dequeued(CallR(a), ClearType(a))
  <2>1. ClearType(a) \in Interrupts
    BY DEF ClearType, Interrupts, CONTINUE, INTERRUPT_ALL, DISABLE
  <2>2. r \in MacroRecord /\ Plain(CallR(a), r)
    BY <1>1, <2>1, ComposedType, PlainHelpers
  <2>3. Set(CallM(a), r) /\ Goto(a, AfterDequeue(a)) /\ UNCHANGED run
    BY <1>4 DEF Dequeue
  <2>4. AfterDequeue(a) # "forget"
    BY <1>4 DEF Dequeue, AfterDequeue
  <2> HIDE DEF r
  <2>5. Frames(a)
    BY <2>3, <2>4, CallOwn, RunOwn, OwnFrames
  <2> QED BY <1>1, <2>2, <2>3, <2>5, PlainCounted
<1>5. CASE Unregister(a)
  <2> DEFINE r == [CallR(a) EXCEPT !.registered = FALSE]
  <2>1. Frames(a) /\ Set(CallM(a), r)
    BY <1>5, CallOwn, RunOwn, OwnFrames DEF Unregister
  <2>2. r \in MacroRecord /\ Plain(CallR(a), r)
    BY <1>1, UpdateType, PlainHelpers
  <2> HIDE DEF r
  <2> QED BY <1>1, <2>1, <2>2, PlainCounted
<1>6. CASE ForgetThreads(a)
  <2> DEFINE r == Notified(Uncounted(CallR(a)))
  <2>1. r \in MacroRecord /\ r.threadCount = 0 /\ r.signals = CallR(a).signals
    <3>1. Uncounted(CallR(a)) \in MacroRecord
      BY <1>1, UpdateType
    <3> QED BY <1>1, <3>1, UpdateType, ForgottenHelper
  <2>2. /\ call[a].at = "forget" /\ CallR(a).mutex = NoOne
        /\ Goto(a, "join") /\ UNCHANGED run /\ Set(CallM(a), r)
    BY <1>1, <1>6 DEF ForgetThreads, Lock
  <2> HIDE DEF r
  <2>3. CallsFine
    BY <2>2, CallOwn DEF OwnCall
  <2>4. Forgets(a, CallM(a), r)
    BY <1>1, <2>1, <2>2, <2>3 DEF Forgets
  <2> QED BY <1>1, <2>1, <2>4 DEF CountStep
<1>7. CASE WaitThreadsChanged(a)
  <2>1. CASE UNCHANGED macro /\ \E l \in {"join", "waited"} : Goto(a, l)
    BY <1>7, <2>1, CallOwn, RunOwn, OwnFrames, LeavesCounted DEF WaitThreadsChanged
  <2>2. CASE Running(CallR(a)) /\ Set(CallM(a), Blocked(CallR(a), a)) /\ UNCHANGED call
    <3> DEFINE r == Blocked(CallR(a), a)
    <3>1. /\ r \in MacroRecord
          /\ r.threadCount = CallR(a).threadCount /\ r.signals = CallR(a).signals
          /\ r.waiting = CallR(a).waiting \cup {a}
      BY <1>1, MemberType, UpdateType, EditHelpers
    <3>2. Frames(a)
      BY <1>7, <2>2, CallOwn, RunOwn, OwnFrames DEF WaitThreadsChanged
    <3>3. call'[a].at = "wait" /\ call'[a].m = CallM(a)
      BY <1>1, <1>7, <2>2 DEF WaitThreadsChanged
    <3>4. Set(CallM(a), r)
      BY <2>2
    <3> HIDE DEF r
    <3>5. Blocks(a, CallM(a), r)
      BY <1>1, <2>2, <3>1, <3>2, <3>3, <3>4 DEF Blocks
    <3> QED BY <1>1, <3>1, <3>5 DEF CountStep
  <2> QED BY <1>7, <2>1, <2>2 DEF WaitThreadsChanged
<1>8. CASE EraseHandles(a)
  <2>1. UNCHANGED call \/ Return(a) \/ \E l \in {"restore", "assign"} : Goto(a, l)
    BY <1>8 DEF EraseHandles, AfterErase
  <2>2. OwnCall(a)
    BY <2>1, CallOwn
  <2>3. Frames(a)
    BY <1>8, <2>2, RunOwn, OwnFrames DEF EraseHandles
  <2>4. CASE Set(CallM(a), LivesOn(CallR(a), call[a].op))
    BY <1>1, <2>3, <2>4, ComposedType, PlainHelpers, PlainCounted
  <2>5. CASE Set(CallM(a), [CallR(a) EXCEPT !.life = "terminated"])
    BY <1>1, <2>3, <2>5, UpdateType, PlainHelpers, PlainCounted
  <2> QED BY <1>8, <2>4, <2>5 DEF EraseHandles
<1>9. CASE Assign(a)
  <2> DEFINE r == Copied(CallR(a), Setups[call[a].val])
  <2>1. call[a].op = "copy" /\ call[a].val \in DOMAIN Setups
    BY <1>1, <1>9 DEF Assign, Legal
  <2>2. Frames(a) /\ Set(CallM(a), r)
    BY <1>9, CallOwn, RunOwn, OwnFrames DEF Assign
  <2>3. /\ r \in MacroRecord
        /\ r.threadCount = CallR(a).threadCount /\ r.waiting = CallR(a).waiting
    BY <1>1, <2>1, ComposedType DEF Copied
  <2> HIDE DEF r
  <2>4. call[a].at = "assign"
    BY <1>9 DEF Assign
  <2>5. Edits(a, CallM(a), r)
    BY <1>1, <2>1, <2>2, <2>3, <2>4 DEF Edits
  <2> QED BY <1>1, <2>3, <2>5 DEF CountStep
<1>10. CASE JoinAll(a)
  <2>1. OwnCall(a)
    BY <1>10, CallOwn DEF JoinAll
  <2>2. \A b \in Actors : run'[b] = run[b] \/ (run[b].at = "gone" /\ run'[b] = NoFrame)
    BY <1>10 DEF JoinAll, Ended
  <2>3. Frames(a)
    BY <2>1, <2>2 DEF OwnCall, Frames, Others, KeepsPlace, Alike, NoFrame
  <2> QED BY <1>1, <1>10, <2>3, UpdateType, PlainHelpers, PlainCounted DEF JoinAll
<1> QED BY <1>2, <1>3, <1>4, <1>5, <1>6, <1>7, <1>8, <1>9, <1>10 DEF ClearStep

LEMMA SetterCounts ==
  ASSUME Base, NEW a \in Actors, SetterStep(a)
  PROVE  CountStep(a)
<1> USE DEF CallAt
<1>1. /\ TypeOK /\ CallM(a) \in Macros /\ CallR(a) \in MacroRecord
      /\ CallR(a) = macro[CallM(a)] /\ Legal(call[a])
  BY InFrame DEF Base, CallR, CallM
<1>2. Frames(a)
  <2>1. SetSignals(a) => Throw(a) \/ (UNCHANGED run /\ Return(a))
    BY DEF SetSignals
  <2>2. SetThreadMax(a) => Throw(a) \/ (UNCHANGED run /\ (Return(a) \/ Goto(a, "limit")))
    BY DEF SetThreadMax
  <2>3. SetSticky(a) => UNCHANGED run /\ Return(a)
    BY DEF SetSticky
  <2>4. Throw(a) \/ (UNCHANGED run /\ (Return(a) \/ Goto(a, "limit")))
    BY <2>1, <2>2, <2>3 DEF SetterStep
  <2> QED BY <2>4, ThrowOwn, CallOwn, RunOwn, OwnFrames
<1>3. CASE UNCHANGED macro
  BY <1>2, <1>3, LeavesCounted
<1>4. CASE SetSignals(a) /\ MayEdit(CallR(a))
            /\ Set(CallM(a), [CallR(a) EXCEPT !.signals = call[a].val])
  <2> DEFINE r == [CallR(a) EXCEPT !.signals = call[a].val]
  <2>1. call[a].val \in DOMAIN SignalLists
    BY <1>1, <1>4 DEF SetSignals, Legal
  <2>2. /\ r \in MacroRecord /\ Set(CallM(a), r)
        /\ r.threadCount = CallR(a).threadCount /\ r.waiting = CallR(a).waiting
    BY <1>1, <1>4, <2>1, UpdateType, EditHelpers
  <2> HIDE DEF r
  <2>3. Edits(a, CallM(a), r)
    BY <1>1, <1>2, <1>4, <2>2 DEF Edits, MayEdit, SetSignals, CallM
  <2> QED BY <1>1, <2>2, <2>3 DEF CountStep
<1>5. CASE /\ call[a].val \in 1 .. GlobalThreadMax
           /\ Set(CallM(a), [CallR(a) EXCEPT !.threadMax = call[a].val])
  BY <1>1, <1>2, <1>5, UpdateType, PlainHelpers, PlainCounted
<1>6. CASE SetSticky(a)
  <2> DEFINE r == [CallR(a) EXCEPT !.sticky = (call[a].val # 0)]
  <2>1. Set(CallM(a), r)
    BY <1>6 DEF SetSticky
  <2>2. r \in MacroRecord /\ Plain(CallR(a), r)
    BY <1>1, UpdateType, PlainHelpers
  <2> HIDE DEF r
  <2> QED BY <1>1, <1>2, <2>1, <2>2, PlainCounted
<1> QED BY <1>3, <1>4, <1>5, <1>6 DEF SetterStep, SetSignals, SetThreadMax

(* A signal that run() sends is no copy() where the lists have none. *)
LEMMA SentIsNoCopy ==
  ASSUME Base, CopyFree, NEW a \in Actors, run[a].i <= Len(SignalLists[RunR(a).signals])
  PROVE  SignalLists[RunR(a).signals][run[a].i].name # "copy"
<1> DEFINE n == RunR(a).signals
<1>1. TypeOK
  BY DEF Base
<1>2. n \in DOMAIN SignalLists /\ run[a].i \in Nat \ {0}
  BY <1>1, InFrame, MemberType
<1>3. run[a].i \in 1 .. Len(SignalLists[n])
  BY <1>2, SignalListsAssumption
<1> QED BY <1>2, <1>3 DEF CopyFree

LEMMA RunCounts ==
  ASSUME Base, NEW a \in Actors, RunStep(a)
  PROVE  CountStep(a)
<1> USE DEF RunAt
<1>1. /\ TypeOK /\ RunM(a) \in Macros /\ RunR(a) \in MacroRecord
      /\ RunR(a) = macro[RunM(a)] /\ RunM(a) = run[a].m /\ run[a] \in RunFrame
      /\ OwnCall(a) \/ ~UNCHANGED call
  BY InFrame, CallOwn DEF Base, RunR, RunM
<1>2. CASE \/ TestSignals(a) \/ TestPause(a) \/ TestStopped(a) \/ TestIdle(a) \/ TestQueued(a)
  <2>1. /\ UNCHANGED <<macro, call>>
        /\ run[a].at \notin NotCounted
        /\ \/ SendFrom(a, 1)
           \/ \E l \in {"pause", "leave", "pausing", "loop", "idle", "test", "decrement"} :
                RunTo(a, l)
    BY <1>2 DEF TestSignals, TestPause, TestStopped, TestIdle, TestQueued, NotCounted
  <2>2. OwnRun(a)
    BY <2>1, RunOwn DEF NotCounted
  <2> QED BY <1>1, <2>1, <2>2, OwnFrames, LeavesCounted
<1>3. CASE ConsumeInterrupt(a)
  <2> DEFINE o == [name |-> "setInterruptor", val |-> CONTINUE]
  <2>1. OwnCall(a)
    <3>1. CASE Begin(a, RunM(a), o)
      <4>1. LegalCall(o, OpNames) /\ o.name # "copy"
        BY DEF LegalCall, OpNames, SignalNames, CONTINUE
      <4> HIDE DEF o
      <4> QED BY <3>1, <4>1, BeginOwn
    <3> QED BY <1>1, <1>3, <3>1 DEF ConsumeInterrupt
  <2>2. /\ UNCHANGED macro /\ run[a].at \in {"consume", "loop"}
        /\ \E l \in {"signals", "stop", "leave"} : RunTo(a, l)
    BY <1>3 DEF ConsumeInterrupt, AfterConsume
  <2>3. OwnRun(a)
    BY <2>2, RunOwn DEF NotCounted
  <2> QED BY <2>1, <2>2, <2>3, OwnFrames, LeavesCounted
<1>4. CASE DispatchSignal(a)
  <2> DEFINE o == SignalLists[RunR(a).signals][run[a].i]
  <2>1. OwnCall(a)
    <3>1. CASE Begin(a, RunM(a), o) /\ run[a].i <= Len(SignalLists[RunR(a).signals])
               /\ o.name # "send"
      <4>1. LegalCall(o, OpNames) /\ (CopyFree => o.name # "copy")
        BY <1>1, <3>1, SentIsLegal, SentIsNoCopy
      <4>2. Begin(a, RunM(a), o)
        BY <3>1
      <4> HIDE DEF o
      <4> QED BY <4>1, <4>2, BeginOwn
    <3> QED BY <1>1, <1>4, <3>1 DEF DispatchSignal
  <2>2. /\ UNCHANGED macro /\ run[a].at = "send"
        /\ RunTo(a, "pause") \/ SendFrom(a, run[a].i + 1)
    BY <1>4 DEF DispatchSignal
  <2>3. OwnRun(a)
    BY <2>2, RunOwn DEF NotCounted
  <2> QED BY <2>1, <2>2, <2>3, OwnFrames, LeavesCounted
<1>5. CASE TestPauseLoop(a)
  <2>1. Frames(a)
    <3>1. /\ UNCHANGED call /\ run[a].at = "pausing"
          /\ \E l \in {"block", "loop"} : RunTo(a, l)
      BY <1>5 DEF TestPauseLoop
    <3>2. OwnRun(a)
      BY <3>1, RunOwn DEF NotCounted
    <3> QED BY <1>1, <3>1, <3>2, OwnFrames
  <2>2. CASE UNCHANGED macro
    BY <2>1, <2>2, LeavesCounted
  <2>3. CASE Set(RunM(a), Locked(RunR(a), a))
    BY <1>1, <2>1, <2>3, UpdateType, PlainHelpers, PlainCounted
  <2> QED BY <1>5, <2>2, <2>3 DEF TestPauseLoop
<1>6. CASE BlockInPause(a)
  <2> DEFINE r == Unlocked(Blocked(RunR(a), a))
  <2>1. /\ r \in MacroRecord
        /\ r.threadCount = RunR(a).threadCount /\ r.signals = RunR(a).signals
        /\ r.waiting = RunR(a).waiting \cup {a}
    BY <1>1, MemberType, UpdateType, EditHelpers
  <2>2. /\ UNCHANGED call /\ run[a].at = "block" /\ call[a].at = "none"
        /\ RunTo(a, "pausing") /\ Set(RunM(a), r)
    BY <1>6 DEF BlockInPause
  <2>3. OwnRun(a)
    BY <2>2, RunOwn DEF NotCounted
  <2>4. call'[a].at = "none" /\ run'[a].at = "pausing" /\ run'[a].m = RunM(a)
    BY <1>1, <2>2 DEF RunTo, TypeOK, RunsOK, RunFrame
  <2> HIDE DEF r
  <2>5. Blocks(a, RunM(a), r)
    BY <1>1, <2>1, <2>2, <2>3, <2>4, OwnFrames DEF Blocks
  <2> QED BY <1>1, <2>1, <2>5 DEF CountStep
<1>7. CASE DecQueued(a)
  <2> DEFINE r == QueuedBy(RunR(a), -1)
  <2>1. /\ UNCHANGED call /\ run[a].at = "decrement" /\ RunTo(a, "clamp") /\ Set(RunM(a), r)
    BY <1>7 DEF DecQueued
  <2>2. OwnRun(a)
    BY <2>1, RunOwn DEF NotCounted
  <2>3. r \in MacroRecord
    <3> \A n \in Int : QueuedBy(RunR(a), n) \in MacroRecord
      BY <1>1, UpdateType
    <3> QED OBVIOUS
  <2>4. Plain(RunR(a), r)
    BY <1>1, PlainHelpers
  <2> HIDE DEF r
  <2> QED BY <1>1, <2>1, <2>2, <2>3, <2>4, OwnFrames, PlainCounted
<1>8. CASE ClampQueued(a)
  <2>1. /\ UNCHANGED call /\ run[a].at = "clamp" /\ SendFrom(a, 1)
        /\ Set(RunM(a), Limited(RunR(a)))
    BY <1>8 DEF ClampQueued
  <2>2. OwnRun(a)
    BY <2>1, RunOwn DEF NotCounted
  <2> QED BY <1>1, <2>1, <2>2, ComposedType, PlainHelpers, OwnFrames, PlainCounted
<1>9. CASE Enter(a)
  <2> DEFINE r == Notified(CountedIn(RunR(a)))
  <2>1. /\ r \in MacroRecord
        /\ r.signals = RunR(a).signals /\ r.waiting \subseteq RunR(a).waiting
        /\ r.threadCount = Incremented(RunR(a).threadCount)
    BY <1>1, UpdateType, ComposedType, CountedHelpers
  <2>2. /\ UNCHANGED call /\ run[a].at = "enter" /\ Set(RunM(a), r)
        /\ run' = [run EXCEPT ![a].at = "consume"]
    BY <1>9 DEF Enter, RunTo
  <2> HIDE DEF r
  <2>3. Joins(a, RunM(a), r)
    BY <1>1, <2>1, <2>2 DEF Joins, Counts
  <2> QED BY <1>1, <2>1, <2>3 DEF CountStep
<1>10. CASE RunComplete(a)
  <2> DEFINE r == CountedOut(RunR(a))
  <2>1. /\ r \in MacroRecord
        /\ r.signals = RunR(a).signals /\ r.waiting \subseteq RunR(a).waiting
        /\ r.threadCount = Decremented(RunR(a).threadCount)
    BY <1>1, ComposedType, CountedHelpers
  <2>2. /\ UNCHANGED call /\ run[a].at = "leave" /\ Set(RunM(a), r)
        /\ run' = [run EXCEPT ![a].at = "release"]
    BY <1>10 DEF RunComplete, RunTo
  <2> HIDE DEF r
  <2>3. Quits(a, RunM(a), r)
    BY <1>1, <2>1, <2>2 DEF Quits, Counts
  <2> QED BY <1>1, <2>1, <2>3 DEF CountStep
<1>11. CASE Release(a)
  <2>1. \A b \in Actors : Alike(b)
    BY <1>1, <1>11 DEF Release, RunTo, Alike, TypeOK, RunsOK, RunFrame
  <2>2. \A b \in Actors \ {a} : run'[b] = run[b]
    BY <1>1, <1>11 DEF Release, RunTo, TypeOK, RunsOK
  <2>3. Frames(a)
    BY <1>11, <2>1, <2>2, CallOwn, OwnFrames DEF Release, OwnRun
  <2> QED BY <1>11, <2>3, LeavesCounted DEF Release
<1>12. CASE NotifyThreadsChanged(a)
  <2> DEFINE r == Notified(RunR(a))
  <2>1. r \in MacroRecord /\ Plain(RunR(a), r) /\ r.waiting = {}
    BY <1>1, UpdateType, PlainHelpers, CountedHelpers
  <2>2. /\ UNCHANGED call /\ run[a].at = "notify" /\ Set(RunM(a), r)
        /\ run' = [run EXCEPT ![a] = Ending(a)]
    BY <1>12 DEF NotifyThreadsChanged
  <2>3. Ending(a) \in RunFrame /\ Ending(a).at \in {"none", "gone"}
    BY <1>1, SetupsAssumption DEF Ending, NoFrame, AnyMacro, RunFrame, RunLabels
  <2> HIDE DEF r
  <2>4. Ends(a, RunM(a), r)
    BY <1>1, <2>1, <2>2, <2>3 DEF Ends
  <2> QED BY <1>1, <2>1, <2>4 DEF CountStep
<1> QED BY <1>2, <1>3, <1>4, <1>5, <1>6, <1>7, <1>8, <1>9, <1>10, <1>11,
           <1>12 DEF RunStep

LEMMA InvokeCounts ==
  ASSUME Base, NEW c \in Clients, Invoke(c)
  PROVE  CountStep(c)
<1>1. c \in Actors /\ TypeOK
  BY DEF Actors, Base
<1>2. CASE \E m \in Macros : run' = [run EXCEPT ![c] = Entered(m)] /\ UNCHANGED <<macro, call>>
  <2>1. PICK m \in Macros : run' = [run EXCEPT ![c] = Entered(m)] /\ UNCHANGED <<macro, call>>
    BY <1>2
  <2>2. run[c].at = "none" /\ call[c].at = "none"
    BY DEF Invoke, RunAt
  <2>3. \A b \in Actors : run'[b] = IF b = c THEN Entered(m) ELSE run[b]
    BY <1>1, <2>1 DEF TypeOK, RunsOK
  <2>4. \A b \in Actors : Alike(b)
    BY <2>2, <2>3 DEF Alike, Entered
  <2>5. CallsFine
    BY <2>1 DEF CallsFine, NobodyForgets, NoCopyNow
  <2>6. Frames(c)
    BY <2>1, <2>3, <2>4, <2>5 DEF Frames, Others, KeepsPlace
  <2> QED BY <1>1, <2>1, <2>6, LeavesCounted
<1>3. CASE \E m \in Macros, o \in Ops[c] :
             /\ Begin(c, m, o) /\ UNCHANGED run
             /\ UNCHANGED macro \/ Set(m, [macro[m] EXCEPT !.life = "dying"])
  <2>1. PICK m \in Macros, o \in Ops[c] :
          /\ Begin(c, m, o) /\ UNCHANGED run
          /\ UNCHANGED macro \/ Set(m, [macro[m] EXCEPT !.life = "dying"])
    BY <1>3
  <2>2. OwnCall(c)
    BY <1>1, <2>1, OpsAssumption, BeginOwn DEF CopyFree
  <2>3. Frames(c)
    BY <1>1, <2>1, <2>2, RunOwn, OwnFrames
  <2>4. macro[m] \in MacroRecord
    BY <1>1 DEF TypeOK, MacrosOK
  <2> QED BY <1>1, <2>1, <2>3, <2>4, UpdateType, PlainHelpers, LeavesCounted, PlainCounted
<1> QED BY <1>2, <1>3 DEF Invoke

-----------------------------------------------------------------------------
(* Who takes a step is not blocked. *)

LEMMA StepsAwake ==
  ASSUME NEW a \in Actors
  PROVE  /\ Step(a) =>
              \/ call[a].at \notin {"none", "wait"}
              \/ call[a].at = "wait" /\ Lock(a, CallM(a))
              \/ call[a].at = "none" /\ run[a].at # "pausing"
              \/ call[a].at = "none" /\ Lock(a, RunM(a))
         /\ Invoke(a) => call[a].at = "none" /\ run[a].at # "pausing"
<1>1. StartStep(a) => call[a].at \notin {"none", "wait"}
  BY DEF StartStep, StartLock, Resume, Reserve, IncQueuedTest, IncQueued, CheckQueued, Spawn,
         SpawnFails, LimitMaxThreads, CallAt
<1>2. SetInterruptorStep(a) => call[a].at \notin {"none", "wait"}
  BY DEF SetInterruptorStep, ReadInterruptor, CompareInterruptor, WriteInterruptor,
         ApplyDispatch, DetachReset, DetachFails, CallAt
<1>3. ClearStep(a) => \/ call[a].at \notin {"none", "wait"}
                      \/ call[a].at = "wait" /\ Lock(a, CallM(a))
  BY DEF ClearStep, ResetReads, Dequeue, Unregister, TestRunning, TestUnsetStatus,
         ForgetThreads, WaitThreadsChanged, JoinAll, EraseHandles, Restore, Assign, CallAt
<1>4. SetterStep(a) => call[a].at \notin {"none", "wait"}
  BY DEF SetterStep, SetSignals, SetThreadMax, SetSticky, CallAt
<1>5. RunStep(a) => /\ call[a].at = "none"
                    /\ run[a].at # "pausing" \/ Lock(a, RunM(a))
  BY DEF RunStep, Enter, ConsumeInterrupt, TestSignals, TestPause, TestPauseLoop,
         BlockInPause, TestStopped, TestIdle, TestQueued, DecQueued, ClampQueued,
         DispatchSignal, RunComplete, Release, NotifyThreadsChanged, RunAt
<1>6. Invoke(a) => call[a].at = "none" /\ run[a].at # "pausing"
  BY DEF Invoke, RunAt
<1> QED BY <1>1, <1>2, <1>3, <1>4, <1>5, <1>6 DEF Step, CallStep

LEMMA ActsAwake ==
  ASSUME CountInv, NEW a \in Actors, Step(a) \/ Invoke(a)
  PROVE  Awake(a)
<1> SUFFICES ASSUME NEW m \in Macros, a \in macro[m].waiting PROVE FALSE
  BY DEF Awake
<1>1. \/ call[a].at = "wait" /\ CallM(a) = m
      \/ call[a].at = "none" /\ run[a].at = "pausing" /\ RunM(a) = m
  BY DEF CountInv, Served, CallM, RunM
<1> QED BY <1>1, StepsAwake DEF Lock

LEMMA NextCountStep ==
  ASSUME CountInv, Next
  PROVE  \E a \in Actors : Awake(a) /\ CountStep(a)
<1>1. ASSUME NEW c \in Clients, Invoke(c) PROVE Awake(c) /\ CountStep(c)
  BY <1>1, InvokeCounts, ActsAwake DEF Actors, CountInv
<1>2. ASSUME NEW a \in Actors, Step(a) PROVE Awake(a) /\ CountStep(a)
  BY <1>2, StartCounts, SetInterruptorCounts, ClearCounts, SetterCounts, RunCounts, ActsAwake
     DEF Step, CallStep, CountInv
<1> QED BY <1>1, <1>2 DEF Next, Actors

(* A reset thread is no thread that start() creates and no client. *)
LEMMA ResetsApart ==
  ASSUME TypeOK, ResetsNeverRun, [Next]_vars
  PROVE  ResetsNeverRun'
<1>1. run \in [Actors -> RunFrame] /\ Resets \subseteq Actors /\ NoFrame.at = "none"
  BY DEF TypeOK, RunsOK, Actors, NoFrame
<1>2. /\ UNCHANGED run => ResetsNeverRun'
      /\ \A t, f : t \notin Resets /\ run' = [run EXCEPT ![t] = f] => ResetsNeverRun'
  BY <1>1 DEF ResetsNeverRun
<1>3. ASSUME NEW c \in Clients, Invoke(c) PROVE ResetsNeverRun'
  <2>1. c \notin Resets
    BY ActorsAssumption
  <2>2. UNCHANGED run \/ \E m \in Macros : run' = [run EXCEPT ![c] = Entered(m)]
    BY <1>3 DEF Invoke
  <2> QED BY <1>2, <2>1, <2>2
<1>4. ASSUME NEW a \in Actors, StartStep(a) PROVE ResetsNeverRun'
  <2>1. CASE Spawn(a)
    BY <1>2, <2>1, ActorsAssumption DEF Spawn, FreeThreads
  <2>2. CASE ~Spawn(a)
    <3>1. UNCHANGED run
      BY <1>4, <2>2 DEF StartStep, StartLock, Resume, Reserve, IncQueuedTest, IncQueued,
                        CheckQueued, SpawnFails, LimitMaxThreads
    <3> QED BY <1>2, <3>1
  <2> QED BY <2>1, <2>2
<1>5. ASSUME NEW a \in Actors, Throw(a) PROVE ResetsNeverRun'
  <2>1. CASE run[a].at = "send"
    <3>1. \A x \in Resets : run'[x] = run[x]
      BY <1>1, <1>5, <2>1 DEF Throw, ResetsNeverRun
    <3> QED BY <3>1 DEF ResetsNeverRun
  <2>2. CASE run[a].at # "send"
    BY <1>2, <1>5, <2>2 DEF Throw
  <2> QED BY <2>1, <2>2
<1>6. ASSUME NEW a \in Actors, SetInterruptorStep(a) \/ SetterStep(a) PROVE ResetsNeverRun'
  <2>1. UNCHANGED run \/ Throw(a)
    BY <1>6 DEF SetInterruptorStep, ReadInterruptor, CompareInterruptor, WriteInterruptor,
         ApplyDispatch, DetachReset, DetachFails, SetterStep, SetSignals, SetThreadMax, SetSticky
  <2> QED BY <1>2, <1>5, <2>1
<1>7. ASSUME NEW a \in Actors, ClearStep(a) PROVE ResetsNeverRun'
  <2>1. CASE JoinAll(a)
    BY <1>1, <2>1 DEF JoinAll, ResetsNeverRun
  <2>2. CASE ~JoinAll(a)
    <3>1. UNCHANGED run
      BY <1>7, <2>2 DEF ClearStep, ResetReads, Dequeue, Unregister, TestRunning,
           TestUnsetStatus, ForgetThreads, WaitThreadsChanged, EraseHandles, Restore, Assign
    <3> QED BY <1>2, <3>1
  <2> QED BY <2>1, <2>2
<1>8. ASSUME NEW a \in Actors, RunStep(a) PROVE ResetsNeverRun'
  <2>1. run[a].at # "none"
    BY <1>8 DEF RunStep, RunAt, Enter, ConsumeInterrupt, TestSignals, TestPause, TestPauseLoop,
         BlockInPause, TestStopped, TestIdle, TestQueued, DecQueued, ClampQueued,
         DispatchSignal, RunComplete, Release, NotifyThreadsChanged
  <2>2. a \notin Resets
    BY <2>1 DEF ResetsNeverRun
  <2>3. \/ run' = [run EXCEPT ![a] = Ending(a)]
        \/ \E l : RunTo(a, l)
        \/ \E i : SendFrom(a, i)
    BY <1>8 DEF RunStep, Enter, ConsumeInterrupt, TestSignals, TestPause, TestPauseLoop,
         BlockInPause, TestStopped, TestIdle, TestQueued, DecQueued, ClampQueued,
         DispatchSignal, RunComplete, Release, NotifyThreadsChanged
  <2> QED BY <1>1, <2>2, <2>3 DEF RunTo, SendFrom, ResetsNeverRun
<1> QED BY <1>2, <1>3, <1>4, <1>6, <1>7, <1>8 DEF Next, Step, CallStep, vars

LEMMA CountKept ==
  ASSUME CountInv, FewRuns, Steady, [Next]_vars
  PROVE  CountInv'
<1> USE DEF Steady
<1>1. Base'
  <2>1. TypeOK' /\ ResetsNeverRun'
    BY NextTyped, ResetsApart DEF CountInv, Base
  <2>2. RoomToCount \/ PoolInv'
    BY PoolKept DEF CountInv, Base, FewRuns
  <2> QED BY <2>1, <2>2 DEF Base, RoomToCount
<1>2. CASE Next
  BY <1>1, <1>2, NextCountStep, CountStepKeeps
<1>3. CASE UNCHANGED vars
  BY <1>1, <1>3 DEF vars, CountInv, ThreadCountExact, Counted, Served, Busy, NobodyForgets,
                    NoCopyNow
<1> QED BY <1>2, <1>3

LEMMA CountInitially == Init => CountInv
<1> SUFFICES ASSUME Init PROVE CountInv
  OBVIOUS
<1>1. NoFrame.at = "none" /\ NoCall.at = "none" /\ NoCall.op = "start"
  BY DEF NoFrame, NoCall, CallOf
<1>2. \A a \in Actors : run[a] = NoFrame /\ call[a] = NoCall
  BY DEF Init
<1>3. \A m \in Macros : macro[m].threadCount = 0 /\ macro[m].waiting = {}
  BY DEF Init, NewMacro
<1>4. \A m \in Macros : Counted(m) = {}
  BY <1>1, <1>2 DEF Counted
<1>5. ThreadCountExact
  BY <1>3, <1>4, FS_EmptySet DEF ThreadCountExact
<1>6. Base
  BY <1>1, <1>2, PoolInitially DEF Base, PoolInv, PoolOK, ResetsNeverRun, Actors
<1> QED BY <1>1, <1>2, <1>3, <1>5, <1>6
        DEF CountInv, Served, NobodyForgets, NoCopyNow

LEMMA CountAlways ==
  ASSUME FewRuns, Steady
  PROVE  Spec => []CountInv
<1>1. CountInv /\ [Next]_vars => CountInv'
  BY CountKept
<1> QED BY <1>1, CountInitially, PTL DEF Spec

-----------------------------------------------------------------------------
(* When no client calls run() itself, or all there are can be counted, and  *)
(* an unset std::cv_status does not read as a timeout, _threadCount is the  *)
(* number of threads inside run(), whatever way they take out of it.        *)
THEOREM ThreadCountCounts ==
  ASSUME FewRuns, Steady
  PROVE  Spec => []ThreadCountExact
<1>1. CountInv => ThreadCountExact
  BY DEF CountInv
<1> QED BY <1>1, CountAlways, PTL

(* On the same terms, whoever waits for the threads of a macro to end will  *)
(* be told: one of them is counted, or was and has not notified yet.        *)
THEOREM WaitersAreServed ==
  ASSUME FewRuns, Steady
  PROVE  Spec => []WaitersServed
<1>1. ASSUME CountInv PROVE WaitersServed
  <2> SUFFICES ASSUME NEW m \in Macros, NEW a \in macro[m].waiting, CallAt(a, "wait"),
                      ~\E t \in Actors : run[t].at \in {"release", "notify"} /\ run[t].m = m
               PROVE  Running(macro[m])
    BY DEF WaitersServed
  <2>1. PICK t \in Actors : run[t].m = m /\ run[t].at \notin {"none", "enter", "gone"}
    BY <1>1 DEF CountInv, Served, Busy, CallAt
  <2>2. t \in Counted(m)
    BY <2>1 DEF Counted
  <2>3. IsFiniteSet(Counted(m)) /\ Cardinality(Counted(m)) \in Nat
    BY <1>1, FewCounted, FS_CardinalityType DEF CountInv
  <2>4. Cardinality(Counted(m)) # 0
    BY <2>2, <2>3, FS_EmptySet
  <2> QED BY <1>1, <2>3, <2>4 DEF CountInv, ThreadCountExact, Running
<1> QED BY <1>1, CountAlways, PTL

(* On the same terms, and where nothing calls copy(), the signals a run is  *)
(* sending do not change under it.                                          *)
THEOREM SignalsAreStable ==
  ASSUME FewRuns, Steady, CopyFree
  PROVE  Spec => SignalsStable
<1>1. ASSUME CountInv, [Next]_vars
      PROVE  [\A m \in Macros : Sending(m) => macro'[m].signals = macro[m].signals]_vars
  <2> SUFFICES ASSUME Next, NEW m \in Macros, Sending(m)
               PROVE  macro'[m].signals = macro[m].signals
    BY <1>1
  <2>1. PICK a \in Actors : CountStep(a)
    BY <1>1, NextCountStep
  <2>2. TypeOK /\ call[a].op # "copy"
    BY <1>1 DEF CountInv, Base, NoCopyNow
  <2>3. macro[m].threadCount # 0
    <3>1. Counted(m) # {}
      BY DEF Sending, Counted
    <3>2. IsFiniteSet(Counted(m))
      BY <1>1, FewCounted DEF CountInv
    <3> QED BY <1>1, <3>1, <3>2, FS_EmptySet DEF CountInv, ThreadCountExact
  <2>4. CASE UNCHANGED macro
    BY <2>4
  <2>5. ASSUME NEW o \in Macros, NEW r \in MacroRecord, Set(o, r),
               r.signals = macro[o].signals
        PROVE  macro'[m].signals = macro[m].signals
    BY <2>2, <2>5, AfterSet
  <2>6. ASSUME NEW o \in Macros, NEW r \in MacroRecord, Edits(a, o, r)
        PROVE  macro'[m].signals = macro[m].signals
    BY <2>2, <2>3, <2>6, AfterSet DEF Edits
  <2>7. CASE Plains(a)
    BY <2>4, <2>5, <2>7 DEF Plains, Plain
  <2>8. ASSUME NEW o \in Macros, NEW r \in MacroRecord,
               Blocks(a, o, r) \/ Joins(a, o, r) \/ Quits(a, o, r) \/ Ends(a, o, r)
                 \/ Forgets(a, o, r)
        PROVE  macro'[m].signals = macro[m].signals
    BY <2>5, <2>8 DEF Blocks, Joins, Quits, Counts, Ends, Plain, Forgets
  <2> QED BY <2>1, <2>6, <2>7, <2>8 DEF CountStep
<1> QED BY <1>1, CountAlways, PTL DEF Spec, SignalsStable
-----------------------------------------------------------------------------
(***************************************************************************)
(* copy().  It assigns whatever the count is, having disabled the macro    *)
(* and joined its threads.  A start() that was past its test may make one  *)
(* more in between: that thread finds the macro disabled and leaves.       *)
(*                                                                         *)
(* An unset std::cv_status that reads as a timeout sets the count to 0     *)
(* with threads inside, and it stays too small by as many.  These threads  *)
(* came in after the count was seen to be 0, so they send nothing, and     *)
(* they hold up the clearing until they end.  From then on the count, if   *)
(* it is still too small, has wrapped around and is above every            *)
(* _threadMax: nobody starts.                                              *)
(***************************************************************************)
AfterDisable == {"unregister", "clear", "sticky", "unset", "drainAgain",
                 "wait", "waited", "forget", "join", "erase", "assign"}
CopiesDisabled == \A a \in Actors :
  call[a].at \in AfterDisable => macro[call[a].m].interruptor = DISABLE

(* The places of run() it comes to when it has not found the macro stopped. *)
GoingOn      == {"idle", "test", "decrement", "clamp", "send"}
NoneGoing(m) == \A t \in Actors : run[t].m = m => run[t].at \notin GoingOn
NoneSends    == \A a \in Actors : call[a].at = "assign" => NoneGoing(call[a].m)

(* Nor do they where the status is unset: no thread was counted then, and   *)
(* those that are by now find the macro disabled.                           *)
UnsetAlone == \A a \in Actors : call[a].at \in {"unset", "forget"} => NoneGoing(call[a].m)

CopyInv == PoolInv /\ ResetsNeverRun /\ FreeInv /\ ObeyInv /\ CopiesDisabled /\ NoneSends

LEMMA DisablingStep ==
  ASSUME NEW a \in Actors, Step(a), call[a].at \in Dequeues
  PROVE  Set(CallM(a), Dequeued(CallR(a), ClearType(a)))
<1> USE DEF Dequeues, CallAt
<1>1. ~StartStep(a)
  BY DEF StartStep, StartLock, Resume, Reserve, IncQueuedTest, IncQueued, CheckQueued, Spawn,
         SpawnFails, LimitMaxThreads
<1>2. ~SetInterruptorStep(a)
  BY DEF SetInterruptorStep, ReadInterruptor, CompareInterruptor, WriteInterruptor,
         ApplyDispatch, DetachReset, DetachFails
<1>3. ~SetterStep(a)
  BY DEF SetterStep, SetSignals, SetThreadMax, SetSticky
<1>4. ~RunStep(a)
  BY DEF RunStep, Enter, ConsumeInterrupt, TestSignals, TestPause, TestPauseLoop,
         BlockInPause, TestStopped, TestIdle, TestQueued, DecQueued, ClampQueued,
         DispatchSignal, RunComplete, Release, NotifyThreadsChanged, RunAt
<1>5. ClearStep(a) => Dequeue(a)
  BY DEF ClearStep, ResetReads, Unregister, TestRunning, TestUnsetStatus,
         ForgetThreads, WaitThreadsChanged, JoinAll, EraseHandles, Restore, Assign
<1> QED BY <1>1, <1>2, <1>3, <1>4, <1>5 DEF Step, CallStep, Dequeue

LEMMA ErasingStep ==
  ASSUME NEW a \in Actors, Step(a), call[a].at = "erase"
  PROVE  Erasable(a) \/ UNCHANGED call
<1> USE DEF CallAt
<1>1. ~StartStep(a)
  BY DEF StartStep, StartLock, Resume, Reserve, IncQueuedTest, IncQueued, CheckQueued, Spawn,
         SpawnFails, LimitMaxThreads
<1>2. ~SetInterruptorStep(a)
  BY DEF SetInterruptorStep, ReadInterruptor, CompareInterruptor, WriteInterruptor,
         ApplyDispatch, DetachReset, DetachFails
<1>3. ~SetterStep(a)
  BY DEF SetterStep, SetSignals, SetThreadMax, SetSticky
<1>4. ~RunStep(a)
  BY DEF RunStep, Enter, ConsumeInterrupt, TestSignals, TestPause, TestPauseLoop,
         BlockInPause, TestStopped, TestIdle, TestQueued, DecQueued, ClampQueued,
         DispatchSignal, RunComplete, Release, NotifyThreadsChanged, RunAt
<1>5. ClearStep(a) => EraseHandles(a)
  BY DEF ClearStep, ResetReads, Dequeue, Unregister, TestRunning, TestUnsetStatus,
         ForgetThreads, WaitThreadsChanged, JoinAll, Restore, Assign
<1> QED BY <1>1, <1>2, <1>3, <1>4, <1>5 DEF Step, CallStep, EraseHandles

LEMMA CallsWork ==
  ASSUME NEW a \in Actors, CallStep(a)
  PROVE  call[a].at # "none"
<1> USE DEF CallAt
<1>1. StartStep(a) => call[a].at # "none"
  BY DEF StartStep, StartLock, Resume, Reserve, IncQueuedTest, IncQueued, CheckQueued, Spawn,
         SpawnFails, LimitMaxThreads
<1>2. SetInterruptorStep(a) => call[a].at # "none"
  BY DEF SetInterruptorStep, ReadInterruptor, CompareInterruptor, WriteInterruptor,
         ApplyDispatch, DetachReset, DetachFails
<1>3. ClearStep(a) => call[a].at # "none"
  BY DEF ClearStep, ResetReads, Dequeue, Unregister, TestRunning, TestUnsetStatus,
         ForgetThreads, WaitThreadsChanged, JoinAll, EraseHandles, Restore, Assign
<1>4. SetterStep(a) => call[a].at # "none"
  BY DEF SetterStep, SetSignals, SetThreadMax, SetSticky
<1> QED BY <1>1, <1>2, <1>3, <1>4 DEF CallStep

(* A run goes on only where the macro is not stopped. *)
LEMMA OwnGoingOn ==
  ASSUME TypeOK, NEW a \in Actors, RunStep(a), run'[a].at \in GoingOn
  PROVE  run[a].at \in GoingOn \/ (run[a].at = "stop" /\ ~Stopped(macro[run[a].m]))
<1> USE DEF GoingOn, RunAt
<1>1. run \in [Actors -> RunFrame]
  BY DEF TypeOK, RunsOK
<1>2. \A l : RunTo(a, l) => run'[a].at = l
  BY <1>1 DEF RunTo, RunFrame
<1>3. CASE Enter(a) \/ TestSignals(a) \/ TestPause(a) \/ TestPauseLoop(a) \/ BlockInPause(a)
           \/ RunComplete(a)
  BY <1>2, <1>3 DEF Enter, TestSignals, TestPause, TestPauseLoop, BlockInPause, RunComplete
<1>4. CASE ConsumeInterrupt(a)
  BY <1>2, <1>4 DEF ConsumeInterrupt, AfterConsume
<1>5. CASE TestStopped(a)
  BY <1>2, <1>5 DEF TestStopped, RunR
<1>6. CASE TestIdle(a) \/ TestQueued(a) \/ DecQueued(a) \/ ClampQueued(a) \/ DispatchSignal(a)
  BY <1>6 DEF TestIdle, TestQueued, DecQueued, ClampQueued, DispatchSignal
<1>7. CASE Release(a)
  BY <1>2, <1>7 DEF Release
<1>8. CASE NotifyThreadsChanged(a)
  <2>1. run'[a] = Ending(a)
    BY <1>1, <1>8 DEF NotifyThreadsChanged
  <2> QED BY <2>1, EmptyFrames
<1> QED BY <1>3, <1>4, <1>5, <1>6, <1>7, <1>8 DEF RunStep

LEMMA ComesToGoOn ==
  ASSUME FrameInv, NEW a \in Actors, Step(a), NEW t \in Actors, run'[t].at \in GoingOn
  PROVE  /\ run'[t].m = run[t].m
         /\ \/ run[t].at \in GoingOn
            \/ run[t].at = "stop" /\ ~Stopped(macro[run[t].m])
<1>1. Effects(a) /\ RunEffect(a) /\ OthersEffect(a)
  BY StepEffects DEF Effects
<1>2. CASE t # a
  BY <1>1, <1>2, OthersFrames, EmptyFrames DEF GoingOn
<1>3. CASE t = a
  <2>1. run'[a].m = run[a].m
    BY <1>1, <1>3, EmptyFrames DEF RunEffect, GoingOn
  <2>2. CASE call[a].at # "none"
    BY <1>1, <1>3, <2>2 DEF RunEffect, GoingOn
  <2>3. CASE call[a].at = "none"
    <3>1. RunStep(a)
      BY <2>3, CallsWork DEF Step
    <3> QED BY <1>3, <2>1, <3>1, OwnGoingOn DEF FrameInv
  <2> QED BY <2>1, <2>2, <2>3, <1>3
<1> QED BY <1>2, <1>3

(* There is one who commands, and who clears commands. *)
LEMMA OneCommands ==
  ASSUME OneCommander, ObeyInv, NEW a \in Actors, NEW b \in Actors, Commands(a), Commands(b)
  PROVE  a = b
BY DEF OneCommander, ObeyInv, ClientsCommand, Own

LEMMA ClearersCommand ==
  ASSUME ObeyInv, NEW a \in Actors, call[a].at \in AfterDisable \cup {"disable"}
  PROVE  Commands(a) /\ call[a].op \in {"copy", "destroy"}
BY DEF ObeyInv, StructInv, OpsOK, OpOK, StickyLabels, ClearingLabels, AfterDisable,
       NoResetsNow, Commands, CommandNames

LEMMA StepCopiesDisabled ==
  ASSUME NobodyInterrupts, OneCommander, CopyInv, NEW a \in Actors, Step(a)
  PROVE  CopiesDisabled'
<1> SUFFICES ASSUME NEW b \in Actors, call'[b].at \in AfterDisable
             PROVE  macro'[call'[b].m].interruptor = DISABLE
  BY DEF CopiesDisabled
<1>1. /\ ObeyInv /\ StructInv /\ FrameInv /\ TypeOK /\ CopiesDisabled
      /\ call[b].m \in Macros
  BY InFrame DEF CopyInv, ObeyInv, StructInv, FrameInv, CallM
<1>2. Effects(a) /\ CallEffect(a) /\ \A m \in Macros : MemberEffect(a, m)
  BY <1>1, StepEffects DEF Effects, MacroEffect
<1>3. CASE b # a
  <2>1. call'[b] = call[b] /\ call[b].at \in AfterDisable
    BY <1>1, <1>2, <1>3, OtherCommands DEF AfterDisable
  <2>2. ~WritesInterruptor(a, call[b].m)
    BY <1>1, <1>3, <2>1, ObeyWrites, OneCommands, ClearersCommand
  <2> QED BY <1>1, <1>2, <2>1, <2>2 DEF MemberEffect, CopiesDisabled
<1>4. CASE b = a
  <2>1. /\ call'[a].m = call[a].m
        /\ call[a].at \in {"disable"} \cup (AfterDisable \ {"assign"})
    <3>1. CASE Remains(a)
      BY <1>4, <3>1 DEF Remains, AfterDisable
    <3>2. CASE MovesTo(a)
      <4>1. call[a].at # "resetting"
        BY <1>1 DEF ObeyInv, NoResetsNow, StructInv, OpsOK, OpOK
      <4>2. call'[a].m = call[a].m
        BY <3>2 DEF MovesTo
      <4>3. call[a].at \in {"disable"} \cup (AfterDisable \ {"assign"})
        <5>1. Goes(call[a], call'[a], macro[call[a].m], macro'[call[a].m], a)
          BY <3>2 DEF MovesTo
        <5> QED BY <1>4, <4>1, <5>1 DEF Goes, AfterDisable
      <4> QED BY <4>2, <4>3
    <3>3. CASE Begins(a)
      BY <1>4, <3>3, BegunCalls, EntryPlaces, EmptyFrames DEF AfterDisable, OpNames, SignalNames
    <3>4. ~Returns(a) /\ ~Restores(a)
      BY <1>4, EmptyFrames DEF Returns, Restores, AfterDisable
    <3> QED BY <1>2, <3>1, <3>2, <3>3, <3>4 DEF CallEffect
  <2>2. call[a].op \in {"copy", "destroy"}
    BY <1>1, <2>1, ClearersCommand
  <2>3. CASE call[a].at \in Dequeues
    <3>1. Set(CallM(a), Dequeued(CallR(a), ClearType(a)))
      BY <2>3, DisablingStep
    <3>2. ClearType(a) = DISABLE
      BY <2>2 DEF ClearType, IsReset
    <3>3. CallR(a) \in MacroRecord /\ macro \in [Macros -> MacroRecord] /\ CallM(a) = call[a].m
      BY <1>1, InFrame DEF TypeOK, MacrosOK, CallM
    <3>4. Dequeued(CallR(a), DISABLE).interruptor = DISABLE
      BY <3>3 DEF MacroRecord, Dequeued, Notified, Interrupt, Emptied
    <3>5. macro'[call[a].m] = Dequeued(CallR(a), DISABLE)
      BY <1>1, <1>4, <3>1, <3>2, <3>3 DEF Set
    <3> QED BY <1>4, <2>1, <3>4, <3>5
  <2>4. CASE call[a].at \notin Dequeues
    <3>1. macro[call[a].m].interruptor = DISABLE
      BY <1>1, <2>1, <2>4 DEF CopiesDisabled, Dequeues
    <3>2. ~WritesInterruptor(a, call[a].m)
      BY <2>1, <2>4 DEF WritesInterruptor, AfterDisable
    <3> QED BY <1>1, <1>2, <1>4, <2>1, <3>1, <3>2 DEF MemberEffect
  <2> QED BY <2>3, <2>4
<1> QED BY <1>3, <1>4

(* Who has joined the threads of a macro has seen them go. *)
LEMMA ErasedDeserted ==
  ASSUME CopyInv, NEW a \in Actors, call[a].at = "erase", Erasable(a), NEW t \in Actors
  PROVE  ~InRun(t, call[a].m)
<1> SUFFICES ASSUME InRun(t, call[a].m) PROVE FALSE
  OBVIOUS
<1>1. t \in Threads
  BY DEF InRun, CopyInv, PoolInv, PoolOK, OnlyThreadsRun
<1>2. t \in macro[call[a].m].handles
  BY <1>1 DEF InRun, CopyInv, FreeInv, LiveHeld
<1> QED BY <1>2 DEF Erasable, CallR

LEMMA StepNoneSends ==
  ASSUME CopyInv, NEW a \in Actors, Step(a)
  PROVE  NoneSends'
<1> SUFFICES ASSUME NEW b \in Actors, call'[b].at = "assign",
                    NEW t \in Actors, run'[t].m = call'[b].m, run'[t].at \in GoingOn
             PROVE  FALSE
  BY DEF NoneSends, NoneGoing
<1>1. FrameInv /\ StructInv /\ TypeOK
  BY DEF CopyInv, ObeyInv, StructInv, FrameInv
<1>2. Effects(a) /\ CallEffect(a)
  BY <1>1, StepEffects DEF Effects
<1>3. /\ run'[t].m = run[t].m
      /\ \/ run[t].at \in GoingOn
         \/ run[t].at = "stop" /\ ~Stopped(macro[run[t].m])
  BY <1>1, ComesToGoOn
<1>4. CASE b # a
  <2>1. call'[b] = call[b] /\ call[b].at = "assign"
    BY <1>1, <1>2, <1>4, OtherCommands
  <2>2. macro[run[t].m].interruptor = DISABLE
    BY <1>3, <2>1 DEF CopyInv, CopiesDisabled, AfterDisable
  <2>3. Stopped(macro[run[t].m])
    BY <2>2 DEF Stopped, DISABLE, INTERRUPT_ALL
  <2>4. run[t].m = call[b].m /\ run[t].at \in GoingOn
    BY <1>3, <2>1, <2>3
  <2> QED BY <2>1, <2>4 DEF CopyInv, NoneSends, NoneGoing
<1>5. CASE b = a
  <2>1. call[a].at = "erase" /\ call'[a].m = call[a].m
    <3>1. CASE MovesTo(a)
      BY <1>5, <3>1 DEF MovesTo, Goes
    <3>2. CASE Begins(a)
      BY <1>5, <3>2, BegunCalls, EntryPlaces, EmptyFrames DEF OpNames, SignalNames
    <3>3. ~Returns(a) /\ ~Restores(a) /\ ~Remains(a)
      BY <1>5, EmptyFrames DEF Returns, Restores, Remains
    <3> QED BY <1>2, <3>1, <3>2, <3>3 DEF CallEffect
  <2>2. Erasable(a)
    BY <1>5, <2>1, ErasingStep
  <2>3. InRun(t, call[a].m)
    BY <1>3, <1>5, <2>1 DEF InRun, GoingOn
  <2> QED BY <2>1, <2>2, <2>3, ErasedDeserted
<1> QED BY <1>4, <1>5

LEMMA InvokeCopies ==
  ASSUME CopyInv, NEW c \in Clients, Invoke(c)
  PROVE  CopiesDisabled' /\ NoneSends' /\ (UnsetAlone => UnsetAlone')
<1>1. /\ ObeyInv /\ StructInv /\ FrameInv /\ TypeOK
      /\ \A a \in Actors : call[a].m \in Macros /\ run[a].m \in Macros
  BY InFrame DEF CopyInv, ObeyInv, StructInv, FrameInv, CallM, RunM
<1>2. PICK n \in Macros, o \in Ops[c] : InvokeEffect(c, n, o)
  BY <1>1, InvokeEffects
<1>3. \A m \in Macros : macro'[m].interruptor = macro[m].interruptor
  BY <1>1, <1>2, InvokeObeys
<1>4. \A b \in Actors \ {c} : call'[b] = call[b] /\ run'[b] = run[b]
  BY <1>2 DEF InvokeEffect, CallsOfOthers, RunsOfOthers
<1>5. call'[c].at \notin AfterDisable
  <2>1. CASE o.name = "run"
    BY <1>2, <2>1 DEF InvokeEffect, AfterDisable
  <2>2. CASE o.name # "run"
    <3>1. o.name \in OpNames \ {"run"}
      BY <2>2, InvokedNames
    <3>2. call'[c].at = EntryOf(o.name)
      BY <1>2, <2>2, EmptyFrames DEF InvokeEffect, EntryOf
    <3> QED BY <3>1, <3>2, EntryPlaces DEF AfterDisable
  <2> QED BY <2>1, <2>2
<1>6. run'[c].at \notin GoingOn
  <2>1. run'[c] = run[c] \/ run'[c] = Entered(n)
    BY <1>2 DEF InvokeEffect
  <2> QED BY <1>2, <2>1, EmptyFrames DEF InvokeEffect, GoingOn
<1>7. CopiesDisabled'
  BY <1>1, <1>3, <1>4, <1>5 DEF CopyInv, CopiesDisabled
<1>8. NoneSends'
  BY <1>4, <1>5, <1>6 DEF CopyInv, NoneSends, NoneGoing, AfterDisable
<1>9. UnsetAlone => UnsetAlone'
  BY <1>4, <1>5, <1>6 DEF UnsetAlone, NoneGoing, AfterDisable
<1> QED BY <1>7, <1>8, <1>9

LEMMA CopyKept ==
  ASSUME NoSyncRun, NobodyInterrupts, OneCommander, CopyInv, [Next]_vars
  PROVE  CopyInv'
<1>1. PoolInv' /\ ResetsNeverRun'
  BY PoolKept, ResetsApart DEF CopyInv, PoolInv, PoolOK
<1>2. NobodyResets /\ NoSignalCopies
  BY InterruptsReset DEF NobodyInterrupts, NoSignalCopies
<1>3. FreeInv' /\ ObeyInv'
  BY <1>2, FreeKept, ObeyKept DEF CopyInv
<1>4. CASE UNCHANGED vars
  BY <1>1, <1>3, <1>4 DEF vars, CopyInv, CopiesDisabled, NoneSends, NoneGoing
<1>5. CASE Next
  BY <1>1, <1>3, <1>5, StepCopiesDisabled, StepNoneSends, InvokeCopies DEF Next, CopyInv
<1> QED BY <1>4, <1>5

LEMMA CopyInitially ==
  ASSUME NobodyInterrupts, Init
  PROVE  CopyInv
<1>1. NobodyResets /\ NoSignalCopies
  BY InterruptsReset DEF NobodyInterrupts, NoSignalCopies
<1>2. \A a \in Actors : call[a].at = "none" /\ run[a].at = "none"
  BY EmptyFrames DEF Init
<1>3. FreeInv /\ ObeyInv /\ PoolInv
  BY <1>1, FreeInitially, ObeyInitially, PoolInitially
<1> QED BY <1>2, <1>3
        DEF CopyInv, CopiesDisabled, NoneSends, AfterDisable, ResetsNeverRun, Actors

-----------------------------------------------------------------------------
(* By how much the count is too small, and who has seen to it that a macro  *)
(* whose count is too small is started by nobody.                           *)
Short(m, d) ==
  LET n == Cardinality(Counted(m)) IN macro[m].threadCount \in {n - d, n - d + Wrap}

NoneStarts(m)  == \A a \in Actors : call[a].at \in InSection => call[a].m # m
ClearingNow(m) == \E a \in Actors : call[a].at \in {"join", "erase"} /\ call[a].m = m
Deserted(m)    == \A a \in Actors : ~InRun(a, m)
Shut(m)        == NoneStarts(m) /\ NoneGoing(m) /\ (ClearingNow(m) \/ Deserted(m))

Reckoned == \A m \in Macros : \E d \in 0 .. Cardinality(Actors) :
  Short(m, d) /\ (d # 0 => Shut(m))

LEMMA DesertedUncounted ==
  ASSUME NEW m \in Macros, Deserted(m)
  PROVE  Counted(m) = {}
BY DEF Deserted, InRun, Counted

(* Nobody starts a macro that is shut: it is disabled, or its count is one  *)
(* that has gone below 0.                                                   *)
LEMMA ShutStarts ==
  ASSUME CopyInv, RoomBelowZero, NEW m \in Macros, NEW d \in 0 .. Cardinality(Actors), d # 0,
         Short(m, d), Shut(m)
  PROVE  ~CanStart(macro[m])
<1>1. CASE ClearingNow(m)
  <2>1. macro[m].interruptor = DISABLE
    BY <1>1 DEF ClearingNow, CopyInv, CopiesDisabled, AfterDisable
  <2> QED BY <2>1 DEF CanStart, DISABLE, CONTINUE, PAUSE
<1>2. CASE Deserted(m)
  <2>1. Cardinality(Counted(m)) = 0
    BY <1>2, DesertedUncounted, FS_EmptySet
  <2>2. /\ macro[m].threadCount \in 0 .. Wrap - 1
        /\ macro[m].threadMax \in 1 .. GlobalThreadMax
    BY MemberType DEF CopyInv, PoolInv, PoolOK, TypeOK, MacrosOK
  <2>3. Cardinality(Actors) \in Nat
    BY ActorsAssumption, FS_CardinalityType
  <2>4. macro[m].threadCount > macro[m].threadMax
    BY <2>1, <2>2, <2>3, LimitsAssumption DEF Short, RoomBelowZero
  <2> QED BY <2>2, <2>4 DEF CanStart
<1> QED BY <1>1, <1>2 DEF Shut

(* And it stays shut. *)
LEMMA NoneGoingKept ==
  ASSUME CopyInv, NEW a \in Actors, Step(a), NEW m \in Macros, NoneGoing(m),
         macro[m].interruptor = DISABLE \/ Deserted(m)
  PROVE  NoneGoing(m)'
<1> SUFFICES ASSUME NEW t \in Actors, run'[t].m = m, run'[t].at \in GoingOn PROVE FALSE
  BY DEF NoneGoing
<1>1. run[t].m = m /\ run[t].at = "stop" /\ ~Stopped(macro[m])
  BY ComesToGoOn DEF CopyInv, ObeyInv, StructInv, NoneGoing
<1>2. CASE macro[m].interruptor = DISABLE
  BY <1>1, <1>2 DEF Stopped, DISABLE, INTERRUPT_ALL
<1>3. CASE Deserted(m)
  BY <1>1, <1>3 DEF Deserted, InRun
<1> QED BY <1>2, <1>3

LEMMA DesertedKept ==
  ASSUME FrameInv, NEW a \in Actors, Effects(a), NEW m \in Macros, Deserted(m), NoneStarts(m)
  PROVE  Deserted(m)'
<1> SUFFICES ASSUME NEW b \in Actors, InRun(b, m)' PROVE FALSE
  BY DEF Deserted
<1>1. OthersEffect(a) /\ RunEffect(a) /\ ~InRun(b, m)
  BY DEF Effects, Deserted
<1>2. CASE b # a
  <2>1. run'[b] # run[b]
    BY <1>1 DEF InRun
  <2>2. call[a].at = "emplace" /\ run'[b] = Entered(call[a].m)
    BY <1>1, <1>2, <2>1, EmptyFrames DEF OthersEffect, ThreadEffect, InRun
  <2> QED BY <2>2, EmptyFrames DEF InRun, NoneStarts, InSection
<1>3. CASE b = a
  BY <1>1, <1>3, EmptyFrames DEF RunEffect, InRun
<1> QED BY <1>2, <1>3

LEMMA NoneStartsKept ==
  ASSUME StructInv, NEW a \in Actors, Effects(a), NEW m \in Macros, NoneStarts(m),
         ~CanStart(macro[m]), macro[m].interruptor # INTERRUPT
  PROVE  NoneStarts(m)'
<1> SUFFICES ASSUME NEW b \in Actors, call'[b].at \in InSection, call'[b].m = m PROVE FALSE
  BY DEF NoneStarts
<1>1. CallEffect(a)
  BY DEF Effects
<1>2. CASE b # a
  BY <1>2, OtherCommands DEF NoneStarts, InSection
<1>3. CASE b = a
  <2>1. CASE MovesTo(a)
    <3>1. /\ Goes(call[a], call'[a], macro[call[a].m], macro'[call[a].m], a)
          /\ call[a].m = m
      BY <1>3, <2>1 DEF MovesTo
    <3>2. call[a].at \in InSection \/ CanStart(macro[m]) \/ macro[m].interruptor = INTERRUPT
      BY <1>3, <3>1 DEF Goes, InSection
    <3> QED BY <3>1, <3>2 DEF NoneStarts
  <2>2. CASE Begins(a)
    BY <1>3, <2>2, BegunCalls, EntryPlaces, EmptyFrames DEF InSection, OpNames, SignalNames
  <2>3. CASE Remains(a)
    BY <1>3, <2>3 DEF Remains, NoneStarts
  <2>4. ~Returns(a) /\ ~Restores(a)
    BY <1>3, EmptyFrames DEF Returns, Restores, InSection
  <2> QED BY <1>1, <2>1, <2>2, <2>3, <2>4 DEF CallEffect
<1> QED BY <1>2, <1>3

LEMMA ShutKept ==
  ASSUME CopyInv, NEW a \in Actors, Step(a), NEW m \in Macros, Shut(m), ~CanStart(macro[m])
  PROVE  Shut(m)'
<1>1. /\ FrameInv /\ StructInv /\ NoResetsNow
      /\ NoneStarts(m) /\ NoneGoing(m) /\ macro[m].interruptor # INTERRUPT
  BY DEF CopyInv, ObeyInv, StructInv, Shut, NoneInterrupts, Interrupting
<1>2. Effects(a) /\ CallEffect(a)
  BY <1>1, StepEffects DEF Effects
<1>3. NoneStarts(m)'
  BY <1>1, <1>2, NoneStartsKept
<1>4. CASE Deserted(m)
  BY <1>1, <1>2, <1>3, <1>4, DesertedKept, NoneGoingKept DEF Shut
<1>5. ASSUME NEW b \in Actors, call[b].at \in {"join", "erase"}, call[b].m = m
      PROVE  ClearingNow(m)' \/ Deserted(m)
  <2>1. CASE b # a
    <3>1. call'[b] = call[b]
      BY <1>1, <1>2, <1>5, <2>1, OtherCommands
    <3> QED BY <1>5, <3>1 DEF ClearingNow
  <2>2. CASE b = a /\ call[a].at = "join"
    <3>1. call'[a].at = "erase" /\ call'[a].m = m
      BY <1>2, <1>5, <2>2 DEF CallEffect, Remains, Returns, MovesTo, Goes, Restores, Begins
    <3> QED BY <3>1 DEF ClearingNow
  <2>3. CASE b = a /\ call[a].at = "erase"
    <3>1. CASE Erasable(a)
      BY <1>5, <2>3, <3>1, ErasedDeserted DEF Deserted
    <3>2. CASE UNCHANGED call
      BY <1>5, <3>2 DEF ClearingNow
    <3> QED BY <2>3, <3>1, <3>2, ErasingStep
  <2> QED BY <1>5, <2>1, <2>2, <2>3
<1>6. CASE ~Deserted(m)
  <2>1. PICK b \in Actors : call[b].at \in {"join", "erase"} /\ call[b].m = m
    BY <1>6 DEF Shut, ClearingNow
  <2>2. macro[m].interruptor = DISABLE
    BY <2>1 DEF CopyInv, CopiesDisabled, AfterDisable
  <2> QED BY <1>1, <1>3, <1>5, <1>6, <2>1, <2>2, NoneGoingKept DEF Shut
<1> QED BY <1>4, <1>6

LEMMA InvokeShut ==
  ASSUME NoSyncRun, CopyInv, NEW c \in Clients, Invoke(c), NEW m \in Macros, Shut(m)
  PROVE  Shut(m)'
<1>1. FrameInv
  BY DEF CopyInv, ObeyInv, StructInv
<1>2. PICK n \in Macros, o \in Ops[c] : InvokeEffect(c, n, o)
  BY <1>1, InvokeEffects
<1>3. o.name \in OpNames \ {"run"}
  BY InvokedNames DEF NoSyncRun
<1>4. /\ \A b \in Actors : run'[b] = run[b]
      /\ \A b \in Actors \ {c} : call'[b] = call[b]
      /\ call[c].at = "none"
  BY <1>2, <1>3 DEF InvokeEffect, CallsOfOthers, RunsOfOthers
<1>5. call'[c].at = EntryOf(o.name)
  BY <1>2, <1>3, EmptyFrames DEF InvokeEffect, EntryOf
<1>6. call'[c].at \notin InSection
  BY <1>3, <1>5, EntryPlaces DEF InSection
<1>7. NoneStarts(m)'
  BY <1>4, <1>6 DEF Shut, NoneStarts
<1>8. ClearingNow(m) => ClearingNow(m)'
  BY <1>4 DEF ClearingNow
<1>9. Deserted(m) => Deserted(m)'
  BY <1>4 DEF Deserted, InRun
<1>10. NoneGoing(m)'
  BY <1>4 DEF Shut, NoneGoing
<1> QED BY <1>7, <1>8, <1>9, <1>10 DEF Shut

(* What the count is short of changes only where somebody forgets the      *)
(* threads.                                                                *)
LEMMA JoinsShort ==
  ASSUME Base, NEW a \in Actors, NEW m \in Macros, NEW r \in MacroRecord,
         Joins(a, m, r), NEW o \in Macros, NEW d \in Nat, Short(o, d)
  PROVE  Short(o, d)'
<1> DEFINE f == [run[a] EXCEPT !.at = "consume"]
<1>0. /\ run' = [run EXCEPT ![a] = f] /\ Set(m, r) /\ TypeOK
      /\ run[a].at = "enter" /\ run[a].m = m
  BY DEF Joins, Counts, Base
<1>1. f.at = "consume" /\ f.m = m /\ run \in [Actors -> RunFrame]
  BY <1>0, InFrame DEF TypeOK, RunsOK, RunFrame
<1> HIDE DEF f
<1>2. \A b \in Actors : run'[b] = IF b = a THEN f ELSE run[b]
  BY <1>0, <1>1
<1>3. Counted(o)' = IF o = m THEN Counted(o) \cup {a} ELSE Counted(o)
  BY <1>0, <1>1, <1>2 DEF Counted
<1>4. macro'[o] = IF o = m THEN r ELSE macro[o]
  BY <1>0, AfterSet
<1>5. CASE o # m
  BY <1>3, <1>4, <1>5 DEF Short
<1>6. CASE o = m
  <2>1. a \notin Counted(m)
    BY <1>0 DEF Counted
  <2>2. /\ Cardinality(Counted(m) \cup {a}) = Cardinality(Counted(m)) + 1
        /\ Cardinality(Counted(m)) \in 0 .. Wrap - 1
        /\ Cardinality(Counted(m)) + 1 \in 0 .. Wrap - 1
    BY <2>1, FewCounted, FS_AddElement
  <2>3. macro[m].threadCount \in 0 .. Wrap - 1
    BY <1>0, MemberType DEF TypeOK, MacrosOK
  <2>4. r.threadCount = Incremented(macro[m].threadCount)
    BY DEF Joins
  <2>5. CASE macro[m].threadCount = Wrap - 1
    <3>1. r.threadCount = 0
      BY <2>4, <2>5, LimitsAssumption, Z3 DEF Incremented
    <3> QED BY <1>3, <1>4, <1>6, <2>2, <2>5, <3>1, LimitsAssumption DEF Short
  <2>6. CASE macro[m].threadCount # Wrap - 1
    <3>1. macro[m].threadCount + 1 \in 0 .. Wrap - 1
      BY <2>3, <2>6, LimitsAssumption
    <3>2. r.threadCount = macro[m].threadCount + 1
      BY <2>4, <3>1, SmallCount DEF Incremented
    <3> QED BY <1>3, <1>4, <1>6, <2>2, <2>3, <3>1, <3>2, LimitsAssumption DEF Short
  <2> QED BY <2>5, <2>6
<1> QED BY <1>5, <1>6

LEMMA QuitsShort ==
  ASSUME Base, NEW a \in Actors, NEW m \in Macros, NEW r \in MacroRecord,
         Quits(a, m, r), NEW o \in Macros, NEW d \in 0 .. Wrap - 1, Short(o, d)
  PROVE  Short(o, d)'
<1> DEFINE f == [run[a] EXCEPT !.at = "release"]
<1>0. /\ run' = [run EXCEPT ![a] = f] /\ Set(m, r) /\ TypeOK
      /\ run[a].at = "leave" /\ run[a].m = m
  BY DEF Quits, Counts, Base
<1>1. f.at = "release" /\ f.m = m /\ run \in [Actors -> RunFrame]
  BY <1>0, InFrame DEF TypeOK, RunsOK, RunFrame
<1> HIDE DEF f
<1>2. \A b \in Actors : run'[b] = IF b = a THEN f ELSE run[b]
  BY <1>0, <1>1
<1>3. Counted(o)' = IF o = m THEN Counted(o) \ {a} ELSE Counted(o)
  BY <1>0, <1>1, <1>2 DEF Counted
<1>4. macro'[o] = IF o = m THEN r ELSE macro[o]
  BY <1>0, AfterSet
<1>5. CASE o # m
  BY <1>3, <1>4, <1>5 DEF Short
<1>6. CASE o = m
  <2>1. a \in Counted(m)
    BY <1>0 DEF Counted
  <2>2. /\ Cardinality(Counted(m) \ {a}) = Cardinality(Counted(m)) - 1
        /\ Cardinality(Counted(m)) \in 0 .. Wrap - 1
        /\ Cardinality(Counted(m) \ {a}) \in Nat
    BY <2>1, FewCounted, FS_RemoveElement, FS_CardinalityType
  <2>3. macro[m].threadCount \in 0 .. Wrap - 1
    BY <1>0, MemberType DEF TypeOK, MacrosOK
  <2>4. r.threadCount = Decremented(macro[m].threadCount)
    BY DEF Quits
  <2>5. CASE macro[m].threadCount = 0
    <3>1. r.threadCount = Wrap - 1
      BY <2>4, <2>5, LimitsAssumption, Z3 DEF Decremented
    <3> QED BY <1>3, <1>4, <1>6, <2>2, <2>5, <3>1, LimitsAssumption DEF Short
  <2>6. CASE macro[m].threadCount # 0
    <3>1. macro[m].threadCount - 1 \in 0 .. Wrap - 1
      BY <2>3, <2>6, LimitsAssumption
    <3>2. r.threadCount = macro[m].threadCount - 1
      BY <2>4, <3>1, SmallCount DEF Decremented
    <3> QED BY <1>3, <1>4, <1>6, <2>2, <2>3, <3>1, <3>2, LimitsAssumption DEF Short
  <2> QED BY <2>5, <2>6
<1> QED BY <1>5, <1>6

LEMMA OtherShort ==
  ASSUME Base, NEW a \in Actors, NEW o \in Macros,
         Plains(a) \/ \E m \in Macros, r \in MacroRecord :
           Blocks(a, m, r) \/ Edits(a, m, r) \/ Ends(a, m, r)
  PROVE  macro'[o].threadCount = macro[o].threadCount /\ Counted(o)' = Counted(o)
<1>1. TypeOK /\ run \in [Actors -> RunFrame]
  BY DEF Base, TypeOK, RunsOK
<1>2. CASE Plains(a)
  <2>1. Counted(o)' = Counted(o)
    BY <1>2, AlikeCounted DEF Plains, Frames
  <2>2. CASE UNCHANGED macro
    BY <2>1, <2>2
  <2>3. ASSUME NEW m \in Macros, NEW r \in MacroRecord, Set(m, r), Plain(macro[m], r)
        PROVE  macro'[o].threadCount = macro[o].threadCount
    BY <1>1, <2>3, AfterSet DEF Plain
  <2> QED BY <1>2, <2>1, <2>2, <2>3 DEF Plains
<1>3. ASSUME NEW m \in Macros, NEW r \in MacroRecord, Blocks(a, m, r) \/ Edits(a, m, r)
      PROVE  macro'[o].threadCount = macro[o].threadCount /\ Counted(o)' = Counted(o)
  BY <1>1, <1>3, AfterSet, AlikeCounted DEF Blocks, Edits, Frames
<1>4. ASSUME NEW m \in Macros, NEW r \in MacroRecord, Ends(a, m, r)
      PROVE  macro'[o].threadCount = macro[o].threadCount /\ Counted(o)' = Counted(o)
  <2>1. PICK f \in RunFrame : f.at \in {"none", "gone"} /\ run' = [run EXCEPT ![a] = f]
    BY <1>4 DEF Ends
  <2>2. \A b \in Actors : run'[b] = IF b = a THEN f ELSE run[b]
    BY <1>1, <2>1
  <2>3. Counted(o)' = Counted(o)
    BY <1>4, <2>1, <2>2 DEF Ends, Counted
  <2> QED BY <1>1, <1>4, <2>3, AfterSet DEF Ends, Plain
<1> QED BY <1>2, <1>3, <1>4

(* Who forgets the threads of a macro holds its mutex, and clears it. *)
LEMMA ForgetsShort ==
  ASSUME CopyInv, UnsetAlone, NEW a \in Actors, NEW m \in Macros, NEW r \in MacroRecord, Forgets(a, m, r)
  PROVE  /\ \E d \in 0 .. Cardinality(Actors) : Short(m, d)' /\ Shut(m)'
         /\ \A o \in Macros \ {m} :
              macro'[o].threadCount = macro[o].threadCount /\ Counted(o)' = Counted(o)
<1>1. TypeOK /\ StructInv /\ Base /\ Set(m, r) /\ UNCHANGED run
  BY DEF CopyInv, PoolInv, PoolOK, ObeyInv, Base, Forgets
<1>2. \A o \in Macros : /\ macro'[o] = IF o = m THEN r ELSE macro[o]
                        /\ Counted(o)' = Counted(o)
  BY <1>1, AfterSet DEF Counted
<1>3. /\ call'[a].at = "join" /\ call'[a].m = m
      /\ \A b \in Actors \ {a} : call'[b] = call[b]
  <2>1. call \in [Actors -> CallFrame] /\ call[a].m = m
    BY <1>1 DEF TypeOK, CallsOK, Forgets
  <2> QED BY <2>1 DEF Forgets, Goto, CallFrame
<1>4. NoneStarts(m)'
  <2> SUFFICES ASSUME NEW b \in Actors, call'[b].at \in InSection, call'[b].m = m PROVE FALSE
    BY DEF NoneStarts
  <2>1. b # a /\ Holds(b, m)
    BY <1>3 DEF InSection, Holds
  <2> QED BY <1>1, <2>1, ActorsAssumption DEF StructInv, HeldOK, Forgets
<1>5. Shut(m)'
  <2>1. NoneGoing(m)'
    BY <1>1 DEF UnsetAlone, NoneGoing, Forgets
  <2> QED BY <1>3, <1>4, <2>1 DEF Shut, ClearingNow
<1>6. Cardinality(Counted(m)) \in 0 .. Cardinality(Actors)
  <2>1. Counted(m) \subseteq Actors
    BY DEF Counted
  <2>2. Cardinality(Counted(m)) <= Cardinality(Actors) /\ IsFiniteSet(Counted(m))
    BY <2>1, ActorsAssumption, FS_Subset
  <2> QED BY <2>2, ActorsAssumption, FS_CardinalityType
<1>7. Short(m, Cardinality(Counted(m)))'
  BY <1>2, <1>6 DEF Forgets, Short
<1> QED BY <1>2, <1>5, <1>6, <1>7

LEMMA ShortKept ==
  ASSUME CopyInv, UnsetAlone, RoomBelowZero, NEW a \in Actors, CountStep(a),
         NEW m \in Macros, NEW d \in 0 .. Cardinality(Actors), Short(m, d)
  PROVE  \/ Short(m, d)'
         \/ \E e \in 0 .. Cardinality(Actors) : Short(m, e)' /\ Shut(m)'
<1>1. Base /\ d \in Nat /\ d \in 0 .. Wrap - 1
  <2>1. Cardinality(Actors) \in Nat
    BY ActorsAssumption, FS_CardinalityType
  <2> QED BY <2>1, LimitsAssumption DEF RoomBelowZero, CopyInv, PoolInv, PoolOK, Base
<1>2. CASE \E o \in Macros, r \in MacroRecord : Joins(a, o, r) \/ Quits(a, o, r)
  BY <1>1, <1>2, JoinsShort, QuitsShort
<1>3. CASE \E o \in Macros, r \in MacroRecord : Forgets(a, o, r)
  BY <1>3, ForgetsShort DEF Short
<1>4. CASE Plains(a) \/ \E o \in Macros, r \in MacroRecord :
             Blocks(a, o, r) \/ Edits(a, o, r) \/ Ends(a, o, r)
  BY <1>1, <1>4, OtherShort DEF Short
<1> QED BY <1>2, <1>3, <1>4 DEF CountStep

LEMMA StepCounts ==
  ASSUME Base, NEW a \in Actors, Step(a)
  PROVE  CountStep(a)
BY StartCounts, SetInterruptorCounts, ClearCounts, SetterCounts, RunCounts DEF Step, CallStep

LEMMA ReckonedKept ==
  ASSUME NoSyncRun, RoomBelowZero, CopyInv, UnsetAlone, Reckoned, [Next]_vars
  PROVE  Reckoned'
<1> SUFFICES ASSUME NEW m \in Macros
             PROVE  \E d \in 0 .. Cardinality(Actors) : Short(m, d)' /\ (d # 0 => Shut(m)')
  BY DEF Reckoned
<1>1. PICK d \in 0 .. Cardinality(Actors) : Short(m, d) /\ (d # 0 => Shut(m))
  BY DEF Reckoned
<1>2. Base
  BY DEF CopyInv, PoolInv, PoolOK, Base
<1>3. ASSUME NEW a \in Actors, Step(a)
      PROVE  CountStep(a) /\ (d # 0 => Shut(m)')
  BY <1>1, <1>2, <1>3, StepCounts, ShutStarts, ShutKept
<1>4. ASSUME NEW c \in Clients, Invoke(c)
      PROVE  c \in Actors /\ CountStep(c) /\ (d # 0 => Shut(m)')
  BY <1>1, <1>2, <1>4, InvokeCounts, InvokeShut DEF Actors
<1>5. CASE UNCHANGED vars
  BY <1>1, <1>5 DEF vars, Short, Counted, Shut, NoneStarts, NoneGoing, ClearingNow, Deserted,
                    InRun
<1>6. CASE Next
  <2>1. PICK a \in Actors : CountStep(a) /\ (d # 0 => Shut(m)')
    BY <1>3, <1>4, <1>6 DEF Next
  <2> QED BY <1>1, <2>1, ShortKept
<1> QED BY <1>5, <1>6

(* Whose status is unset has seen a count of 0: nobody is counted, or the   *)
(* macro is shut.                                                           *)
LEMMA UnsettingStep ==
  ASSUME NEW a \in Actors, Step(a), call[a].at = "sticky", call'[a].at = "unset"
  PROVE  UNCHANGED run /\ macro[call[a].m].threadCount \notin Nat \ {0}
<1> USE DEF CallAt
<1>1. ~StartStep(a)
  BY DEF StartStep, StartLock, Resume, Reserve, IncQueuedTest, IncQueued, CheckQueued, Spawn,
         SpawnFails, LimitMaxThreads
<1>2. ~SetInterruptorStep(a)
  BY DEF SetInterruptorStep, ReadInterruptor, CompareInterruptor, WriteInterruptor,
         ApplyDispatch, DetachReset, DetachFails
<1>3. ~SetterStep(a)
  BY DEF SetterStep, SetSignals, SetThreadMax, SetSticky
<1>4. ~RunStep(a)
  BY DEF RunStep, Enter, ConsumeInterrupt, TestSignals, TestPause, TestPauseLoop,
         BlockInPause, TestStopped, TestIdle, TestQueued, DecQueued, ClampQueued,
         DispatchSignal, RunComplete, Release, NotifyThreadsChanged, RunAt
<1>5. ClearStep(a) => TestRunning(a)
  BY DEF ClearStep, ResetReads, Dequeue, Unregister, TestUnsetStatus, ForgetThreads,
         WaitThreadsChanged, JoinAll, EraseHandles, Restore, Assign
<1>6. TestRunning(a)
  BY <1>1, <1>2, <1>3, <1>4, <1>5 DEF Step, CallStep
<1>7. Goto(a, IF Running(CallR(a)) THEN "drainAgain" ELSE "unset") /\ UNCHANGED run
  BY <1>6 DEF TestRunning
<1>8. ~Running(CallR(a))
  BY <1>7, GotoIs DEF Goto
<1> QED BY <1>7, <1>8 DEF Running, CallR, CallM

LEMMA StepUnsetAlone ==
  ASSUME CopyInv, UnsetAlone, Reckoned, NEW a \in Actors, Step(a)
  PROVE  UnsetAlone'
<1> SUFFICES ASSUME NEW b \in Actors, call'[b].at \in {"unset", "forget"},
                    NEW t \in Actors, run'[t].m = call'[b].m, run'[t].at \in GoingOn
             PROVE  FALSE
  BY DEF UnsetAlone, NoneGoing
<1>1. /\ StructInv /\ FrameInv /\ TypeOK /\ Base
      /\ call[b].m \in Macros
  BY InFrame DEF CopyInv, ObeyInv, StructInv, FrameInv, CallM, PoolInv, PoolOK, Base
<1>2. Effects(a) /\ CallEffect(a)
  BY <1>1, StepEffects DEF Effects
<1>3. call'[b] = call[b] \/ (b = a /\ call'[a].m = call[a].m /\ call[a].at \in {"unset", "sticky"})
  <2>1. CASE b # a
    BY <1>1, <1>2, <2>1, OtherCommands
  <2>2. CASE b = a /\ MovesTo(a)
    BY <2>2 DEF MovesTo, Goes
  <2>3. CASE b = a /\ Begins(a)
    BY <2>3, BegunCalls, EntryPlaces, EmptyFrames DEF OpNames, SignalNames
  <2>4. CASE b = a /\ (Returns(a) \/ Restores(a) \/ Remains(a))
    BY <2>4, EmptyFrames DEF Returns, Restores, Remains
  <2> QED BY <1>2, <2>1, <2>2, <2>3, <2>4 DEF CallEffect
<1>4. call'[b].m = call[b].m /\ call[b].at \in {"unset", "forget", "sticky"}
  BY <1>3
<1> PICK m \in Macros : m = call[b].m
  BY <1>1
<1> SUFFICES NoneGoing(m)'
  BY <1>4 DEF NoneGoing
<1>5. CASE call[b].at # "sticky"
  <2>1. NoneGoing(m)
    BY <1>4, <1>5 DEF UnsetAlone
  <2>2. macro[m].interruptor = DISABLE
    BY <1>4 DEF CopyInv, CopiesDisabled, AfterDisable
  <2> QED BY <1>1, <2>1, <2>2, NoneGoingKept
<1>6. CASE call[b].at = "sticky"
  <2>1. b = a /\ call'[a].at = "unset"
    <3>1. b = a
      BY <1>3, <1>6
    <3>2. CASE MovesTo(a)
      BY <1>6, <3>1, <3>2 DEF MovesTo, Goes
    <3>3. ~MovesTo(a) => FALSE
      BY <1>2, <1>6, <3>1, EmptyFrames DEF CallEffect, Remains, Returns, Restores, Begins
    <3> QED BY <3>1, <3>2, <3>3
  <2>2. UNCHANGED run /\ macro[m].threadCount = 0
    <3>1. macro[m].threadCount \in 0 .. Wrap - 1
      BY <1>1, MemberType DEF TypeOK, MacrosOK
    <3> QED BY <1>6, <2>1, <3>1, UnsettingStep
  <2>3. PICK d \in 0 .. Cardinality(Actors) : Short(m, d) /\ (d # 0 => Shut(m))
    BY DEF Reckoned
  <2>4. CASE d # 0
    BY <2>2, <2>3, <2>4 DEF Shut, NoneGoing
  <2>5. CASE d = 0
    <3>1. /\ IsFiniteSet(Counted(m))
          /\ Cardinality(Counted(m)) \in 0 .. Wrap - 1
      BY <1>1, FewCounted
    <3>2. Cardinality(Counted(m)) = 0
      BY <2>2, <2>3, <2>5, <3>1, LimitsAssumption DEF Short
    <3>3. Counted(m) = {}
      BY <3>1, <3>2, FS_EmptySet
    <3>4. NoneGoing(m)
      BY <3>3 DEF Counted, NoneGoing, GoingOn
    <3> QED BY <2>2, <3>4 DEF NoneGoing
  <2> QED BY <2>4, <2>5
<1> QED BY <1>5, <1>6

LEMMA UnsetAloneKept ==
  ASSUME CopyInv, UnsetAlone, Reckoned, [Next]_vars
  PROVE  UnsetAlone'
<1>1. CASE UNCHANGED vars
  BY <1>1 DEF vars, UnsetAlone, NoneGoing
<1> QED BY <1>1, StepUnsetAlone, InvokeCopies DEF Next

LEMMA ReckonedInitially == Init => Reckoned
<1> SUFFICES ASSUME Init, NEW m \in Macros
             PROVE  \E d \in 0 .. Cardinality(Actors) : Short(m, d) /\ (d # 0 => Shut(m))
  BY DEF Reckoned
<1>1. CountInv
  BY CountInitially
<1>2. macro[m].threadCount = Cardinality(Counted(m))
  BY <1>1 DEF CountInv, ThreadCountExact
<1>3. Cardinality(Actors) \in Nat /\ Cardinality(Counted(m)) \in Int
  BY <1>1, FewCounted, ActorsAssumption, FS_CardinalityType DEF CountInv
<1>4. Short(m, 0) /\ 0 \in 0 .. Cardinality(Actors)
  BY <1>2, <1>3 DEF Short
<1> QED BY <1>4

(* Nobody edits the signals that are sent. *)
LEMMA SentUnedited ==
  ASSUME CopyInv, CountInv \/ Reckoned,
         NEW a \in Actors, NEW m \in Macros, NEW r \in MacroRecord, Edits(a, m, r), Sending(m)
  PROVE  FALSE
<1>1. call[a].m = m
  BY DEF Edits
<1>2. CASE call[a].at = "assign"
  BY <1>1, <1>2 DEF CopyInv, NoneSends, NoneGoing, GoingOn, Sending
<1>3. CASE call[a].at = "setSignals" /\ macro[m].threadCount = 0
  <2>1. Cardinality(Counted(m)) \in 1 .. Wrap - 1
    <3>1. Counted(m) # {}
      BY DEF Sending, Counted
    <3>2. IsFiniteSet(Counted(m)) /\ Cardinality(Counted(m)) \in 0 .. Wrap - 1
      BY FewCounted DEF CopyInv, PoolInv, PoolOK, Base
    <3> QED BY <3>1, <3>2, FS_EmptySet, LimitsAssumption
  <2>2. CASE CountInv
    BY <1>3, <2>1, <2>2 DEF CountInv, ThreadCountExact
  <2>3. CASE Reckoned
    <3>1. PICK d \in 0 .. Cardinality(Actors) : Short(m, d) /\ (d # 0 => Shut(m))
      BY <2>3 DEF Reckoned
    <3>2. d # 0
      BY <1>3, <2>1, <3>1, LimitsAssumption DEF Short
    <3> QED BY <3>1, <3>2 DEF Shut, NoneGoing, GoingOn, Sending
  <2> QED BY <2>2, <2>3
<1> QED BY <1>2, <1>3 DEF Edits

LEMMA UnsetInitially == Init => UnsetAlone
<1>1. Init => \A a \in Actors : call[a].at = "none"
  BY EmptyFrames DEF Init
<1> QED BY <1>1 DEF UnsetAlone

OutlastInv ==
  /\ CopyInv
  /\ Steady => CountInv
  /\ ~Steady => RoomBelowZero /\ Reckoned /\ UnsetAlone

-----------------------------------------------------------------------------
(* The signals a run is sending do not change under it, not even when       *)
(* copy() assigns the macro, in programs in which only threads run macros,  *)
(* one client commands, and nobody interrupts: copy() disables the macro,   *)
(* and whoever gets past the test of start() all the same finds it          *)
(* disabled.  An unset status may read as a timeout, which makes the count  *)
(* too small, if the count then has room below 0.                           *)
THEOREM SignalsOutlastCopies ==
  ASSUME NoSyncRun, NobodyInterrupts, OneCommander,
         Steady \/ RoomBelowZero
  PROVE  Spec => SignalsStable
<1> USE DEF Steady
<1> DEFINE Stable == \A m \in Macros : Sending(m) => macro'[m].signals = macro[m].signals
<1>1. Init => OutlastInv
  BY CopyInitially, CountInitially, ReckonedInitially, UnsetInitially DEF OutlastInv
<1>2. OutlastInv /\ [Next]_vars => OutlastInv'
  BY CopyKept, CountKept, ReckonedKept, UnsetAloneKept DEF OutlastInv, FewRuns
<1>3. ASSUME OutlastInv, [Next]_vars PROVE [Stable]_vars
  <2> SUFFICES ASSUME Next, NEW m \in Macros, Sending(m)
               PROVE  macro'[m].signals = macro[m].signals
    BY <1>3
  <2>1. Base /\ TypeOK /\ CopyInv /\ (CountInv \/ Reckoned)
    BY <1>3 DEF OutlastInv, CopyInv, PoolInv, PoolOK, Base
  <2>2. PICK a \in Actors : CountStep(a)
    BY <2>1, StepCounts, InvokeCounts DEF Next, Actors
  <2>3. ASSUME NEW o \in Macros, NEW r \in MacroRecord, Set(o, r),
               r.signals = macro[o].signals
        PROVE  macro'[m].signals = macro[m].signals
    BY <2>1, <2>3, AfterSet
  <2>4. ASSUME NEW o \in Macros, NEW r \in MacroRecord, Edits(a, o, r)
        PROVE  macro'[m].signals = macro[m].signals
    <3>1. o # m
      BY <2>1, <2>4, SentUnedited
    <3> QED BY <2>1, <2>4, <3>1, AfterSet DEF Edits
  <2>5. CASE Plains(a)
    BY <2>3, <2>5 DEF Plains, Plain
  <2>6. ASSUME NEW o \in Macros, NEW r \in MacroRecord,
               Blocks(a, o, r) \/ Joins(a, o, r) \/ Quits(a, o, r) \/ Ends(a, o, r)
                 \/ Forgets(a, o, r)
        PROVE  macro'[m].signals = macro[m].signals
    BY <2>3, <2>6 DEF Blocks, Joins, Quits, Counts, Ends, Plain, Forgets
  <2> QED BY <2>2, <2>4, <2>5, <2>6 DEF CountStep
<1> QED BY <1>1, <1>2, <1>3, PTL DEF Spec, SignalsStable

=============================================================================
