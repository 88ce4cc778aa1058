------------------------------ MODULE MCMacro ------------------------------
(***************************************************************************)
(* Small instances of MacroThreads: what the two clients call, the arrays  *)
(* of signals and the states of a macro, for the configurations to choose. *)
(***************************************************************************)
EXTENDS MacroThreads, TLC

CONSTANTS c1, c2

Op(name, val) == [name |-> name, val |-> val]
Interruptors(S) == {Op("setInterruptor", i) : i \in S}
TwoClients(A, B) == (c1 :> A) @@ (c2 :> B)
Starts == {Op("start", 0)}

\* One client is the source of events, the other controls the macro.
BothStart      == TwoClients(Starts, Starts)
StartControl   == TwoClients(Starts, Interruptors({CONTINUE, PAUSE, DISABLE, 5})
                    \cup {Op("setThreadMax", n) : n \in 0 .. 2}
                    \cup {Op("setSignals", n) : n \in 1 .. 2} \cup {Op("setSticky", 1)}
                    \cup {Op("copy", n) : n \in 1 .. 2})
StartAll       == TwoClients(Starts, Interruptors({INTERRUPT_ALL}))
StartDestroy   == TwoClients(Starts, {Op("destroy", 0)} \cup Interruptors({CONTINUE, INTERRUPT}))
StartRunPause  == TwoClients(Starts, {Op("run", 0)} \cup Interruptors({CONTINUE, PAUSE, DISABLE}))

StartInterrupt   == TwoClients(Starts, Interruptors({CONTINUE, INTERRUPT, DISABLE}))
StartAllContinue == TwoClients(Starts, Interruptors({CONTINUE, INTERRUPT_ALL}))
PauseDestroy     == TwoClients(Starts, {Op("destroy", 0)} \cup Interruptors({CONTINUE, PAUSE}))

\* No signals, an ordinary one, and signals that call the macro that sends them.
Lists == << <<>>,
            << Op("send", 0) >>,
            << Op("start", 0), Op("setInterruptor", INTERRUPT), Op("setSignals", 1) >>,
            << Op("setInterruptor", INTERRUPT_ALL) >> >>

\* No signal calls the macro that sends it.
PlainLists == SubSeq(Lists, 1, 2)

Setup(interruptor, sticky, threadMax, signals) ==
  [interruptor |-> interruptor, sticky |-> sticky, threadMax |-> threadMax,
   signals |-> signals]
MacroSetups == << Setup(CONTINUE, FALSE, 2, 2),
                  Setup(DISABLE, FALSE, 1, 1),
                  Setup(CONTINUE, FALSE, 1, 2),
                  Setup(CONTINUE, TRUE, 1, 2),
                  Setup(CONTINUE, FALSE, 1, 3),
                  Setup(CONTINUE, FALSE, 1, 4) >>
PlainSetups == SubSeq(MacroSetups, 1, 4)

Plain      == {1}
OneThread  == {3}
StickyOrOff == {2, 4}
SelfCalling == {5, 6}

AnyStatus == {"timeout", "no_timeout"}
NoTimeout == {"no_timeout"}

ThreadSymmetry == Permutations(Threads)
=============================================================================
