----------------------------- MODULE ThreadPool -----------------------------
(***************************************************************************)
(* What libmacro promises of its threads: all the macros together never    *)
(* have more than Limit of them (Libmacro::setGlobalThreadLimit(), and     *)
(* MCR_THREAD_MAX of src/mcr/defines.h).  A requester first reserves a     *)
(* place, then spawns a worker in it or gives it back.  MacroThreads       *)
(* implements this module.                                                 *)
(***************************************************************************)
EXTENDS Integers, FiniteSets

CONSTANTS Requesters, Workers, Limit

VARIABLES
  reserved,   \* the requesters with a place reserved
  live        \* the workers there are

TypeOK == reserved \subseteq Requesters /\ live \subseteq Workers

Places == Cardinality(live) + Cardinality(reserved)

Init == reserved = {} /\ live = {}

Reserve(r) ==
  /\ r \notin reserved
  /\ Places < Limit
  /\ reserved' = reserved \cup {r}
  /\ UNCHANGED live

Cancel(r) ==
  /\ r \in reserved
  /\ reserved' = reserved \ {r}
  /\ UNCHANGED live

Spawn(r, w) ==
  /\ r \in reserved
  /\ w \notin live
  /\ reserved' = reserved \ {r}
  /\ live' = live \cup {w}

End(w) ==
  /\ w \in live
  /\ live' = live \ {w}
  /\ UNCHANGED reserved

Next ==
  \/ \E r \in Requesters : Reserve(r) \/ Cancel(r) \/ \E w \in Workers : Spawn(r, w)
  \/ \E w \in Workers : End(w)

Spec == Init /\ [][Next]_<<reserved, live>>
=============================================================================
