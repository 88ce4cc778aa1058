---------------------------- MODULE LatestContext ----------------------------
(***************************************************************************)
(* What Libmacro::instance() promises (src/mcr/libmacro.h): "the last      *)
(* created Libmacro module", or an error while there is none.  Contexts    *)
(* come and go in any order; of those that live each is older than those   *)
(* made after it.                                                          *)
(***************************************************************************)
CONSTANTS Contexts, None

VARIABLES
  living,     \* the contexts there are
  older,      \* pairs of them, the older first
  latest      \* what instance() last returned; None if it threw
vars == <<living, older, latest>>

Init == living = {} /\ older = {} /\ latest = None

Begin(c) ==
  /\ c \notin living
  /\ living' = living \cup {c}
  /\ older' = older \cup (living \X {c})
  /\ UNCHANGED latest

End(c) ==
  /\ c \in living
  /\ living' = living \ {c}
  /\ older' = {p \in older : c \notin {p[1], p[2]}}
  /\ UNCHANGED latest

Youngest(c) == c \in living /\ \A d \in living \ {c} : <<d, c>> \in older

Ask ==
  /\ \/ living = {} /\ latest' = None
     \/ \E c \in living : Youngest(c) /\ latest' = c
  /\ UNCHANGED <<living, older>>

Next == Ask \/ \E c \in Contexts : Begin(c) \/ End(c)

Spec == Init /\ [][Next]_vars
=============================================================================
