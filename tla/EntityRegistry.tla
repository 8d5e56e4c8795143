--------------------------- MODULE EntityRegistry ---------------------------
(***************************************************************************)
(* What NewEntity and Destroy promise, with no indexes, generations or     *)
(* queue: every entity gets an id that none had before it, and is alive    *)
(* until it is destroyed.                                                  *)
(***************************************************************************)
CONSTANT Ids

VARIABLES used,   \* the ids given out so far
          alive   \* those whose entity is in the system

vars == <<used, alive>>

Init ==
  /\ used = {}
  /\ alive = {}

Create(e) ==
  /\ e \in Ids \ used
  /\ used' = used \cup {e}
  /\ alive' = alive \cup {e}

Kill(e) ==
  /\ e \in alive
  /\ alive' = alive \ {e}
  /\ UNCHANGED used

Next == \E e \in Ids : Create(e) \/ Kill(e)

Spec == Init /\ [][Next]_vars
=============================================================================
