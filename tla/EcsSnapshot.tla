---------------------------- MODULE EcsSnapshot ----------------------------
(***************************************************************************)
(* Ecs with a history variable: for each collection, by the pool it keeps, *)
(* the entities that had all the components when it was made.              *)
(***************************************************************************)
EXTENDS Ecs

VARIABLE first

SnapshotInit == Init /\ first = [n \in {} |-> {}]

SnapshotNext ==
  /\ Next
  /\ first' = [n \in {loop.pool : loop \in loops'} |->
                 IF n \in DOMAIN first
                   THEN first[n]
                   ELSE UNION {loop.kept : loop \in {l \in loops' : l.pool = n}}]

SnapshotSpec == SnapshotInit /\ [][SnapshotNext]_<<vars, first>>

(***************************************************************************)
(* "The entities iterated over are a snapshot of what was in the system    *)
(* when this method was called" (EntityManager.hh:163).                    *)
(***************************************************************************)
LoopIsSnapshot ==
  taint = {} => \A loop \in loops : loop.visited \subseteq first[loop.pool]
=============================================================================
