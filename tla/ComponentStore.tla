--------------------------- MODULE ComponentStore ---------------------------
(***************************************************************************)
(* What a component pool promises, with no slots, swaps or queues: a map   *)
(* from an entity's index to its component, and at most one iteration,     *)
(* which visits, in any order and each once, the entities that held a      *)
(* component when it began and have kept it.  It may stop early.           *)
(***************************************************************************)
CONSTANTS Ids, Values

VARIABLES store,  \* index -> its owner's id and the component's value
          open,   \* whether an iteration is under way
          todo    \* the entities it has still to visit

vars == <<store, open, todo>>

Init ==
  /\ store = [i \in {} |-> [id |-> {}, value |-> {}]]
  /\ open = FALSE
  /\ todo = {}

Add(e, v) ==
  /\ e.index \notin DOMAIN store
  /\ store' = [i \in DOMAIN store \cup {e.index} |->
                 IF i = e.index THEN [id |-> e, value |-> v] ELSE store[i]]
  /\ UNCHANGED <<open, todo>>

Write(i, v) ==
  /\ i \in DOMAIN store
  /\ store' = [store EXCEPT ![i].value = v]
  /\ UNCHANGED <<open, todo>>

Delete(i) ==
  /\ i \in DOMAIN store
  /\ store' = [j \in DOMAIN store \ {i} |-> store[j]]
  /\ todo' = {e \in todo : e.index # i}
  /\ UNCHANGED open

Begin ==
  /\ ~open
  /\ open' = TRUE
  /\ todo' = {store[i].id : i \in DOMAIN store}
  /\ UNCHANGED store

Visit(e) ==
  /\ e \in todo
  /\ todo' = todo \ {e}
  /\ UNCHANGED <<store, open>>

End ==
  /\ open
  /\ open' = FALSE
  /\ todo' = {}
  /\ UNCHANGED store

Next ==
  \/ \E e \in Ids, v \in Values : Add(e, v) \/ Write(e.index, v)
  \/ \E e \in Ids : Delete(e.index) \/ Visit(e)
  \/ Begin
  \/ End

Spec == Init /\ [][Next]_vars
=============================================================================
