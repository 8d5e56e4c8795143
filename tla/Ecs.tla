--------------------------------- MODULE Ecs ---------------------------------
(***************************************************************************)
(* Entities, the component manager and the loops over EntitiesWith(),      *)
(* together: a client creates and destroys entities, assigns and removes   *)
(* components, and does all of it also in the bodies of loops.             *)
(*                                                                         *)
(* EntitiesWith() returns a collection, which keeps the smallest pool of   *)
(* the types asked for in soft remove mode for as long as it lives.  A     *)
(* loop over it passes over the slots whose owner's mask lacks one of the  *)
(* types.  Loops are nested as a rule, but collections may also be kept:   *)
(* then they are looped over again, side by side, and destroyed in any     *)
(* order.  Iterators do not disturb each other, so the last one of each    *)
(* collection stands for all.  Module EntityManager has the callbacks and  *)
(* the queue of free indexes that are left out here: NewEntity takes any   *)
(* index that is not in use, with the generation that comes next.          *)
(***************************************************************************)
EXTENDS ComponentManager

CONSTANTS CompTypes,    \* the component types
          MaxLoops,     \* bound: the collections at the same time
          Mistakes      \* the kinds of steps in Taints that may be taken

\* The index of the null id is never given to an entity.
ASSUME EcsAssumption ==
  /\ \A e \in Ids : e.index # NullId.index
  /\ MaxLoops \in Nat

VARIABLES entIndexToGen,  \* index -> generation, of the indexes used so far
          indexIsAlive,   \* index -> BOOLEAN
          loops,          \* the collections there are, each with its loop
          terminated,     \* whether an assertion, or a destructor that threw, has
                          \* stopped the program
          taint           \* history of the steps listed below

vars == <<compMgr, entIndexToGen, indexIsAlive, loops, terminated, taint>>

(***************************************************************************)
(* The steps recorded in taint.                                            *)
(*   "reassign"   Assign for an entity that already has the component      *)
(*   "staleId"    Assign by an id that is not a living entity's            *)
(*   "threw"      Assign threw, after it had set the mask                  *)
(*   "tailSwap"   the end of a loop swapped in a slot queued for removal   *)
(***************************************************************************)
Taints == {"reassign", "staleId", "threw", "tailSwap"}

Taint(kinds) ==
  /\ kinds \subseteq Mistakes
  /\ taint' = taint \cup kinds

Living == {e \in Ids :
             /\ e.index \in DOMAIN indexIsAlive
             /\ indexIsAlive[e.index]
             /\ e.gen = entIndexToGen[e.index]}

\* The ids of all the entities there have been.
Known == {e \in Ids :
            /\ e.index \in DOMAIN entIndexToGen
            /\ \/ e.gen < entIndexToGen[e.index]
               \/ e \in Living}

Matches(mask, e) == mask \subseteq entCompMasks[e.index]

\* The loops as they are after a step.  As history, a loop knows who had all
\* the components asked for when the collection was made and has kept them
\* since (kept), and whom it has visited.
StillKept(loop) ==
  [loop EXCEPT !.kept = {e \in @ : loop.mask \subseteq entCompMasks'[e.index]}]

LoopsGoOn ==
  /\ loops' = {StillKept(loop) : loop \in loops}
  /\ UNCHANGED terminated

-----------------------------------------------------------------------------

Init ==
  /\ CompMgrInit
  /\ entIndexToGen = [i \in {} |-> 0]
  /\ indexIsAlive = [i \in {} |-> FALSE]
  /\ loops = {}
  /\ terminated = FALSE
  /\ taint = {}

NextGen(i) == IF i \in DOMAIN entIndexToGen THEN entIndexToGen[i] ELSE 0

NewEntity(i) ==
  /\ ~terminated
  /\ i \in DOMAIN indexIsAlive => ~indexIsAlive[i]
  /\ [index |-> i, gen |-> NextGen(i)] \in Ids
  /\ entIndexToGen' = Put(entIndexToGen, i, NextGen(i))
  /\ indexIsAlive' = Put(indexIsAlive, i, TRUE)
  /\ entCompMasks' = IF i \in DOMAIN entCompMasks THEN entCompMasks
                                                  ELSE Put(entCompMasks, i, {})
  /\ UNCHANGED <<compTypeToCompIndex, componentPools, loops, terminated, taint>>

\* The mask of an index that is used again is asserted to be blank.  Where
\* assertions are compiled away the new entity takes over what it has.
NewEntityTraps(i) ==
  /\ ~terminated
  /\ i \in DOMAIN indexIsAlive
  /\ ~indexIsAlive[i]
  /\ entCompMasks[i] # {}
  /\ terminated' = TRUE
  /\ UNCHANGED <<compMgr, entIndexToGen, indexIsAlive, loops, taint>>

Register(c) ==
  /\ ~terminated
  /\ RegisterComponentType(c)
  /\ UNCHANGED <<entIndexToGen, indexIsAlive, loops, terminated, taint>>

AssignTaints(e, c) ==
  (IF Has(e, c) THEN {"reassign"} ELSE {})
    \cup (IF e \in Living THEN {} ELSE {"staleId"})

Assign(e, c) ==
  /\ ~terminated
  /\ Size(PoolOf(c)) < MaxSlots
  /\ \/ AssignMakes(e, c) /\ Taint(AssignTaints(e, c))
     \/ AssignThrows(e, c) /\ Taint(AssignTaints(e, c) \cup {"threw"})
     \/ AssignRefused(e, c) /\ UNCHANGED taint
  /\ LoopsGoOn
  /\ UNCHANGED <<entIndexToGen, indexIsAlive>>

RemoveComponent(e, c) ==
  /\ ~terminated
  /\ RemoveFromPool(e, c)
  /\ LoopsGoOn
  /\ UNCHANGED <<entIndexToGen, indexIsAlive, taint>>

RemoveAllComponents(e) ==
  /\ ~terminated
  /\ RemoveAll(e)
  /\ LoopsGoOn
  /\ UNCHANGED <<entIndexToGen, indexIsAlive, taint>>

Destroy(e) ==
  /\ ~terminated
  /\ e \in Living
  /\ ~RemoveAllThrows(e)
  /\ RemoveAll(e)
  /\ entIndexToGen' = [entIndexToGen EXCEPT ![e.index] = @ + 1]
  /\ indexIsAlive' = [indexIsAlive EXCEPT ![e.index] = FALSE]
  /\ LoopsGoOn
  /\ UNCHANGED taint

\* The exception of RemoveAll leaves Destroy before it has killed the entity.
DestroyThrows(e) ==
  /\ ~terminated
  /\ e \in Living
  /\ RemoveAllMayThrow(e)
  /\ RemoveAll(e)
  /\ LoopsGoOn
  /\ UNCHANGED <<entIndexToGen, indexIsAlive, taint>>

-----------------------------------------------------------------------------
(* Loops over EntitiesWith(). *)

\* A bug to compare with: the smallest pool of all, asked for or not.
SmallestOfAll(mask) ==
  CHOOSE n \in DOMAIN componentPools :
    \A k \in DOMAIN componentPools :
      Size(componentPools[n]) <= Size(componentPools[k])

\* The first of the smallest pools of the mask.
SmallestPool(mask) ==
  CHOOSE n \in mask :
    \A k \in mask \ {n} :
      \/ Size(componentPools[n]) < Size(componentPools[k])
      \/ Size(componentPools[n]) = Size(componentPools[k]) /\ n < k

\* A bug to compare with: two loops may share a pool.
PoolIsShared(n) == TRUE

PoolIsFree(n) == ~componentPools[n].softRemoveMode

\* CreateMask throws for a type it does not know or has no bit for, and
\* EntitiesWith for an empty mask; but it tests every number, also those of
\* types that were not asked for.
Searchable(types) ==
  /\ types # {}
  /\ \A c \in types : Registered(c)
  /\ AllHaveBits

\* A pool that another collection keeps makes EntitiesWith throw, too.
EntitiesWith(types) ==
  /\ ~terminated
  /\ Cardinality(loops) < MaxLoops
  /\ Searchable(types)
  /\ LET mask == {compTypeToCompIndex[c] : c \in types}
         n    == SmallestPool(mask)
     IN  /\ PoolIsFree(n)
         /\ componentPools' =
              [componentPools EXCEPT ![n] = EnableSoftRemove(@)]
         /\ loops' = loops \cup
              {[mask |-> mask, pool |-> n, pos |-> 0,
                end |-> Size(componentPools[n]),
                kept |-> {e \in Living : Matches(mask, e)}, visited |-> {}]}
  /\ UNCHANGED <<compTypeToCompIndex, entCompMasks, entIndexToGen,
                 indexIsAlive, terminated, taint>>

\* A bug to compare with: slots are not checked against the mask.
SlotsUnchecked(loop) ==
  (loop.pos .. loop.end - 1) \cap DOMAIN componentPools[loop.pool].components

\* The slots ahead of the loop whose owner has all the components.
SlotsToVisit(loop) ==
  {k \in (loop.pos .. loop.end - 1) \cap DOMAIN componentPools[loop.pool].components :
     Matches(loop.mask, EntityAt(componentPools[loop.pool], k))}

LoopBecomes(loop, next) == loops' = (loops \ {loop}) \cup {next}

\* begin() or operator++, and operator*.
Visit(loop) ==
  /\ ~terminated
  /\ SlotsToVisit(loop) # {}
  /\ LET k == CHOOSE j \in SlotsToVisit(loop) :
                \A l \in SlotsToVisit(loop) : j <= l
     IN  LoopBecomes(loop,
           [loop EXCEPT !.pos = k + 1,
                        !.visited = @ \cup {EntityAt(componentPools[loop.pool], k)}])
  /\ UNCHANGED <<compMgr, entIndexToGen, indexIsAlive, terminated, taint>>

\* The loop comes to a slot that the vector does not have: entityAt asserts.
VisitTraps(loop) ==
  /\ ~terminated
  /\ SlotsToVisit(loop) = {}
  /\ \E k \in loop.pos .. loop.end - 1 :
       k \notin DOMAIN componentPools[loop.pool].components
  /\ terminated' = TRUE
  /\ UNCHANGED <<compMgr, entIndexToGen, indexIsAlive, loops, taint>>

\* The collection is looped over again.
LoopAgain(loop) ==
  /\ ~terminated
  /\ LoopBecomes(loop, [loop EXCEPT !.pos = 0, !.visited = {}])
  /\ UNCHANGED <<compMgr, entIndexToGen, indexIsAlive, terminated, taint>>

\* The pool after n rounds of the loop in toggleSoftRemove(false).
AfterRounds(p, n) ==
  LET after[k \in 0 .. n] == IF k = 0 THEN p ELSE DrainOne(after[k - 1])
  IN  after[n]

\* The collection is destroyed, at any point of its loop, and its lock with it.
EndLoop(loop) ==
  /\ ~terminated
  /\ LET p      == componentPools[loop.pool]
         rounds == Len(p.softRemoveCompIndexes)
         Before == {AfterRounds(p, r) : r \in 0 .. rounds - 1}
     IN  /\ componentPools' = [componentPools EXCEPT
              ![loop.pool] = DisableSoftRemove(AfterRounds(p, rounds))]
         /\ terminated' =
              \E q \in Before : SwapThrows(q, Head(q.softRemoveCompIndexes))
         /\ taint' = taint \cup
              (IF \E q \in Before : TailSwap(q) THEN {"tailSwap"} ELSE {})
  /\ loops' = loops \ {loop}
  /\ UNCHANGED <<compTypeToCompIndex, entCompMasks, entIndexToGen,
                 indexIsAlive>>

-----------------------------------------------------------------------------

Next ==
  \/ \E e \in Ids : NewEntity(e.index) \/ NewEntityTraps(e.index)
  \/ \E c \in CompTypes : Register(c)
  \/ \E e \in Known, c \in CompTypes : Assign(e, c) \/ RemoveComponent(e, c)
  \/ \E e \in Known : RemoveAllComponents(e) \/ Destroy(e) \/ DestroyThrows(e)
  \/ \E types \in SUBSET CompTypes : EntitiesWith(types)
  \/ \E loop \in loops :
       Visit(loop) \/ VisitTraps(loop) \/ LoopAgain(loop) \/ EndLoop(loop)

Spec == Init /\ [][Next]_vars

-----------------------------------------------------------------------------
(* Type. *)

Numbers == DOMAIN componentPools

LoopType(loop) ==
  /\ loop.mask \subseteq Numbers
  /\ loop.pool \in Numbers
  /\ loop.pos \in 0 .. loop.end
  /\ loop.end <= Size(componentPools[loop.pool])
  /\ loop.kept \cup loop.visited \subseteq Ids

(***************************************************************************)
(* Types are numbered in the order they are registered, once each; masks   *)
(* hold numbers that have a pool, and no loop leaves its pool.             *)
(***************************************************************************)
TypeOK ==
  /\ Numbers = 0 .. ComponentTypeCount - 1
  /\ DOMAIN compTypeToCompIndex \subseteq CompTypes
  /\ {compTypeToCompIndex[c] : c \in DOMAIN compTypeToCompIndex} = Numbers
  /\ Cardinality(DOMAIN compTypeToCompIndex) = ComponentTypeCount
  /\ DOMAIN entIndexToGen \subseteq {e.index : e \in Ids}
  /\ DOMAIN indexIsAlive = DOMAIN entIndexToGen
  /\ DOMAIN entCompMasks = DOMAIN entIndexToGen \cup {NullId.index}
  /\ \A i \in DOMAIN entCompMasks :
       entCompMasks[i] \subseteq {n \in Numbers : HasBit(n)}
  /\ \A loop \in loops : LoopType(loop)
  /\ taint \subseteq Taints

-----------------------------------------------------------------------------
(* Safety. *)

Untainted(kinds) == taint \cap kinds = {}

(***************************************************************************)
(* The masks and the pools agree: a bit is set exactly if the pool has a   *)
(* component for the index, so that neither Remove nor Destroy throws, and *)
(* no Handle points nowhere.  Loops that lose track of a component do not  *)
(* disturb it.                                                             *)
(***************************************************************************)
MasksMatchPools ==
  Untainted({"reassign", "threw"}) =>
    \A n \in Numbers, i \in DOMAIN entCompMasks :
      n \in entCompMasks[i] <=> HasComponent(componentPools[n], [index |-> i])

(***************************************************************************)
(* A handle of a living entity's component finds this component, also in   *)
(* loops and after swaps.  One kept after the component was removed or the *)
(* entity destroyed finds none, or that of the living entity that has been *)
(* given the index since: never one that was left behind.                  *)
(***************************************************************************)
HandlesFindOwn ==
  taint = {} =>
    \A e \in Known, c \in DOMAIN compTypeToCompIndex :
      /\ HandleFinds(e, c) =>
           HandleOwner(e, c) \in {f \in Living : f.index = e.index}
      /\ e \in Living /\ Has(e, c) => HandleFinds(e, c)

(***************************************************************************)
(* A pool is in soft remove mode exactly while one loop goes over it, and  *)
(* nothing waits in its queue otherwise: nested loops, and loops ended by  *)
(* exceptions, neither share a lock nor leave one behind.                  *)
(***************************************************************************)
LocksMatchLoops ==
  /\ \A n \in Numbers :
       componentPools[n].softRemoveMode <=> \E loop \in loops : loop.pool = n
  /\ \A one, other \in loops : one.pool = other.pool => one = other
  /\ \A n \in Numbers :
       ~componentPools[n].softRemoveMode /\ ~terminated =>
         componentPools[n].softRemoveCompIndexes = << >>

(***************************************************************************)
(* A loop visits only entities in the system, each once, whatever its body *)
(* and the loops around it destroyed, created or recycled.                 *)
(***************************************************************************)
VisitsLivingOnce ==
  Untainted({"reassign", "threw", "staleId"}) =>
    \A loop \in loops : \A k \in SlotsToVisit(loop) :
      LET e == EntityAt(componentPools[loop.pool], k)
      IN  e \in Living /\ e \notin loop.visited

(***************************************************************************)
(* A loop that has run to its end has visited every entity that had all    *)
(* the components when it began and kept them, whichever of the pools it   *)
(* went over.                                                              *)
(***************************************************************************)
LoopVisitsAll ==
  taint = {} =>
    \A loop \in loops :
      SlotsToVisit(loop) = {} => loop.kept \subseteq loop.visited

(***************************************************************************)
(* Destroy does what it says, "Remove the given entity from the ECS"       *)
(* (EntityManager.hh:75): for an entity in the system it does not throw.   *)
(***************************************************************************)
DestroyRemoves ==
  Untainted({"reassign", "staleId"}) /\ ~terminated =>
    \A e \in Living : ~RemoveAllThrows(e)

(***************************************************************************)
(* A type that is registered can be searched for, "operations to search    *)
(* for entities with this component ... will not fail with an exception"   *)
(* (EntityManager.hh:130).                                                 *)
(***************************************************************************)
RegisteredAreSearchable ==
  \A c \in CompTypes : Registered(c) => Searchable({c})
=============================================================================
