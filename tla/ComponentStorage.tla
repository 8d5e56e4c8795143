-------------------------- MODULE ComponentStorage --------------------------
(***************************************************************************)
(* ComponentPool<CompType>: the storage of the components of one type, as  *)
(* a record with the members of the class and one operator per method.     *)
(*                                                                         *)
(* An entity's id is a record of its index and generation (module EntityId *)
(* has the packing).  The vector of components is a function on 0 .. n-1,  *)
(* and the size_t value -1 ("no slot") is the integer -1.                  *)
(***************************************************************************)
EXTENDS Integers, Sequences, FiniteSets

CONSTANTS Ids,       \* the ids of the entities that are given components
          Values,    \* the values of a component
          MaxSlots   \* bound: slots of a pool ever in use at the same time

ASSUME StorageAssumption ==
  /\ Ids \subseteq [index : Nat, gen : Nat]
  /\ MaxSlots \in Nat

NullId == [index |-> 0, gen |-> 0]
INVALID_COMP_INDEX == -1

\* operator[]= of a map, and assignment to or emplace_back on a vector.
Put(f, x, y) == [z \in DOMAIN f \cup {x} |-> IF z = x THEN y ELSE f[z]]

EmptyPool ==
  [ components          |-> [k \in {} |-> NullId],
    lastCompIndex       |-> -1,
    entIndexToCompIndex |-> [i \in {} |-> INVALID_COMP_INDEX],
    softRemoveMode      |-> FALSE,
    softRemoveCompIndexes |-> << >> ]

-----------------------------------------------------------------------------
(* Observers. *)

Size(p) == p.lastCompIndex + 1

\* The slots in use; those of p.components beyond them wait for reuse.
Slots(p) == 0 .. p.lastCompIndex

EntityAt(p, k) == p.components[k].first

\* Keyed by the index alone: every generation of an index answers the same.
HasComponent(p, e) ==
  /\ e.index \in DOMAIN p.entIndexToCompIndex
  /\ p.entIndexToCompIndex[e.index] # INVALID_COMP_INDEX

SlotOf(p, e) == p.entIndexToCompIndex[e.index]

\* The indexes that have a component.
Mapped(p) ==
  {i \in DOMAIN p.entIndexToCompIndex :
     p.entIndexToCompIndex[i] # INVALID_COMP_INDEX}

Queued(p) == {p.softRemoveCompIndexes[n] : n \in DOMAIN p.softRemoveCompIndexes}

\* The last slot, about to be swapped into the head of the queue, is itself
\* still queued behind it.
TailSwap(p) ==
  /\ Head(p.softRemoveCompIndexes) # p.lastCompIndex
  /\ p.lastCompIndex \in
       Queued([p EXCEPT !.softRemoveCompIndexes = Tail(@)])

-----------------------------------------------------------------------------
(* Mutators. *)

\* A bug to compare with: e is mapped to the slot after its own.
NewComponentMapsNext(p, e, v) ==
  LET k == p.lastCompIndex + 1
  IN  [p EXCEPT !.lastCompIndex = k,
                !.components = Put(@, k, [first |-> e, second |-> v]),
                !.entIndexToCompIndex = Put(@, e.index, k + 1)]

\* Nothing asks whether e already has a component.
NewComponent(p, e, v) ==
  LET k == p.lastCompIndex + 1
  IN  [p EXCEPT !.lastCompIndex = k,
                !.components = Put(@, k, [first |-> e, second |-> v]),
                !.entIndexToCompIndex = Put(@, e.index, k)]

\* NewComponent without room in the vector for its slot, or whose component's
\* constructor throws: the counter has been advanced, and nothing else done.
HasRoom(p) == p.lastCompIndex + 1 \in 0 .. Cardinality(DOMAIN p.components)
NewComponentThrows(p) == [p EXCEPT !.lastCompIndex = @ + 1]

WriteComponent(p, e, v) == [p EXCEPT !.components[SlotOf(p, e)].second = v]

\* A bug to compare with: the entity swapped in is not remapped.
NotRemapped(p, i, k) == p.entIndexToCompIndex

\* The map once index i has its component in slot k, if it knows the index.
Remapped(p, i, k) ==
  IF i \in DOMAIN p.entIndexToCompIndex
    THEN [p.entIndexToCompIndex EXCEPT ![i] = k] ELSE p.entIndexToCompIndex

\* remove(k) reads the last slot, and throws if the vector has no such slot.
SwapThrows(p, k) ==
  k # p.lastCompIndex /\ p.lastCompIndex \notin DOMAIN p.components

\* remove(k): swap slot k with the last one and give up the last one.
SwapOut(p, k) ==
  LET last  == p.lastCompIndex
      moved == p.components[last]
      i     == moved.first.index
  IN  CASE SwapThrows(p, k) -> p
        [] k = last         -> [p EXCEPT !.lastCompIndex = last - 1]
        [] OTHER            ->
             [p EXCEPT !.components[last] = p.components[k],
                       !.components[k] = moved,
                       !.entIndexToCompIndex = Remapped(p, i, k),
                       !.lastCompIndex = last - 1]

\* Bugs to compare with: the slot keeps its owner; the slot is not queued.
SoftRemoveKeepsOwner(p, k) == [p EXCEPT !.softRemoveCompIndexes = Append(@, k)]
SoftRemoveUnqueued(p, k) == [p EXCEPT !.components[k].first = NullId]

SoftRemove(p, k) ==
  [p EXCEPT !.components[k].first = NullId,
            !.softRemoveCompIndexes = Append(@, k)]

\* Bugs to compare with: the mode is ignored; the entity stays mapped.
RemoveAtOnce(p, e) ==
  SwapOut([p EXCEPT !.entIndexToCompIndex[e.index] = INVALID_COMP_INDEX],
          SlotOf(p, e))
RemoveKeepsMapping(p, e) ==
  IF p.softRemoveMode THEN SoftRemove(p, SlotOf(p, e))
                      ELSE SwapOut(p, SlotOf(p, e))

\* Remove(e) for an e that has a component; for any other it throws.
Remove(p, e) ==
  LET unmapped == [p EXCEPT !.entIndexToCompIndex[e.index] = INVALID_COMP_INDEX]
  IN  IF p.softRemoveMode THEN SoftRemove(unmapped, SlotOf(p, e))
                          ELSE SwapOut(unmapped, SlotOf(p, e))

\* Remove(e) throws, after or before it has unmapped e.
RemoveThrows(p, e) ==
  \/ ~HasComponent(p, e)
  \/ ~p.softRemoveMode /\ SwapThrows(p, SlotOf(p, e))

\* What a call of Remove(e) leaves, whether or not it throws.
AfterRemove(p, e) == IF HasComponent(p, e) THEN Remove(p, e) ELSE p

\* One round of the loop that empties the queue when iteration ends.
DrainOne(p) ==
  SwapOut([p EXCEPT !.softRemoveCompIndexes = Tail(@)],
          Head(p.softRemoveCompIndexes))

\* A bug to compare with: the mode is never left.
StaysSoft(p) == p

\* toggleSoftRemove(true) for a pool that is not in soft remove mode, and the
\* assignment that ends toggleSoftRemove(false).
EnableSoftRemove(p) == [p EXCEPT !.softRemoveMode = TRUE]
DisableSoftRemove(p) == [p EXCEPT !.softRemoveMode = FALSE]

-----------------------------------------------------------------------------
(* The types of the members, and what they say of each other in good order. *)

SlotNumbers == 0 .. MaxSlots - 1

Component == [first : Ids \cup {NullId}, second : Values]

PoolRecord ==
  [ components : UNION {[0 .. n - 1 -> Component] : n \in 0 .. MaxSlots},
    lastCompIndex : {-1} \cup SlotNumbers,
    entIndexToCompIndex :
      UNION {[D -> {INVALID_COMP_INDEX} \cup SlotNumbers] :
               D \in SUBSET {e.index : e \in Ids}},
    softRemoveMode : BOOLEAN,
    softRemoveCompIndexes : Seq(SlotNumbers) ]

PoolType(p) ==
  /\ p \in PoolRecord
  /\ Slots(p) \subseteq DOMAIN p.components
  /\ \A i \in Mapped(p) : p.entIndexToCompIndex[i] \in DOMAIN p.components
  /\ Queued(p) \subseteq DOMAIN p.components

\* The map leads back to slot k from its owner, if it has one.
OwnerMapped(p, k) ==
  LET e == EntityAt(p, k)
  IN  e # NullId => HasComponent(p, e) /\ SlotOf(p, e) = k

\* Every mapped index leads to a slot in use that it owns.
MappedInUse(p) ==
  \A i \in Mapped(p) :
    LET k == p.entIndexToCompIndex[i]
    IN  k \in Slots(p) /\ EntityAt(p, k).index = i

\* The slots owned by the null entity are the queued ones, each queued once.
QueueIsHoles(p) ==
  LET q == p.softRemoveCompIndexes
  IN  /\ Queued(p) = {k \in Slots(p) : EntityAt(p, k) = NullId}
      /\ \A m, n \in DOMAIN q : q[m] = q[n] => m = n
=============================================================================
