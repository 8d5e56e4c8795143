------------------------- MODULE ComponentPoolProofs -------------------------
(***************************************************************************)
(* Proofs about a component pool, for every set of ids and values and      *)
(* every bound on the slots: its type and iterator, the owners of its      *)
(* slots, the holes that soft removal leaves and how many they are, and    *)
(* whom its iterations visit.                                              *)
(***************************************************************************)
EXTENDS ComponentPool, ComponentStorageProofs

-----------------------------------------------------------------------------
(* Type correctness and the bounds of the iterator. *)

\* What the constructor, the lock and its destructor keep of the queue.
QueueWaits ==
  /\ ~pool.softRemoveMode => pool.softRemoveCompIndexes = << >>
  /\ control = "drain" => pool.softRemoveMode

TypeInv == TypeOK /\ IterationInBounds /\ QueueWaits

LEMMA TypeInvInit == Init => TypeInv
<1> SUFFICES ASSUME Init PROVE TypeInv
  OBVIOUS
<1>1. pool = EmptyPool /\ control = "client" /\ iter = NoIteration /\ taint = {}
  BY DEF Init
<1>2. /\ EmptyPool.lastCompIndex = -1
      /\ EmptyPool.softRemoveMode = FALSE
      /\ EmptyPool.softRemoveCompIndexes = << >>
  BY DEF EmptyPool
<1>7. PoolType(EmptyPool)
  BY EmptyPoolSound DEF Sound
<1>8. IterType(NoIteration)
  BY DEF IterType, NoIteration
<1> QED
  BY <1>1, <1>2, <1>7, <1>8
  DEF TypeInv, TypeOK, IterationInBounds, Iterating, QueueWaits, Taints

LEMMA TypeInvNext == TypeInv /\ [Next]_vars => TypeInv'
<1> SUFFICES ASSUME TypeInv, [Next]_vars PROVE TypeInv'
  OBVIOUS
<1>0. /\ PoolType(pool)
      /\ control \in {"client", "drain", "terminated"}
      /\ IterType(iter)
      /\ taint \subseteq Taints
      /\ IterationInBounds
      /\ QueueWaits
  BY DEF TypeInv, TypeOK
<1>1. CASE UNCHANGED vars
  <2>1. pool' = pool /\ control' = control /\ iter' = iter /\ taint' = taint
    BY <1>1 DEF vars
  <2> QED
    BY <1>0, <2>1
    DEF TypeInv, TypeOK, IterationInBounds, Iterating, QueueWaits, Size
<1>2. ASSUME NEW e \in Ids, NEW v \in Values, Assign(e, v) PROVE TypeInv'
  <2>1. /\ PoolType(pool')
        /\ pool'.lastCompIndex = pool.lastCompIndex + 1
        /\ pool'.softRemoveMode = pool.softRemoveMode
        /\ pool'.softRemoveCompIndexes = pool.softRemoveCompIndexes
    <3>1. pool' = NewComponent(pool, e, v) /\ Size(pool) < MaxSlots
      BY <1>2 DEF Assign
    <3> QED
      BY <1>0, <1>2, <3>1, NewComponentFields
  <2>2. Size(pool') = Size(pool) + 1 /\ Size(pool) \in Int
    BY <1>0, <2>1, TypeFacts DEF Size
  <2>3. taint' \subseteq Taints
    BY <1>0, <1>2 DEF Assign, Taints
  <2>4. iter' = iter /\ control' = control
    BY <1>2 DEF Assign
  <2>5. IterationInBounds'
    BY <1>0, <2>1, <2>2, <2>4 DEF IterationInBounds, Iterating, IterType
  <2> QED
    BY <1>0, <2>1, <2>3, <2>4, <2>5 DEF TypeInv, TypeOK, QueueWaits
<1>3. ASSUME NEW e \in Ids, NEW v \in Values, WriteThroughHandle(e, v)
      PROVE  TypeInv'
  <2>1. /\ PoolType(pool')
        /\ pool'.lastCompIndex = pool.lastCompIndex
        /\ pool'.softRemoveMode = pool.softRemoveMode
        /\ pool'.softRemoveCompIndexes = pool.softRemoveCompIndexes
    BY <1>0, <1>3, WriteFields DEF WriteThroughHandle
  <2>2. control' = control /\ iter' = iter /\ taint' = taint
    BY <1>3 DEF WriteThroughHandle
  <2> QED
    BY <1>0, <2>1, <2>2
    DEF TypeInv, TypeOK, IterationInBounds, Iterating, QueueWaits, Size
<1>4. ASSUME NEW e \in Ids, RemoveComponent(e) PROVE TypeInv'
  <2>1. /\ HasComponent(pool, e)
        /\ pool' = Remove(pool, e)
        /\ iter' = [iter EXCEPT !.snapshot = {f \in @ : f.index # e.index}]
        /\ control = "client" /\ control' = control /\ taint' = taint
    BY <1>4 DEF RemoveComponent
  <2>2. PoolType(pool') /\ pool'.softRemoveMode = pool.softRemoveMode
    BY <1>0, <2>1, RemoveType
  <2>3. /\ IterType(iter')
        /\ iter'.pos = iter.pos /\ iter'.end = iter.end
    BY <1>0, <2>1 DEF IterType
  <2>4. pool.softRemoveMode => pool'.lastCompIndex = pool.lastCompIndex
    BY <1>0, <2>1, RemoveSoftly
  <2>5. ~pool.softRemoveMode =>
          pool'.softRemoveCompIndexes = pool.softRemoveCompIndexes
    BY <1>0, <2>1, RemoveHardly
  <2> QED
    BY <1>0, <2>1, <2>2, <2>3, <2>4, <2>5
    DEF TypeInv, TypeOK, IterationInBounds, Iterating, QueueWaits, Size
<1>5. CASE BeginIteration
  <2>1. /\ pool' = [pool EXCEPT !.softRemoveMode = TRUE]
        /\ iter' = [pos |-> 0, end |-> Size(pool), began |-> Owners(pool),
                    snapshot |-> Holders(pool), visited |-> {}]
        /\ control = "client" /\ control' = control /\ taint' = taint
    BY <1>5 DEF BeginIteration, EnableSoftRemove
  <2>2. /\ PoolType(pool')
        /\ pool'.lastCompIndex = pool.lastCompIndex
        /\ pool'.softRemoveMode = TRUE
    BY <1>0, <2>1, ToggleFields
  <2>3. Size(pool) \in Nat /\ Size(pool') = Size(pool)
    BY <1>0, <2>2, TypeFacts DEF Size
  <2>4. Holders(pool) \cup Owners(pool) \subseteq Ids \cup {NullId}
    BY <1>0, TypeFacts DEF Holders, Owners, Mapped, EntityAt, Component
  <2>5. IterType(iter')
    BY <2>1, <2>3, <2>4 DEF IterType
  <2>6. IterationInBounds'
    BY <2>1, <2>3 DEF IterationInBounds
  <2> QED
    BY <1>0, <2>1, <2>2, <2>5, <2>6 DEF TypeInv, TypeOK, QueueWaits
<1>6. CASE Visit
  <2>1. /\ iter' = [iter EXCEPT !.pos = @ + 1,
                                !.visited = @ \cup {EntityAt(pool, iter.pos)}]
        /\ iter.pos < iter.end
        /\ Iterating
        /\ pool' = pool /\ control' = control /\ taint' = taint
    BY <1>6 DEF Visit
  <2>2. iter.pos \in Slots(pool)
    BY <1>0, <2>1, TypeFacts DEF IterationInBounds, IterType, Slots, Size
  <2>3. EntityAt(pool, iter.pos) \in Ids \cup {NullId}
    <3>1. pool.components[iter.pos] \in Component
      BY <1>0, <2>2, TypeFacts
    <3> QED
      BY <3>1 DEF EntityAt, Component
  <2>4. IterType(iter') /\ iter'.pos = iter.pos + 1 /\ iter'.end = iter.end
    <3>1. iter.visited \cup {EntityAt(pool, iter.pos)} \in SUBSET (Ids \cup {NullId})
      BY <1>0, <2>3 DEF IterType
    <3>2. iter.pos + 1 \in Nat
      BY <1>0 DEF IterType
    <3> QED
      BY <1>0, <2>1, <3>1, <3>2 DEF IterType
  <2>5. IterationInBounds'
    BY <1>0, <2>1, <2>4 DEF IterationInBounds, Iterating, IterType, Size
  <2> QED
    BY <1>0, <2>1, <2>4, <2>5 DEF TypeInv, TypeOK, QueueWaits
<1>7. CASE EndIteration
  BY <1>0, <1>7
  DEF EndIteration, Iterating, TypeInv, TypeOK, IterationInBounds, QueueWaits,
      IterType, NoIteration
<1>8. CASE DrainStep
  <2>1. /\ control = "drain" /\ control' \in {"drain", "terminated"}
        /\ pool.softRemoveCompIndexes # << >>
        /\ pool' = DrainOne(pool)
        /\ taint' \subseteq taint \cup {"tailSwap"}
        /\ iter' = iter
    BY <1>8 DEF DrainStep
  <2>2. PoolType(pool') /\ pool'.softRemoveMode = pool.softRemoveMode
    BY <1>0, <2>1, DrainOneFields
  <2> QED
    BY <1>0, <2>1, <2>2
    DEF TypeInv, TypeOK, IterationInBounds, Iterating, QueueWaits, Taints
<1>9. CASE DrainDone
  <2>1. /\ pool' = [pool EXCEPT !.softRemoveMode = FALSE]
        /\ pool.softRemoveCompIndexes = << >>
        /\ control' = "client" /\ iter' = iter /\ taint' = taint
    BY <1>9 DEF DrainDone, DisableSoftRemove
  <2>2. /\ PoolType(pool')
        /\ pool'.softRemoveMode = FALSE
        /\ pool'.softRemoveCompIndexes = pool.softRemoveCompIndexes
    BY <1>0, <2>1, ToggleFields
  <2> QED
    BY <1>0, <2>1, <2>2
    DEF TypeInv, TypeOK, IterationInBounds, Iterating, QueueWaits
<1> QED
  BY <1>1, <1>2, <1>3, <1>4, <1>5, <1>6, <1>7, <1>8, <1>9 DEF Next

LEMMA TypeInvariance == Spec => []TypeInv
<1> QED
  BY TypeInvInit, TypeInvNext, PTL DEF Spec

(***************************************************************************)
(* The pool's members keep their types: every slot number it keeps is one  *)
(* of a slot the vector has, whatever the client does.                     *)
(***************************************************************************)
THEOREM TypeCorrect == Spec => []TypeOK
<1>1. TypeInv => TypeOK
  BY DEF TypeInv
<1> QED
  BY <1>1, TypeInvariance, PTL

(***************************************************************************)
(* The iterator never leaves the pool, whatever the loop body does:        *)
(* neither operator*'s assertion nor operator++'s exception can happen.    *)
(***************************************************************************)
THEOREM IteratorStaysInBounds == Spec => []IterationInBounds
<1>1. TypeInv => IterationInBounds
  BY DEF TypeInv
<1> QED
  BY <1>1, TypeInvariance, PTL

-----------------------------------------------------------------------------
(* The owners of the slots are mapped to their slots. *)

OwnersInv ==
  taint \cap {"reassign", "nullOwner"} = {} =>
    NullUnmapped(pool) /\ OwnersMapped(pool)

LEMMA OwnersInvInit == Init => OwnersInv
<1> SUFFICES ASSUME Init PROVE NullUnmapped(pool) /\ OwnersMapped(pool)
  BY DEF OwnersInv
<1>1. DOMAIN pool.entIndexToCompIndex = {} /\ pool.lastCompIndex = -1
  BY DEF Init, EmptyPool
<1>2. Slots(pool) = {}
  BY <1>1 DEF Slots
<1> QED
  BY <1>1, <1>2 DEF NullUnmapped, OwnersMapped

LEMMA OwnersInvNext == TypeInv /\ OwnersInv /\ [Next]_vars => OwnersInv'
<1> SUFFICES ASSUME TypeInv, OwnersInv, [Next]_vars,
                    taint' \cap {"reassign", "nullOwner"} = {}
             PROVE  NullUnmapped(pool') /\ OwnersMapped(pool')
  BY DEF OwnersInv
<1>0. PoolType(pool)
  BY DEF TypeInv, TypeOK
<1>k. taint \subseteq taint'
  BY DEF Next, vars, Assign, WriteThroughHandle, RemoveComponent, BeginIteration,
         Visit, EndIteration, DrainStep, DrainDone
<1>i. NullUnmapped(pool) /\ OwnersMapped(pool)
  BY <1>k DEF OwnersInv
<1>1. CASE UNCHANGED vars
  BY <1>1, <1>i DEF vars
<1>2. ASSUME NEW e \in Ids, NEW v \in Values, Assign(e, v)
      PROVE  NullUnmapped(pool') /\ OwnersMapped(pool')
  <2>1. /\ pool' = NewComponent(pool, e, v) /\ Size(pool) < MaxSlots
        /\ ~HasComponent(pool, e) /\ e.index # NullId.index
    BY <1>2 DEF Assign
  <2> QED
    BY <1>0, <1>i, <1>2, <2>1, NewComponentOwners
<1>3. ASSUME NEW e \in Ids, NEW v \in Values, WriteThroughHandle(e, v)
      PROVE  NullUnmapped(pool') /\ OwnersMapped(pool')
  <2>1. /\ pool'.lastCompIndex = pool.lastCompIndex
        /\ pool'.entIndexToCompIndex = pool.entIndexToCompIndex
        /\ \A j \in DOMAIN pool.components : EntityAt(pool', j) = EntityAt(pool, j)
    BY <1>0, <1>3, WriteFields DEF WriteThroughHandle
  <2>2. \A j \in Slots(pool) : EntityAt(pool', j) = EntityAt(pool, j)
    BY <1>0, <2>1, TypeFacts
  <2> QED
    BY <1>i, <2>1, <2>2, SameOwners
<1>4. ASSUME NEW e \in Ids, RemoveComponent(e)
      PROVE  NullUnmapped(pool') /\ OwnersMapped(pool')
  <2>1. HasComponent(pool, e) /\ pool' = Remove(pool, e)
    BY <1>4 DEF RemoveComponent
  <2> QED
    BY <1>0, <1>i, <1>4, <2>1, RemoveOwners
<1>5. CASE BeginIteration \/ DrainDone
  <2>1. PICK b \in BOOLEAN : pool' = [pool EXCEPT !.softRemoveMode = b]
    BY <1>5 DEF BeginIteration, DrainDone, EnableSoftRemove, DisableSoftRemove
  <2>2. /\ pool'.components = pool.components
        /\ pool'.lastCompIndex = pool.lastCompIndex
        /\ pool'.entIndexToCompIndex = pool.entIndexToCompIndex
    BY <1>0, <2>1, ToggleFields
  <2> QED
    BY <1>i, <2>2, SameOwners DEF EntityAt
<1>6. CASE Visit \/ EndIteration
  BY <1>6, <1>i DEF Visit, EndIteration
<1>7. CASE DrainStep
  <2>1. pool.softRemoveCompIndexes # << >> /\ pool' = DrainOne(pool)
    BY <1>7 DEF DrainStep
  <2> DEFINE k == Head(pool.softRemoveCompIndexes)
             u == [pool EXCEPT !.softRemoveCompIndexes = Tail(@)]
  <2>2. /\ PoolType(u)
        /\ k \in DOMAIN u.components
        /\ pool' = SwapOut(u, k)
        /\ u.components = pool.components
        /\ u.lastCompIndex = pool.lastCompIndex
        /\ u.entIndexToCompIndex = pool.entIndexToCompIndex
    BY <1>0, <2>1, DrainOneFields
  <2> HIDE DEF u, k
  <2>3. NullUnmapped(u) /\ OwnersMapped(u)
    BY <1>i, <2>2, SameOwners DEF EntityAt
  <2>4. \A j \in Slots(u) \ {k} : OwnerMapped(u, j)
    BY <2>3 DEF OwnersMapped
  <2> QED
    BY <2>2, <2>3, <2>4, SwapOutOwners
<1> QED
  BY <1>1, <1>2, <1>3, <1>4, <1>5, <1>6, <1>7 DEF Next

(***************************************************************************)
(* For a client that never assigns a component twice, the owner of a slot  *)
(* in use is mapped to this slot: the swaps of remove(), also those of the *)
(* destructor's loop that lose components, keep the map and the owners of  *)
(* the slots in step.                                                      *)
(***************************************************************************)
THEOREM OwnersStayMapped == Spec => []SlotOwnersMapped
<1>1. Spec => []OwnersInv
  BY OwnersInvInit, OwnersInvNext, TypeInvariance, PTL DEF Spec
<1>2. OwnersInv => SlotOwnersMapped
  BY DEF OwnersInv, OwnersMapped, SlotOwnersMapped
<1> QED
  BY <1>1, <1>2, PTL

-----------------------------------------------------------------------------
(* Slots while the client iterates. *)

StaysOrGone(p, q, k) == EntityAt(q, k) \in {EntityAt(p, k), NullId}

LEMMA SlotsStableStep ==
  TypeInv /\ [Next]_vars /\ Iterating /\ Iterating' =>
    \A k \in Slots(pool) : StaysOrGone(pool, pool', k)
<1> SUFFICES ASSUME TypeInv, [Next]_vars, Iterating, Iterating',
                    NEW k \in Slots(pool)
             PROVE  StaysOrGone(pool, pool', k)
  OBVIOUS
<1>0. PoolType(pool) /\ k \in DOMAIN pool.components /\ pool.softRemoveMode
  BY DEF TypeInv, TypeOK, PoolType, Iterating
<1>1. CASE UNCHANGED pool
  BY <1>1 DEF StaysOrGone
<1>2. ASSUME NEW e \in Ids, NEW v \in Values, Assign(e, v)
      PROVE  StaysOrGone(pool, pool', k)
  <2>1. pool' = NewComponent(pool, e, v) /\ Size(pool) < MaxSlots
    BY <1>2 DEF Assign
  <2>2. \A j \in DOMAIN pool.components \ {pool.lastCompIndex + 1} :
          pool'.components[j] = pool.components[j]
    BY <1>0, <1>2, <2>1, NewComponentFields
  <2>3. k # pool.lastCompIndex + 1
    BY <1>0, TypeFacts DEF Slots
  <2> QED
    BY <1>0, <2>2, <2>3 DEF StaysOrGone, EntityAt
<1>3. ASSUME NEW e \in Ids, NEW v \in Values, WriteThroughHandle(e, v)
      PROVE  StaysOrGone(pool, pool', k)
  <2>1. \A j \in DOMAIN pool.components : EntityAt(pool', j) = EntityAt(pool, j)
    BY <1>0, <1>3, WriteFields DEF WriteThroughHandle
  <2> QED
    BY <1>0, <2>1 DEF StaysOrGone
<1>4. ASSUME NEW e \in Ids, RemoveComponent(e)
      PROVE  StaysOrGone(pool, pool', k)
  <2>1. HasComponent(pool, e) /\ pool' = Remove(pool, e)
    BY <1>4 DEF RemoveComponent
  <2> DEFINE s == SlotOf(pool, e)
  <2>2. /\ EntityAt(pool', s) = NullId
        /\ \A j \in DOMAIN pool.components \ {s} :
             pool'.components[j] = pool.components[j]
    BY <1>0, <1>4, <2>1, RemoveSoftly
  <2> HIDE DEF s
  <2> QED
    BY <1>0, <2>2 DEF StaysOrGone, EntityAt
<1>5. CASE BeginIteration \/ EndIteration \/ DrainStep \/ DrainDone
  BY <1>0, <1>5
    DEF BeginIteration, EndIteration, DrainStep, DrainDone, Iterating
<1>6. CASE Visit
  BY <1>1, <1>6 DEF Visit
<1>7. CASE UNCHANGED vars
  BY <1>1, <1>7 DEF vars
<1> QED
  BY <1>2, <1>3, <1>4, <1>5, <1>6, <1>7 DEF Next

(***************************************************************************)
(* While the client iterates, the lock keeps its promise: no component in  *)
(* use changes its slot, and a slot can only lose its owner.               *)
(***************************************************************************)
THEOREM SlotsAreStable == Spec => SlotsStableWhileIterating
<1>1. TypeInv /\ [Next]_vars =>
        [Iterating /\ Iterating' =>
           \A k \in Slots(pool) :
             EntityAt(pool', k) \in {EntityAt(pool, k), NullId}]_vars
  BY SlotsStableStep DEF StaysOrGone
<1> QED
  BY <1>1, TypeInvariance, PTL DEF Spec, SlotsStableWhileIterating

\* Only BeginIteration begins an iteration.
LEMMA IterationBegins ==
  TypeInv /\ [Next]_vars /\ ~Iterating /\ Iterating' => BeginIteration
<1> SUFFICES ASSUME TypeInv, [Next]_vars, ~Iterating, Iterating'
             PROVE  BeginIteration
  OBVIOUS
<1>p. PoolType(pool)
  BY DEF TypeInv, TypeOK
<1>1. ASSUME NEW e \in Ids, NEW v \in Values,
             Assign(e, v) \/ WriteThroughHandle(e, v)
      PROVE  FALSE
  <2>1. CASE Assign(e, v)
    <3>1. pool' = NewComponent(pool, e, v) /\ Size(pool) < MaxSlots
      BY <2>1 DEF Assign
    <3>2. pool'.softRemoveMode = pool.softRemoveMode
      BY <1>p, <1>1, <3>1, NewComponentFields
    <3> QED
      BY <2>1, <3>2 DEF Assign, Iterating
  <2>2. CASE WriteThroughHandle(e, v)
    <3>1. pool'.softRemoveMode = pool.softRemoveMode
      BY <1>p, <1>1, <2>2, WriteFields DEF WriteThroughHandle
    <3> QED
      BY <2>2, <3>1 DEF WriteThroughHandle, Iterating
  <2> QED
    BY <1>1, <2>1, <2>2
<1>2. ASSUME NEW e \in Ids, RemoveComponent(e) PROVE FALSE
  <2>1. pool'.softRemoveMode = pool.softRemoveMode
    BY <1>p, <1>2, RemoveType DEF RemoveComponent
  <2> QED
    BY <1>2, <2>1 DEF RemoveComponent, Iterating
<1>3. CASE DrainDone
  <2>1. pool'.softRemoveMode = FALSE
    BY <1>p, <1>3, ToggleFields DEF DrainDone, DisableSoftRemove
  <2> QED
    BY <2>1 DEF Iterating
<1>4. ~Visit /\ ~EndIteration /\ ~DrainStep /\ ~UNCHANGED vars
  BY DEF Visit, EndIteration, DrainStep, vars, Iterating
<1> QED
  BY <1>1, <1>2, <1>3, <1>4 DEF Next

\* While the client iterates only Visit advances the iterator.
LEMMA IteratorWaits ==
  TypeInv /\ [Next]_vars /\ Iterating /\ Iterating' /\ ~Visit =>
    /\ iter'.pos = iter.pos /\ iter'.end = iter.end
    /\ iter'.visited = iter.visited /\ iter'.began = iter.began
<1> SUFFICES ASSUME TypeInv, [Next]_vars, Iterating, Iterating', ~Visit
             PROVE  /\ iter'.pos = iter.pos /\ iter'.end = iter.end
                    /\ iter'.visited = iter.visited /\ iter'.began = iter.began
  OBVIOUS
<1>1. iter \in [pos : Nat, end : Nat, began : SUBSET (Ids \cup {NullId}),
                snapshot : SUBSET (Ids \cup {NullId}),
                visited : SUBSET (Ids \cup {NullId})]
  BY DEF TypeInv, TypeOK, IterType
<1>2. \/ UNCHANGED iter
      \/ \E e \in Ids : RemoveComponent(e)
  BY DEF Next, vars, Assign, WriteThroughHandle, BeginIteration,
         EndIteration, DrainStep, DrainDone, Iterating
<1> QED
  BY <1>1, <1>2 DEF RemoveComponent

\* Whom the iteration still has to visit it has not visited yet.
Fresh ==
  Iterating /\ taint \cap {"reassign", "nullOwner"} = {} =>
    \A k \in iter.pos .. iter.end - 1 :
      EntityAt(pool, k) \notin iter.visited \ {NullId}

LEMMA FreshNext ==
  TypeInv /\ OwnersInv /\ Fresh /\ [Next]_vars => Fresh'
<1> SUFFICES ASSUME TypeInv, OwnersInv, Fresh, [Next]_vars, Iterating',
                    taint' \cap {"reassign", "nullOwner"} = {},
                    NEW k \in iter'.pos .. iter'.end - 1
             PROVE  EntityAt(pool', k) \notin iter'.visited \ {NullId}
  BY DEF Fresh
<1>0. taint \cap {"reassign", "nullOwner"} = {}
  BY DEF Next, vars, Assign, WriteThroughHandle, RemoveComponent, BeginIteration,
         Visit, EndIteration, DrainStep, DrainDone
<1>p. PoolType(pool)
  BY DEF TypeInv, TypeOK
<1>1. CASE ~Iterating
  BY <1>1, IterationBegins DEF BeginIteration
<1>2. CASE Iterating /\ ~Visit
  <2>1. iter'.pos = iter.pos /\ iter'.end = iter.end /\ iter'.visited = iter.visited
    BY <1>2, IteratorWaits
  <2>2. k \in Slots(pool)
    BY <1>2, <2>1, TypeFacts
      DEF TypeInv, TypeOK, IterType, IterationInBounds, Size, Slots
  <2>3. StaysOrGone(pool, pool', k)
    BY <1>2, <2>2, SlotsStableStep
  <2>4. EntityAt(pool, k) \notin iter.visited \ {NullId}
    BY <1>0, <1>2, <2>1 DEF Fresh
  <2> QED
    BY <2>1, <2>3, <2>4 DEF StaysOrGone
<1>3. CASE Iterating /\ Visit
  <2>1. /\ pool' = pool
        /\ iter'.pos = iter.pos + 1 /\ iter'.end = iter.end
        /\ iter'.visited = iter.visited \cup {EntityAt(pool, iter.pos)}
        /\ iter.pos < iter.end
    BY <1>3 DEF Visit, TypeInv, TypeOK, IterType
  <2>2. /\ k \in iter.pos .. iter.end - 1 /\ k # iter.pos
        /\ k \in Slots(pool) /\ iter.pos \in Slots(pool)
    BY <1>3, <2>1, TypeFacts
      DEF TypeInv, TypeOK, IterType, IterationInBounds, Size, Slots
  <2>3. EntityAt(pool, k) \notin iter.visited \ {NullId}
    BY <1>0, <1>3, <2>2 DEF Fresh
  <2>4. OwnerMapped(pool, k) /\ OwnerMapped(pool, iter.pos)
    BY <1>0, <2>2 DEF OwnersInv, OwnersMapped
  <2>5. EntityAt(pool, k) = EntityAt(pool, iter.pos) => EntityAt(pool, k) = NullId
    BY <2>2, <2>4 DEF OwnerMapped
  <2> QED
    BY <2>1, <2>3, <2>5
<1> QED
  BY <1>1, <1>2, <1>3

(***************************************************************************)
(* No iteration visits an entity twice, for a client that never assigns a  *)
(* component twice: each owner has one slot, slots keep their owners until *)
(* these are gone, and new components go beyond the end of the iteration.  *)
(***************************************************************************)
THEOREM VisitsAreNew == Spec => []NextIsNew
<1>1. Init => Fresh
  BY DEF Init, Fresh, Iterating, EmptyPool
<1>2. Spec => []OwnersInv
  BY OwnersInvInit, OwnersInvNext, TypeInvariance, PTL DEF Spec
<1>3. TypeInv /\ Fresh => NextIsNew
  BY DEF TypeInv, TypeOK, IterType, Fresh, NextIsNew
<1> QED
  BY <1>1, <1>2, <1>3, FreshNext, TypeInvariance, PTL DEF Spec

\* Whom the iteration has visited or has still to visit was there before it.
Began ==
  Iterating =>
    /\ iter.visited \subseteq iter.began \cup {NullId}
    /\ \A k \in iter.pos .. iter.end - 1 :
         EntityAt(pool, k) \in iter.began \cup {NullId}

LEMMA BeganNext == TypeInv /\ Began /\ [Next]_vars => Began'
<1> SUFFICES ASSUME TypeInv, Began, [Next]_vars, Iterating'
             PROVE  /\ iter'.visited \subseteq iter'.began \cup {NullId}
                    /\ \A k \in iter'.pos .. iter'.end - 1 :
                         EntityAt(pool', k) \in iter'.began \cup {NullId}
  BY DEF Began
<1>p. PoolType(pool)
  BY DEF TypeInv, TypeOK
<1>1. CASE ~Iterating
  <2>1. BeginIteration
    BY <1>1, IterationBegins
  <2>2. /\ pool' = [pool EXCEPT !.softRemoveMode = TRUE]
        /\ iter'.pos = 0 /\ iter'.end = Size(pool)
        /\ iter'.visited = {} /\ iter'.began = Owners(pool)
    BY <2>1 DEF BeginIteration, EnableSoftRemove
  <2>3. pool'.components = pool.components
    BY <1>p, <2>2, ToggleFields
  <2>4. iter'.pos .. iter'.end - 1 = Slots(pool)
    BY <1>p, <2>2, TypeFacts DEF Slots, Size
  <2> QED
    BY <2>2, <2>3, <2>4 DEF Owners, EntityAt
<1>2. CASE Iterating /\ ~Visit
  <2>1. /\ iter'.pos = iter.pos /\ iter'.end = iter.end
        /\ iter'.visited = iter.visited /\ iter'.began = iter.began
    BY <1>2, IteratorWaits
  <2>2. ASSUME NEW k \in iter.pos .. iter.end - 1
        PROVE  EntityAt(pool', k) \in iter.began \cup {NullId}
    <3>1. k \in Slots(pool)
      BY <1>2, TypeFacts
        DEF TypeInv, TypeOK, IterType, IterationInBounds, Size, Slots
    <3>2. StaysOrGone(pool, pool', k)
      BY <1>2, <3>1, SlotsStableStep
    <3> QED
      BY <1>2, <3>2 DEF Began, StaysOrGone
  <2> QED
    BY <1>2, <2>1, <2>2 DEF Began
<1>3. CASE Iterating /\ Visit
  <2>1. /\ pool' = pool
        /\ iter'.pos = iter.pos + 1 /\ iter'.end = iter.end
        /\ iter'.visited = iter.visited \cup {EntityAt(pool, iter.pos)}
        /\ iter'.began = iter.began
        /\ iter.pos < iter.end /\ iter.pos \in Nat /\ iter.end \in Nat
    BY <1>3 DEF Visit, TypeInv, TypeOK, IterType
  <2>2. /\ iter.pos \in iter.pos .. iter.end - 1
        /\ iter'.pos .. iter'.end - 1 \subseteq iter.pos .. iter.end - 1
    BY <2>1
  <2> QED
    BY <1>3, <2>1, <2>2 DEF Began
<1> QED
  BY <1>1, <1>2, <1>3

(***************************************************************************)
(* No iteration visits an entity that got the component while it was under *)
(* way, not even for a client that assigns twice: the slots before its end *)
(* keep their owners or lose them, and new components go behind it.        *)
(***************************************************************************)
THEOREM VisitsAreOfThoseThere == Spec => []VisitsWereThere
<1>1. Init => Began
  BY DEF Init, Began, Iterating, EmptyPool
<1>2. Began => VisitsWereThere
  BY DEF Began, VisitsWereThere
<1> QED
  BY <1>1, <1>2, BeganNext, TypeInvariance, PTL DEF Spec

-----------------------------------------------------------------------------
(* No holes but the queued ones. *)

LEMMA HolesNext == TypeInv /\ OwnersInv /\ NoHoles /\ [Next]_vars => NoHoles'
<1> SUFFICES ASSUME TypeInv, OwnersInv, NoHoles, [Next]_vars, taint' = {}
             PROVE  MappedInUse(pool') /\ QueueIsHoles(pool')
  BY DEF NoHoles
<1>0. PoolType(pool)
  BY DEF TypeInv, TypeOK
<1>t. taint = {}
  BY DEF Next, vars, Assign, WriteThroughHandle, RemoveComponent, BeginIteration,
         Visit, EndIteration, DrainStep, DrainDone
<1>i. /\ MappedInUse(pool) /\ QueueIsHoles(pool)
      /\ NullUnmapped(pool) /\ OwnersMapped(pool)
  BY <1>t DEF NoHoles, OwnersInv
<1>1. CASE UNCHANGED pool
  BY <1>1, <1>i
<1>2. ASSUME NEW e \in Ids, NEW v \in Values, Assign(e, v)
      PROVE  MappedInUse(pool') /\ QueueIsHoles(pool')
  <2>1. /\ pool' = NewComponent(pool, e, v) /\ Size(pool) < MaxSlots
        /\ e.index # NullId.index
    BY <1>2 DEF Assign
  <2> QED
    BY <1>0, <1>i, <1>2, <2>1, NewComponentHoles
<1>3. ASSUME NEW e \in Ids, NEW v \in Values, WriteThroughHandle(e, v)
      PROVE  MappedInUse(pool') /\ QueueIsHoles(pool')
  <2>1. /\ pool'.lastCompIndex = pool.lastCompIndex
        /\ pool'.entIndexToCompIndex = pool.entIndexToCompIndex
        /\ pool'.softRemoveCompIndexes = pool.softRemoveCompIndexes
        /\ \A j \in DOMAIN pool.components : EntityAt(pool', j) = EntityAt(pool, j)
    BY <1>0, <1>3, WriteFields DEF WriteThroughHandle
  <2> QED
    BY <1>0, <1>i, <2>1, SameHoles
<1>4. ASSUME NEW e \in Ids, RemoveComponent(e)
      PROVE  MappedInUse(pool') /\ QueueIsHoles(pool')
  <2>1. HasComponent(pool, e) /\ pool' = Remove(pool, e)
    BY <1>4 DEF RemoveComponent
  <2>2. CASE pool.softRemoveMode
    BY <1>0, <1>i, <1>4, <2>1, <2>2, SoftRemoveHoles
  <2>3. CASE ~pool.softRemoveMode
    <3>1. pool.softRemoveCompIndexes = << >>
      BY <2>3 DEF TypeInv, QueueWaits
    <3> QED
      BY <1>0, <1>i, <1>4, <2>1, <2>3, <3>1, HardRemoveHoles
  <2> QED
    BY <2>2, <2>3
<1>5. CASE BeginIteration \/ DrainDone
  <2>1. PICK b \in BOOLEAN : pool' = [pool EXCEPT !.softRemoveMode = b]
    BY <1>5 DEF BeginIteration, DrainDone, EnableSoftRemove, DisableSoftRemove
  <2>2. /\ pool'.components = pool.components
        /\ pool'.lastCompIndex = pool.lastCompIndex
        /\ pool'.entIndexToCompIndex = pool.entIndexToCompIndex
        /\ pool'.softRemoveCompIndexes = pool.softRemoveCompIndexes
    BY <1>0, <2>1, ToggleFields
  <2>3. \A j \in DOMAIN pool.components : EntityAt(pool', j) = EntityAt(pool, j)
    BY <2>2 DEF EntityAt
  <2> QED
    BY <1>0, <1>i, <2>2, <2>3, SameHoles
<1>6. CASE Visit \/ EndIteration
  BY <1>1, <1>6 DEF Visit, EndIteration
<1>7. CASE DrainStep
  <2>1. /\ pool.softRemoveCompIndexes # << >> /\ pool' = DrainOne(pool)
        /\ ~TailSwap(pool)
    BY <1>7 DEF DrainStep
  <2> QED
    BY <1>0, <1>i, <2>1, DrainOneHoles
<1> QED
  BY <1>1, <1>2, <1>3, <1>4, <1>5, <1>6, <1>7 DEF Next, vars

LEMMA OwnersInvariance == Spec => []OwnersInv
  BY OwnersInvInit, OwnersInvNext, TypeInvariance, PTL DEF Spec

(***************************************************************************)
(* As long as nothing taints the pool, every index in the map leads to a   *)
(* slot in use that it owns, and the slots without an owner are those that *)
(* wait in the queue: remove() and the destructor's loop leave no others.  *)
(***************************************************************************)
THEOREM HolesAreQueued == Spec => []NoHoles
<1>1. Init => NoHoles
  <2>1. ASSUME Init PROVE MappedInUse(pool) /\ QueueIsHoles(pool)
    <3>1. /\ pool.lastCompIndex = -1 /\ DOMAIN pool.entIndexToCompIndex = {}
          /\ pool.softRemoveCompIndexes = << >>
      BY <2>1 DEF Init, EmptyPool
    <3>2. Slots(pool) = {} /\ Mapped(pool) = {} /\ Queued(pool) = {}
      BY <3>1 DEF Slots, Mapped, Queued
    <3> QED
      BY <3>1, <3>2 DEF MappedInUse, QueueIsHoles
  <2> QED
    BY <2>1 DEF NoHoles
<1> QED
  BY <1>1, HolesNext, OwnersInvariance, TypeInvariance, PTL DEF Spec

-----------------------------------------------------------------------------
(* Iterations visit all. *)

\* Whom the iteration has not visited yet it finds ahead of it.
Ahead ==
  Iterating /\ taint = {} =>
    \A f \in iter.snapshot :
      \/ f \in iter.visited
      \/ \E k \in iter.pos .. iter.end - 1 : EntityAt(pool, k) = f

LEMMA AheadNext ==
  TypeInv /\ OwnersInv /\ NoHoles /\ Ahead /\ [Next]_vars => Ahead'
<1> SUFFICES ASSUME TypeInv, OwnersInv, NoHoles, Ahead, [Next]_vars,
                    Iterating', taint' = {}, NEW f \in iter'.snapshot
             PROVE  \/ f \in iter'.visited
                    \/ \E k \in iter'.pos .. iter'.end - 1 : EntityAt(pool', k) = f
  BY DEF Ahead
<1>0. PoolType(pool) /\ IterType(iter)
  BY DEF TypeInv, TypeOK
<1>t. taint = {}
  BY DEF Next, vars, Assign, WriteThroughHandle, RemoveComponent, BeginIteration,
         Visit, EndIteration, DrainStep, DrainDone
<1>i. /\ MappedInUse(pool) /\ QueueIsHoles(pool) /\ NullUnmapped(pool)
  BY <1>t DEF NoHoles, OwnersInv
<1>r. Iterating => \A k \in iter.pos .. iter.end - 1 :
                     k \in Slots(pool) /\ k \in DOMAIN pool.components
  BY <1>0, TypeFacts DEF TypeInv, IterationInBounds, IterType, Slots, Size
<1>1. CASE ~Iterating
  <2>1. BeginIteration
    BY <1>1, IterationBegins
  <2>2. /\ pool' = [pool EXCEPT !.softRemoveMode = TRUE]
        /\ iter'.snapshot = Holders(pool) /\ iter'.pos = 0 /\ iter'.end = Size(pool)
    BY <2>1 DEF BeginIteration, EnableSoftRemove
  <2>3. pool'.components = pool.components
    BY <1>0, <2>2, ToggleFields
  <2>4. PICK i \in Mapped(pool) : f = EntityAt(pool, pool.entIndexToCompIndex[i])
    BY <2>2 DEF Holders
  <2>5. pool.entIndexToCompIndex[i] \in Slots(pool)
    BY <1>i DEF MappedInUse
  <2>6. pool.entIndexToCompIndex[i] \in iter'.pos .. iter'.end - 1
    BY <1>0, <2>2, <2>5, TypeFacts DEF Slots, Size
  <2> QED
    BY <2>3, <2>4, <2>6 DEF EntityAt
<1>2. CASE Iterating /\ Visit
  <2>1. /\ pool' = pool /\ iter.pos < iter.end
        /\ iter'.pos = iter.pos + 1 /\ iter'.end = iter.end
        /\ iter'.snapshot = iter.snapshot
        /\ iter'.visited = iter.visited \cup {EntityAt(pool, iter.pos)}
    BY <1>0, <1>2 DEF Visit, IterType
  <2>2. \/ f \in iter.visited
        \/ \E k \in iter.pos .. iter.end - 1 : EntityAt(pool, k) = f
    BY <1>2, <1>t, <2>1 DEF Ahead
  <2>3. \A k \in iter.pos .. iter.end - 1 :
          k = iter.pos \/ k \in iter'.pos .. iter'.end - 1
    BY <1>0, <2>1 DEF IterType
  <2> QED
    BY <2>1, <2>2, <2>3
<1>3. CASE Iterating /\ ~Visit
  <2>1. iter'.pos = iter.pos /\ iter'.end = iter.end /\ iter'.visited = iter.visited
    BY <1>3, IteratorWaits
  <2>2. \/ f \in iter.visited
        \/ \E k \in iter.pos .. iter.end - 1 : EntityAt(pool, k) = f
    <3>1. f \in iter.snapshot
      <4>1. \/ iter' = iter
            \/ \E e \in Ids : RemoveComponent(e)
        BY <1>3 DEF Next, vars, Assign, WriteThroughHandle, BeginIteration,
                    EndIteration, DrainStep, DrainDone, Iterating
      <4> QED
        BY <1>0, <4>1 DEF RemoveComponent, IterType
    <3> QED
      BY <1>3, <1>t, <3>1 DEF Ahead
  <2>3. ASSUME NEW k \in iter.pos .. iter.end - 1, EntityAt(pool, k) = f
        PROVE  EntityAt(pool', k) = f
    <3>0. k \in Slots(pool) /\ k \in DOMAIN pool.components
      BY <1>3, <1>r, <2>3
    <3>1. ASSUME NEW e \in Ids, NEW v \in Values, Assign(e, v)
          PROVE  EntityAt(pool', k) = f
      <4>1. pool' = NewComponent(pool, e, v) /\ Size(pool) < MaxSlots
        BY <3>1 DEF Assign
      <4>2. \A j \in DOMAIN pool.components \ {pool.lastCompIndex + 1} :
              pool'.components[j] = pool.components[j]
        BY <1>0, <3>1, <4>1, NewComponentFields
      <4>3. k # pool.lastCompIndex + 1
        BY <1>0, <3>0, TypeFacts DEF Slots
      <4> QED
        BY <2>3, <3>0, <4>2, <4>3 DEF EntityAt
    <3>2. ASSUME NEW e \in Ids, NEW v \in Values, WriteThroughHandle(e, v)
          PROVE  EntityAt(pool', k) = f
      <4>1. \A j \in DOMAIN pool.components : EntityAt(pool', j) = EntityAt(pool, j)
        BY <1>0, <3>2, WriteFields DEF WriteThroughHandle
      <4> QED
        BY <2>3, <3>0, <4>1
    <3>3. ASSUME NEW e \in Ids, RemoveComponent(e)
          PROVE  EntityAt(pool', k) = f
      <4>1. /\ HasComponent(pool, e) /\ pool' = Remove(pool, e)
            /\ f.index # e.index
        BY <1>0, <3>3 DEF RemoveComponent, IterType
      <4> DEFINE s == SlotOf(pool, e)
      <4>2. \A j \in DOMAIN pool.components \ {s} :
              pool'.components[j] = pool.components[j]
        BY <1>0, <1>3, <3>3, <4>1, RemoveSoftly DEF Iterating
      <4>3. EntityAt(pool, s).index = e.index
        BY <1>0, <1>i, <4>1, MappedFacts DEF MappedInUse, SlotOf
      <4> HIDE DEF s
      <4> QED
        BY <2>3, <3>0, <4>1, <4>2, <4>3 DEF EntityAt
    <3>4. CASE UNCHANGED pool
      BY <2>3, <3>4
    <3> QED
      BY <1>3, <3>1, <3>2, <3>3, <3>4
        DEF Next, vars, BeginIteration, EndIteration, DrainStep, DrainDone, Iterating
  <2> QED
    BY <2>1, <2>2, <2>3
<1> QED
  BY <1>1, <1>2, <1>3

(***************************************************************************)
(* An iteration over an untainted pool that runs to its end has visited    *)
(* everyone who held a component when it began and has kept it, whatever   *)
(* the loop body assigned and removed.                                     *)
(***************************************************************************)
THEOREM TidyIterationsVisitAll == Spec => []TidyIterationVisitsAll
<1>1. Init => Ahead
  BY DEF Init, Ahead, Iterating, EmptyPool
<1>2. TypeInv /\ Ahead => TidyIterationVisitsAll
  BY DEF TypeInv, TypeOK, IterType, Ahead, TidyIterationVisitsAll, VisitedAll
<1> QED
  BY <1>1, <1>2, AheadNext, HolesAreQueued, OwnersInvariance, TypeInvariance, PTL
  DEF Spec

-----------------------------------------------------------------------------
(* The slots in use are counted. *)

Waiting == Len(pool.softRemoveCompIndexes)

SpareInv ==
  "nullOwner" \notin taint =>
    /\ NullUnmapped(pool)
    /\ Waiting <= Spare(pool)
    /\ control # "terminated"

ExactInv ==
  taint \cap {"reassign", "nullOwner"} = {} => ExactCount(pool)

CountInv == FiniteMap(pool) /\ SpareInv /\ ExactInv

LEMMA FiniteMapNext == TypeInv /\ FiniteMap(pool) /\ [Next]_vars => FiniteMap(pool)'
<1> SUFFICES ASSUME TypeInv, FiniteMap(pool), [Next]_vars
             PROVE  FiniteMap(pool')
  BY DEF FiniteMap
<1>0. PoolType(pool)
  BY DEF TypeInv, TypeOK
<1>1. CASE UNCHANGED pool
  BY <1>1
<1>2. ASSUME NEW e \in Ids, NEW v \in Values, Assign(e, v)
      PROVE  FiniteMap(pool')
  <2>1. DOMAIN pool'.entIndexToCompIndex =
          DOMAIN pool.entIndexToCompIndex \cup {e.index}
    BY <1>0, <1>2, NewComponentFields DEF Assign
  <2> QED
    BY <2>1, FS_AddElement DEF FiniteMap
<1>3. ASSUME NEW e \in Ids, NEW v \in Values, WriteThroughHandle(e, v)
      PROVE  FiniteMap(pool')
  BY <1>0, <1>3, WriteFields DEF WriteThroughHandle, FiniteMap
<1>4. ASSUME NEW e \in Ids, RemoveComponent(e) PROVE FiniteMap(pool')
  <2>1. HasComponent(pool, e) /\ pool' = Remove(pool, e)
    BY <1>4 DEF RemoveComponent
  <2>2. CASE pool.softRemoveMode
    BY <1>0, <1>4, <2>1, <2>2, RemoveSoftly DEF FiniteMap
  <2>3. CASE ~pool.softRemoveMode
    <3> DEFINE u == [pool EXCEPT !.entIndexToCompIndex[e.index] = INVALID_COMP_INDEX]
               k == SlotOf(pool, e)
    <3>1. k \in DOMAIN u.components /\ PoolType(u) /\ pool' = SwapOut(u, k)
      BY <1>0, <2>1, <2>3, RemoveHardly
    <3>2. DOMAIN u.entIndexToCompIndex = DOMAIN pool.entIndexToCompIndex
      BY <1>0, <2>1, UnmapFields
    <3> HIDE DEF u, k
    <3>3. DOMAIN pool'.entIndexToCompIndex = DOMAIN u.entIndexToCompIndex
      BY <3>1, SwapOutFields
    <3> QED
      BY <3>2, <3>3 DEF FiniteMap
  <2> QED
    BY <2>2, <2>3
<1>5. CASE BeginIteration \/ DrainDone
  <2>1. PICK b \in BOOLEAN : pool' = [pool EXCEPT !.softRemoveMode = b]
    BY <1>5 DEF BeginIteration, DrainDone, EnableSoftRemove, DisableSoftRemove
  <2> QED
    BY <1>0, <2>1, ToggleFields DEF FiniteMap
<1>6. CASE DrainStep
  <2> DEFINE k == Head(pool.softRemoveCompIndexes)
             u == [pool EXCEPT !.softRemoveCompIndexes = Tail(@)]
  <2>1. /\ PoolType(u) /\ k \in DOMAIN u.components /\ pool' = SwapOut(u, k)
        /\ u.entIndexToCompIndex = pool.entIndexToCompIndex
    BY <1>0, <1>6, DrainOneFields DEF DrainStep
  <2> HIDE DEF u, k
  <2>2. DOMAIN pool'.entIndexToCompIndex = DOMAIN u.entIndexToCompIndex
    BY <2>1, SwapOutFields
  <2> QED
    BY <2>1, <2>2 DEF FiniteMap
<1> QED
  BY <1>1, <1>2, <1>3, <1>4, <1>5, <1>6 DEF Next, vars, Visit, EndIteration

LEMMA SpareNext == TypeInv /\ CountInv /\ [Next]_vars => SpareInv'
<1> SUFFICES ASSUME TypeInv, CountInv, [Next]_vars, "nullOwner" \notin taint'
             PROVE  /\ NullUnmapped(pool')
                    /\ Len(pool'.softRemoveCompIndexes) <= Spare(pool')
                    /\ control' # "terminated"
  BY DEF SpareInv, Waiting
<1>0. PoolType(pool)
  BY DEF TypeInv, TypeOK
<1>t. "nullOwner" \notin taint
  BY DEF Next, vars, Assign, WriteThroughHandle, RemoveComponent, BeginIteration,
         Visit, EndIteration, DrainStep, DrainDone
<1>i. /\ FiniteMap(pool) /\ NullUnmapped(pool) /\ control # "terminated"
      /\ Len(pool.softRemoveCompIndexes) <= Spare(pool)
  BY <1>t DEF CountInv, SpareInv, Waiting
<1>n. Spare(pool) \in Int /\ Len(pool.softRemoveCompIndexes) \in Nat
  BY <1>0, <1>i, HolesFinite, TypeFacts, LenProperties
<1>f. PoolType(pool') /\ FiniteMap(pool')
  BY <1>i, TypeInvNext, FiniteMapNext DEF TypeInv, TypeOK, FiniteMap
<1>m. Spare(pool') \in Int
  BY <1>f, HolesFinite
<1>1. CASE UNCHANGED <<pool, control>>
  BY <1>1, <1>i
<1>2. ASSUME NEW e \in Ids, NEW v \in Values, Assign(e, v)
      PROVE  /\ NullUnmapped(pool') /\ control' # "terminated"
             /\ Len(pool'.softRemoveCompIndexes) <= Spare(pool')
  <2>1. /\ pool' = NewComponent(pool, e, v) /\ Size(pool) < MaxSlots
        /\ e.index # NullId.index /\ control' = control
    BY <1>2 DEF Assign
  <2>2. NullUnmapped(pool') /\ Spare(pool') >= Spare(pool)
    BY <1>0, <1>i, <1>2, <2>1, NewComponentSpare
  <2>3. pool'.softRemoveCompIndexes = pool.softRemoveCompIndexes
    BY <1>0, <1>2, <2>1, NewComponentFields
  <2> QED
    BY <1>i, <1>n, <1>m, <2>1, <2>2, <2>3
<1>3. ASSUME NEW e \in Ids, NEW v \in Values, WriteThroughHandle(e, v)
      PROVE  /\ NullUnmapped(pool') /\ control' # "terminated"
             /\ Len(pool'.softRemoveCompIndexes) <= Spare(pool')
  <2>1. /\ pool'.lastCompIndex = pool.lastCompIndex
        /\ pool'.entIndexToCompIndex = pool.entIndexToCompIndex
        /\ pool'.softRemoveCompIndexes = pool.softRemoveCompIndexes
        /\ \A j \in DOMAIN pool.components : EntityAt(pool', j) = EntityAt(pool, j)
        /\ control' = control
    BY <1>0, <1>3, WriteFields DEF WriteThroughHandle
  <2>2. Spare(pool') = Spare(pool)
    BY <1>0, <2>1, SameCounts
  <2> QED
    BY <1>i, <2>1, <2>2 DEF NullUnmapped
<1>4. ASSUME NEW e \in Ids, RemoveComponent(e)
      PROVE  /\ NullUnmapped(pool') /\ control' # "terminated"
             /\ Len(pool'.softRemoveCompIndexes) <= Spare(pool')
  <2>1. HasComponent(pool, e) /\ pool' = Remove(pool, e) /\ control' = control
    BY <1>4 DEF RemoveComponent
  <2>2. CASE pool.softRemoveMode
    <3>1. NullUnmapped(pool') /\ Spare(pool') >= Spare(pool) + 1
      BY <1>0, <1>i, <1>4, <2>1, <2>2, SoftRemoveSpare
    <3> DEFINE k == SlotOf(pool, e)
    <3>2. /\ pool'.softRemoveCompIndexes = Append(pool.softRemoveCompIndexes, k)
          /\ k \in DOMAIN pool.components
      BY <1>0, <1>4, <2>1, <2>2, RemoveSoftly
    <3> HIDE DEF k
    <3>3. Len(pool'.softRemoveCompIndexes) = Len(pool.softRemoveCompIndexes) + 1
      BY <1>0, <3>2, TypeFacts, AppendProperties
    <3> QED
      BY <1>i, <1>n, <1>m, <2>1, <3>1, <3>3
  <2>3. CASE ~pool.softRemoveMode
    <3>1. NullUnmapped(pool') /\ Spare(pool') >= Spare(pool)
      BY <1>0, <1>i, <1>4, <2>1, <2>3, HardRemoveSpare
    <3>2. pool'.softRemoveCompIndexes = pool.softRemoveCompIndexes
      BY <1>0, <1>4, <2>1, <2>3, RemoveHardly
    <3> QED
      BY <1>i, <1>n, <1>m, <2>1, <3>1, <3>2
  <2> QED
    BY <2>2, <2>3
<1>5. CASE BeginIteration \/ DrainDone
  <2>1. PICK b \in BOOLEAN : pool' = [pool EXCEPT !.softRemoveMode = b]
    BY <1>5 DEF BeginIteration, DrainDone, EnableSoftRemove, DisableSoftRemove
  <2>2. /\ pool'.components = pool.components
        /\ pool'.lastCompIndex = pool.lastCompIndex
        /\ pool'.entIndexToCompIndex = pool.entIndexToCompIndex
        /\ pool'.softRemoveCompIndexes = pool.softRemoveCompIndexes
    BY <1>0, <2>1, ToggleFields
  <2>3. \A j \in DOMAIN pool.components : EntityAt(pool', j) = EntityAt(pool, j)
    BY <2>2 DEF EntityAt
  <2>4. Spare(pool') = Spare(pool)
    BY <1>0, <2>2, <2>3, SameCounts
  <2> QED
    BY <1>5, <1>i, <2>2, <2>4 DEF NullUnmapped, BeginIteration, DrainDone
<1>6. CASE Visit \/ EndIteration
  BY <1>6, <1>i DEF Visit, EndIteration
<1>7. CASE DrainStep
  <2> DEFINE k == Head(pool.softRemoveCompIndexes)
             u == [pool EXCEPT !.softRemoveCompIndexes = Tail(@)]
  <2>1. /\ PoolType(u) /\ k \in DOMAIN u.components /\ pool' = SwapOut(u, k)
        /\ u.components = pool.components
        /\ u.lastCompIndex = pool.lastCompIndex
        /\ u.entIndexToCompIndex = pool.entIndexToCompIndex
        /\ pool'.softRemoveCompIndexes = Tail(pool.softRemoveCompIndexes)
        /\ pool.softRemoveCompIndexes # << >>
    BY <1>0, <1>7, DrainOneFields DEF DrainStep
  <2> HIDE DEF u, k
  <2>2. \A j \in DOMAIN pool.components : EntityAt(u, j) = EntityAt(pool, j)
    BY <2>1 DEF EntityAt
  <2>3. Spare(u) = Spare(pool) /\ FiniteMap(u) /\ NullUnmapped(u)
    BY <1>0, <1>i, <2>1, <2>2, SameCounts DEF FiniteMap, NullUnmapped
  <2>4. Spare(pool') >= Spare(u) - 1
    BY <2>1, <2>3, SwapOutSpare
  <2>5. NullUnmapped(pool')
    BY <2>1, <2>3, SwapOutFields DEF NullUnmapped
  <2>6. /\ Len(pool.softRemoveCompIndexes) >= 1
        /\ Len(pool'.softRemoveCompIndexes) = Len(pool.softRemoveCompIndexes) - 1
    BY <1>0, <2>1, TypeFacts, HeadTailProperties, LenProperties
  <2>7. Size(pool) # 0
    <3>1. Cardinality(Mapped(pool)) + Spare(pool) <= Size(pool)
          /\ Cardinality(Mapped(pool)) \in Nat
      BY <1>0, <1>i, MappedFit, HolesFinite
    <3>2. Size(pool) \in Int
      BY <1>0, TypeFacts DEF Size
    <3> QED
      BY <1>i, <1>n, <2>6, <3>1, <3>2
  <2>8. control' # "terminated"
    BY <1>7, <2>7 DEF DrainStep
  <2> QED
    BY <1>i, <1>n, <1>m, <2>3, <2>4, <2>5, <2>6, <2>8
<1> QED
  BY <1>1, <1>2, <1>3, <1>4, <1>5, <1>6, <1>7 DEF Next, vars

LEMMA ExactNext ==
  TypeInv /\ OwnersInv /\ CountInv /\ [Next]_vars => ExactInv'
<1> SUFFICES ASSUME TypeInv, OwnersInv, CountInv, [Next]_vars,
                    taint' \cap {"reassign", "nullOwner"} = {}
             PROVE  ExactCount(pool')
  BY DEF ExactInv
<1>t. taint \cap {"reassign", "nullOwner"} = {}
  BY DEF Next, vars, Assign, WriteThroughHandle, RemoveComponent, BeginIteration,
         Visit, EndIteration, DrainStep, DrainDone
<1>i. Sound(pool)
  BY <1>t DEF TypeInv, TypeOK, CountInv, ExactInv, OwnersInv, Sound
<1>1. CASE UNCHANGED pool
  BY <1>1, <1>i DEF Sound, ExactCount
<1>2. ASSUME NEW e \in Ids, NEW v \in Values, Assign(e, v)
      PROVE  ExactCount(pool')
  <2>1. /\ pool' = NewComponent(pool, e, v) /\ Size(pool) < MaxSlots
        /\ ~HasComponent(pool, e) /\ e.index # NullId.index
    BY <1>2 DEF Assign
  <2> QED
    BY <1>i, <1>2, <2>1, NewComponentSound DEF Sound
<1>3. ASSUME NEW e \in Ids, NEW v \in Values, WriteThroughHandle(e, v)
      PROVE  ExactCount(pool')
  <2>1. /\ pool'.lastCompIndex = pool.lastCompIndex
        /\ pool'.entIndexToCompIndex = pool.entIndexToCompIndex
        /\ pool'.softRemoveCompIndexes = pool.softRemoveCompIndexes
    BY <1>i, <1>3, WriteFields DEF WriteThroughHandle, Sound
  <2> QED
    BY <1>i, <2>1 DEF Sound, ExactCount, Mapped, Size
<1>4. ASSUME NEW e \in Ids, RemoveComponent(e) PROVE ExactCount(pool')
  BY <1>i, <1>4, RemoveSound DEF RemoveComponent, Sound
<1>5. CASE BeginIteration \/ DrainDone
  <2>1. PICK b \in BOOLEAN : pool' = [pool EXCEPT !.softRemoveMode = b]
    BY <1>5 DEF BeginIteration, DrainDone, EnableSoftRemove, DisableSoftRemove
  <2> QED
    BY <1>i, <2>1, ToggleSound DEF Sound
<1>6. CASE Visit \/ EndIteration
  BY <1>1, <1>6 DEF Visit, EndIteration
<1>7. CASE DrainStep
  BY <1>i, <1>7, DrainOneSound DEF DrainStep, Sound
<1> QED
  BY <1>1, <1>2, <1>3, <1>4, <1>5, <1>6, <1>7 DEF Next, vars

LEMMA CountInvInit == Init => CountInv
<1> SUFFICES ASSUME Init PROVE CountInv
  OBVIOUS
<1>1. /\ pool.lastCompIndex = -1 /\ DOMAIN pool.entIndexToCompIndex = {}
      /\ pool.softRemoveCompIndexes = << >> /\ control = "client"
  BY DEF Init, EmptyPool
<1>2. Slots(pool) = {} /\ Mapped(pool) = {} /\ Size(pool) = 0 /\ Waiting = 0
  BY <1>1 DEF Slots, Mapped, Size, Waiting
<1>3. Holes(pool) = {} /\ Misled(pool) = {}
  BY <1>2 DEF Holes, Misled
<1>4. Spare(pool) = 0 /\ Cardinality(Mapped(pool)) = 0
  BY <1>2, <1>3, FS_EmptySet DEF Spare
<1> QED
  BY <1>1, <1>2, <1>4, FS_EmptySet
  DEF CountInv, FiniteMap, SpareInv, ExactInv, ExactCount, Waiting, NullUnmapped

LEMMA CountInvariance == Spec => []CountInv
<1>1. TypeInv /\ OwnersInv /\ CountInv /\ [Next]_vars => CountInv'
  BY FiniteMapNext, SpareNext, ExactNext DEF CountInv
<1> QED
  BY <1>1, CountInvInit, TypeInvariance, OwnersInvariance, PTL DEF Spec

(***************************************************************************)
(* The slots in use are at least as many as the mapped indexes and the     *)
(* queued slots, exactly as many for a client that never assigns twice:    *)
(* lastCompIndex counts what is stored, and never wraps below -1.          *)
(***************************************************************************)
THEOREM CountsStayInStep == Spec => []CountsAgree
<1>1. ASSUME TypeInv, CountInv, "nullOwner" \notin taint
      PROVE  Cardinality(Mapped(pool)) + Waiting <= Size(pool)
  <2>1. PoolType(pool) /\ FiniteMap(pool) /\ NullUnmapped(pool)
        /\ Waiting <= Spare(pool)
    BY <1>1 DEF TypeInv, TypeOK, CountInv, SpareInv
  <2>2. Cardinality(Mapped(pool)) + Spare(pool) <= Size(pool)
    BY <2>1, MappedFit
  <2>3. /\ Cardinality(Mapped(pool)) \in Nat /\ Spare(pool) \in Int
        /\ Waiting \in Nat /\ Size(pool) \in Int
    BY <2>1, HolesFinite, TypeFacts, LenProperties DEF Waiting, Size
  <2> QED
    BY <2>1, <2>2, <2>3
<1>2. TypeInv /\ CountInv => CountsAgree
  BY <1>1 DEF CountInv, ExactInv, ExactCount, CountsAgree, Waiting
<1> QED
  BY <1>2, CountInvariance, TypeInvariance, PTL

(***************************************************************************)
(* The destructor never throws, unless a component was assigned to the     *)
(* null entity's index: there is a slot in use for every queued one, even  *)
(* after reassignments and swaps that lose components.                     *)
(***************************************************************************)
THEOREM DestructorNeverThrows == Spec => []NeverTerminates
<1>1. CountInv => NeverTerminates
  BY DEF CountInv, SpareInv, NeverTerminates
<1> QED
  BY <1>1, CountInvariance, PTL
=============================================================================
