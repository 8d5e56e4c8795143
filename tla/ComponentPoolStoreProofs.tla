---------------------- MODULE ComponentPoolStoreProofs ----------------------
(***************************************************************************)
(* The proof that a component pool implements the abstract store: each     *)
(* step of an untainted pool is a step of the store, or leaves it alone.   *)
(***************************************************************************)
EXTENDS ComponentPoolProofs

\* Pools that lead the same indexes to the same components are one store.
LEMMA SameStore ==
  ASSUME NEW p, NEW q, Mapped(q) = Mapped(p),
         \A i \in Mapped(p) : ComponentOf(q, i) = ComponentOf(p, i)
  PROVE  StoreOf(q) = StoreOf(p)
  BY DEF StoreOf

LEMMA StoreFields ==
  ASSUME NEW p
  PROVE  /\ DOMAIN StoreOf(p) = Mapped(p)
         /\ \A i \in Mapped(p) : /\ StoreOf(p)[i].id = ComponentOf(p, i).first
                                 /\ StoreOf(p)[i].value = ComponentOf(p, i).second
  BY DEF StoreOf

LEMMA NewComponentStore ==
  ASSUME NEW p, PoolType(p), MappedInUse(p),
         NEW e \in Ids, NEW v \in Values, Size(p) < MaxSlots,
         NEW q, q = NewComponent(p, e, v)
  PROVE  /\ Mapped(q) = Mapped(p) \cup {e.index}
         /\ ComponentOf(q, e.index).first = e
         /\ ComponentOf(q, e.index).second = v
         /\ \A i \in Mapped(p) \ {e.index} : ComponentOf(q, i) = ComponentOf(p, i)
<1> DEFINE k == p.lastCompIndex + 1
<1>1. /\ EntityAt(q, k) = e
      /\ q.components[k].second = v
      /\ \A j \in DOMAIN p.components \ {k} : q.components[j] = p.components[j]
      /\ DOMAIN q.entIndexToCompIndex = DOMAIN p.entIndexToCompIndex \cup {e.index}
      /\ q.entIndexToCompIndex[e.index] = k
      /\ \A i \in DOMAIN p.entIndexToCompIndex \ {e.index} :
           q.entIndexToCompIndex[i] = p.entIndexToCompIndex[i]
  BY NewComponentFields
<1>2. k # INVALID_COMP_INDEX /\ k \notin Slots(p)
  BY TypeFacts DEF INVALID_COMP_INDEX, Slots
<1> HIDE DEF k
<1>3. Mapped(q) = Mapped(p) \cup {e.index}
  BY <1>1, <1>2 DEF Mapped
<1>4. ASSUME NEW i \in Mapped(p) \ {e.index}
      PROVE  ComponentOf(q, i) = ComponentOf(p, i)
  <2>1. /\ i \in DOMAIN p.entIndexToCompIndex
        /\ p.entIndexToCompIndex[i] \in Slots(p)
    BY <1>4 DEF Mapped, MappedInUse
  <2> QED
    BY <1>1, <1>2, <2>1, TypeFacts DEF ComponentOf
<1> QED
  BY <1>1, <1>3, <1>4 DEF ComponentOf, EntityAt

\* Swapping out a slot nobody is mapped to moves what somebody is mapped to
\* along with the mapping.
LEMMA SwapOutStore ==
  ASSUME NEW p, PoolType(p), NullUnmapped(p), MappedInUse(p),
         NEW k \in Slots(p), \A j \in Slots(p) \ {k} : OwnerMapped(p, j),
         \A i \in Mapped(p) : p.entIndexToCompIndex[i] # k,
         NEW q, q = SwapOut(p, k)
  PROVE  /\ Mapped(q) = Mapped(p)
         /\ \A i \in Mapped(p) : ComponentOf(q, i) = ComponentOf(p, i)
<1> DEFINE last == p.lastCompIndex
<1>1. last # -1 /\ last \in Slots(p) /\ k \in DOMAIN p.components
      /\ Slots(p) \subseteq DOMAIN p.components
  BY TypeFacts DEF Slots
<1>2. /\ \A j \in DOMAIN p.components :
           q.components[j] = IF j = k THEN p.components[last]
                             ELSE IF j = last THEN p.components[k]
                             ELSE p.components[j]
      /\ \A i \in DOMAIN p.entIndexToCompIndex :
           q.entIndexToCompIndex[i] =
             IF k # last /\ i = EntityAt(p, last).index
               THEN k ELSE p.entIndexToCompIndex[i]
  BY <1>1, SwapOutFields
<1>3. Mapped(q) = Mapped(p)
  BY <1>1, SwapOutMapped
<1> HIDE DEF last
<1>4. ASSUME NEW i \in Mapped(p) PROVE ComponentOf(q, i) = ComponentOf(p, i)
  <2> DEFINE m == p.entIndexToCompIndex[i]
  <2>1. /\ i \in DOMAIN p.entIndexToCompIndex
        /\ m \in Slots(p) /\ EntityAt(p, m).index = i /\ m # k
    BY <1>4 DEF Mapped, MappedInUse
  <2> HIDE DEF m
  <2>2. CASE m = last
    <3>1. q.entIndexToCompIndex[i] = k
      BY <1>2, <2>1, <2>2
    <3>2. q.components[k] = p.components[last]
      BY <1>1, <1>2
    <3> QED
      BY <2>2, <3>1, <3>2 DEF ComponentOf, m
  <2>3. CASE m # last
    <3>1. ~(k # last /\ i = EntityAt(p, last).index)
      <4>1. SUFFICES ASSUME k # last, i = EntityAt(p, last).index PROVE FALSE
        OBVIOUS
      <4>2. OwnerMapped(p, last) /\ EntityAt(p, last) # NullId
        BY <1>1, <2>1, <4>1 DEF NullUnmapped
      <4> QED
        BY <2>3, <4>1, <4>2 DEF OwnerMapped, SlotOf, m
    <3>2. q.entIndexToCompIndex[i] = m
      BY <1>2, <2>1, <3>1 DEF m
    <3>3. q.components[m] = p.components[m]
      BY <1>1, <1>2, <2>1, <2>3
    <3> QED
      BY <3>2, <3>3 DEF ComponentOf, m
  <2> QED
    BY <2>2, <2>3
<1> QED
  BY <1>3, <1>4

LEMMA RemoveStore ==
  ASSUME NEW p, PoolType(p), NullUnmapped(p), MappedInUse(p), OwnersMapped(p),
         NEW e \in Ids, HasComponent(p, e),
         NEW q, q = Remove(p, e)
  PROVE  /\ e.index \in Mapped(p)
         /\ Mapped(q) = Mapped(p) \ {e.index}
         /\ \A i \in Mapped(q) : ComponentOf(q, i) = ComponentOf(p, i)
<1> DEFINE k == SlotOf(p, e)
<1>1. /\ e.index \in Mapped(p) /\ k = p.entIndexToCompIndex[e.index]
      /\ k \in Slots(p) /\ EntityAt(p, k).index = e.index
  BY MappedFacts DEF MappedInUse, SlotOf
<1>2. \A i \in Mapped(p) \ {e.index} :
        /\ i \in DOMAIN p.entIndexToCompIndex
        /\ p.entIndexToCompIndex[i] \in DOMAIN p.components
        /\ p.entIndexToCompIndex[i] # k
  BY <1>1, MappedFacts DEF MappedInUse
<1>3. CASE p.softRemoveMode
  <2>1. /\ \A j \in DOMAIN p.components \ {k} : q.components[j] = p.components[j]
        /\ DOMAIN q.entIndexToCompIndex = DOMAIN p.entIndexToCompIndex
        /\ \A i \in DOMAIN p.entIndexToCompIndex :
             q.entIndexToCompIndex[i] =
               IF i = e.index THEN INVALID_COMP_INDEX ELSE p.entIndexToCompIndex[i]
    BY <1>3, RemoveSoftly
  <2> HIDE DEF k
  <2>2. Mapped(q) = Mapped(p) \ {e.index}
    BY <2>1 DEF Mapped
  <2> QED
    BY <1>1, <1>2, <2>1, <2>2 DEF ComponentOf
<1>4. CASE ~p.softRemoveMode
  <2> DEFINE u == [p EXCEPT !.entIndexToCompIndex[e.index] = INVALID_COMP_INDEX]
  <2>1. PoolType(u) /\ q = SwapOut(u, k)
    BY <1>4, RemoveHardly
  <2>2. /\ u.components = p.components
        /\ u.lastCompIndex = p.lastCompIndex
        /\ DOMAIN u.entIndexToCompIndex = DOMAIN p.entIndexToCompIndex
        /\ \A i \in DOMAIN p.entIndexToCompIndex :
             u.entIndexToCompIndex[i] =
               IF i = e.index THEN INVALID_COMP_INDEX ELSE p.entIndexToCompIndex[i]
    BY UnmapFields
  <2> HIDE DEF u
  <2>3. /\ NullUnmapped(u) /\ Slots(u) = Slots(p)
        /\ \A j : EntityAt(u, j) = EntityAt(p, j)
    BY <2>2 DEF NullUnmapped, Slots, EntityAt
  <2>4. /\ Mapped(u) = Mapped(p) \ {e.index}
        /\ \A i \in Mapped(u) : /\ u.entIndexToCompIndex[i] = p.entIndexToCompIndex[i]
                                /\ ComponentOf(u, i) = ComponentOf(p, i)
    BY <2>2 DEF Mapped, ComponentOf
  <2>5. MappedInUse(u) /\ \A i \in Mapped(u) : u.entIndexToCompIndex[i] # k
    BY <1>2, <2>3, <2>4 DEF MappedInUse
  <2>6. \A j \in Slots(u) \ {k} : OwnerMapped(u, j)
    BY <2>2, <2>3, UnmapOwners
  <2> HIDE DEF k
  <2>7. /\ Mapped(q) = Mapped(u)
        /\ \A i \in Mapped(u) : ComponentOf(q, i) = ComponentOf(u, i)
    BY <1>1, <2>1, <2>3, <2>5, <2>6, SwapOutStore
  <2> QED
    BY <1>1, <2>4, <2>7
<1> QED
  BY <1>3, <1>4

LEMMA WriteStore ==
  ASSUME NEW p, PoolType(p), MappedInUse(p), NEW e \in Ids, HasComponent(p, e),
         NEW v \in Values, NEW q, q = WriteComponent(p, e, v)
  PROVE  /\ e.index \in Mapped(p)
         /\ Mapped(q) = Mapped(p)
         /\ ComponentOf(q, e.index).first = ComponentOf(p, e.index).first
         /\ ComponentOf(q, e.index).second = v
         /\ \A i \in Mapped(p) \ {e.index} : ComponentOf(q, i) = ComponentOf(p, i)
<1> DEFINE k == SlotOf(p, e)
<1>1. q.components = [p.components EXCEPT ![k].second = v]
      /\ q.entIndexToCompIndex = p.entIndexToCompIndex
  BY DEF WriteComponent, PoolType, PoolRecord
<1>2. /\ e.index \in Mapped(p) /\ k = p.entIndexToCompIndex[e.index]
      /\ k \in DOMAIN p.components /\ EntityAt(p, k).index = e.index
  BY MappedFacts DEF MappedInUse, SlotOf
<1>3. \A i \in Mapped(p) \ {e.index} : p.entIndexToCompIndex[i] # k
  BY <1>2 DEF MappedInUse
<1> HIDE DEF k
<1>4. /\ q.components[k].first = p.components[k].first
      /\ q.components[k].second = v
      /\ \A j \in DOMAIN p.components \ {k} : q.components[j] = p.components[j]
  BY <1>1, <1>2, TypeFacts DEF Component
<1>5. Mapped(q) = Mapped(p)
  BY <1>1 DEF Mapped
<1> QED
  BY <1>1, <1>2, <1>3, <1>4, <1>5, MappedFacts DEF ComponentOf

LEMMA DrainOneStore ==
  ASSUME NEW p, PoolType(p), NullUnmapped(p), MappedInUse(p), QueueIsHoles(p),
         OwnersMapped(p), p.softRemoveCompIndexes # << >>,
         NEW q, q = DrainOne(p)
  PROVE  /\ Mapped(q) = Mapped(p)
         /\ \A i \in Mapped(p) : ComponentOf(q, i) = ComponentOf(p, i)
<1> DEFINE k == Head(p.softRemoveCompIndexes)
           u == [p EXCEPT !.softRemoveCompIndexes = Tail(@)]
<1>1. /\ PoolType(u) /\ q = SwapOut(u, k)
      /\ u.components = p.components
      /\ u.lastCompIndex = p.lastCompIndex
      /\ u.entIndexToCompIndex = p.entIndexToCompIndex
  BY DrainOneFields
<1>2. k \in Slots(p) /\ EntityAt(p, k) = NullId
  <2>1. 1 \in DOMAIN p.softRemoveCompIndexes /\ k = p.softRemoveCompIndexes[1]
    BY TypeFacts, HeadTailProperties, LenProperties
  <2>2. k \in Queued(p)
    BY <2>1 DEF Queued
  <2> QED
    BY <2>2 DEF QueueIsHoles
<1> HIDE DEF k, u
<1>3. /\ Slots(u) = Slots(p) /\ Mapped(u) = Mapped(p)
      /\ \A j : EntityAt(u, j) = EntityAt(p, j)
      /\ \A i : ComponentOf(u, i) = ComponentOf(p, i)
      /\ \A j \in Slots(u) : OwnerMapped(u, j)
  BY <1>1
  DEF Slots, Mapped, EntityAt, ComponentOf, OwnersMapped, OwnerMapped,
      HasComponent, SlotOf
<1>4. NullUnmapped(u) /\ MappedInUse(u)
  BY <1>1, <1>3 DEF NullUnmapped, MappedInUse
<1>5. \A i \in Mapped(u) : u.entIndexToCompIndex[i] # k
  BY <1>2, <1>3, <1>4, OwnerIndexes
<1>6. /\ Mapped(q) = Mapped(u)
      /\ \A i \in Mapped(u) : ComponentOf(q, i) = ComponentOf(u, i)
  BY <1>1, <1>2, <1>3, <1>4, <1>5, SwapOutStore
<1> QED
  BY <1>3, <1>6

-----------------------------------------------------------------------------
(* The steps of an untainted pool. *)

Tidy(p) ==
  /\ PoolType(p) /\ NullUnmapped(p) /\ OwnersMapped(p)
  /\ MappedInUse(p) /\ QueueIsHoles(p)

LEMMA SlotsAhead ==
  ASSUME TypeInv, Iterating
  PROVE  \A k \in iter.pos .. iter.end - 1 :
           k \in Slots(pool) /\ k \in DOMAIN pool.components
<1>1. PoolType(pool) /\ IterType(iter)
  BY DEF TypeInv, TypeOK
<1> QED
  BY <1>1, TypeFacts DEF TypeInv, IterationInBounds, IterType, Slots, Size

\* The owners ahead stay so while slots and iterator do.
LEMMA SameAhead ==
  ASSUME TypeInv, Iterating' = Iterating,
         Iterating => /\ iter'.pos = iter.pos /\ iter'.end = iter.end
                      /\ \A k \in Slots(pool) : EntityAt(pool', k) = EntityAt(pool, k)
  PROVE  OwnersAhead' = OwnersAhead
<1>1. CASE Iterating
  <2>1. \A k \in iter.pos .. iter.end - 1 : EntityAt(pool', k) = EntityAt(pool, k)
    BY <1>1, SlotsAhead
  <2>2. {EntityAt(pool', k) : k \in iter.pos .. iter.end - 1} =
          {EntityAt(pool, k) : k \in iter.pos .. iter.end - 1}
    BY <2>1
  <2> QED
    BY <1>1, <2>2 DEF OwnersAhead
<1>2. CASE ~Iterating
  BY <1>2 DEF OwnersAhead
<1> QED
  BY <1>1, <1>2

LEMMA AssignAdds ==
  ASSUME TypeInv, Tidy(pool), NEW e \in Ids, NEW v \in Values, Assign(e, v),
         ~HasComponent(pool, e)
  PROVE  Store!Add(e, v)
<1>0. PoolType(pool) /\ MappedInUse(pool)
  BY DEF Tidy
<1>1. pool' = NewComponent(pool, e, v) /\ Size(pool) < MaxSlots
      /\ control' = control /\ iter' = iter
  BY DEF Assign
<1>2. /\ Mapped(pool') = Mapped(pool) \cup {e.index}
      /\ ComponentOf(pool', e.index).first = e
      /\ ComponentOf(pool', e.index).second = v
      /\ \A i \in Mapped(pool) \ {e.index} :
           ComponentOf(pool', i) = ComponentOf(pool, i)
  BY <1>0, <1>1, NewComponentStore
<1>3. e.index \notin Mapped(pool)
  BY <1>0, MappedFacts
<1>4. StoreOf(pool') = [i \in Mapped(pool) \cup {e.index} |->
                          IF i = e.index THEN [id |-> e, value |-> v]
                                         ELSE StoreOf(pool)[i]]
  BY <1>2, <1>3 DEF StoreOf
<1>5. pool'.softRemoveMode = pool.softRemoveMode
      /\ \A k \in Slots(pool) : EntityAt(pool', k) = EntityAt(pool, k)
  <2>1. /\ pool'.softRemoveMode = pool.softRemoveMode
        /\ \A j \in DOMAIN pool.components \ {pool.lastCompIndex + 1} :
             pool'.components[j] = pool.components[j]
    BY <1>0, <1>1, NewComponentFields
  <2>2. pool.lastCompIndex + 1 \notin Slots(pool)
    BY <1>0, TypeFacts DEF Slots
  <2> QED
    BY <1>0, <2>1, <2>2, TypeFacts DEF EntityAt
<1>6. Iterating' = Iterating
  BY <1>1, <1>5 DEF Iterating
<1>7. OwnersAhead' = OwnersAhead
  BY <1>1, <1>5, <1>6, SameAhead
<1>8. DOMAIN StoreOf(pool) = Mapped(pool)
  BY StoreFields
<1> QED
  BY <1>3, <1>4, <1>6, <1>7, <1>8 DEF Store!Add

LEMMA WriteWrites ==
  ASSUME TypeInv, Tidy(pool), NEW e \in Ids, NEW v \in Values,
         WriteThroughHandle(e, v)
  PROVE  Store!Write(e.index, v)
<1>0. PoolType(pool) /\ MappedInUse(pool)
  BY DEF Tidy
<1>1. HasComponent(pool, e) /\ pool' = WriteComponent(pool, e, v)
      /\ control' = control /\ iter' = iter
  BY DEF WriteThroughHandle
<1>2. /\ e.index \in Mapped(pool)
      /\ Mapped(pool') = Mapped(pool)
      /\ ComponentOf(pool', e.index).first = ComponentOf(pool, e.index).first
      /\ ComponentOf(pool', e.index).second = v
      /\ \A i \in Mapped(pool) \ {e.index} :
           ComponentOf(pool', i) = ComponentOf(pool, i)
  BY <1>0, <1>1, WriteStore
<1>3. StoreOf(pool') = [StoreOf(pool) EXCEPT ![e.index].value = v]
  BY <1>2 DEF StoreOf
<1>4. pool'.softRemoveMode = pool.softRemoveMode
      /\ \A k \in Slots(pool) : EntityAt(pool', k) = EntityAt(pool, k)
  BY <1>0, <1>1, WriteFields, TypeFacts
<1>5. Iterating' = Iterating
  BY <1>1, <1>4 DEF Iterating
<1>6. OwnersAhead' = OwnersAhead
  BY <1>1, <1>4, <1>5, SameAhead
<1>7. DOMAIN StoreOf(pool) = Mapped(pool)
  BY StoreFields
<1> QED
  BY <1>2, <1>3, <1>5, <1>6, <1>7 DEF Store!Write

LEMMA RemoveDeletes ==
  ASSUME TypeInv, Tidy(pool), NEW e \in Ids, RemoveComponent(e)
  PROVE  Store!Delete(e.index)
<1>0. PoolType(pool) /\ MappedInUse(pool) /\ NullUnmapped(pool)
      /\ OwnersMapped(pool) /\ IterType(iter)
  BY DEF Tidy, TypeInv, TypeOK
<1>1. /\ HasComponent(pool, e) /\ pool' = Remove(pool, e)
      /\ control = "client" /\ control' = control
      /\ iter' = [iter EXCEPT !.snapshot = {f \in @ : f.index # e.index}]
  BY DEF RemoveComponent
<1>2. /\ e.index \in Mapped(pool)
      /\ Mapped(pool') = Mapped(pool) \ {e.index}
      /\ \A i \in Mapped(pool') : ComponentOf(pool', i) = ComponentOf(pool, i)
  BY <1>0, <1>1, RemoveStore
<1>3. StoreOf(pool') = [j \in Mapped(pool) \ {e.index} |-> StoreOf(pool)[j]]
  BY <1>2 DEF StoreOf
<1>4. Iterating' = Iterating
  <2>1. pool'.softRemoveMode = pool.softRemoveMode
    BY <1>0, <1>1, RemoveType
  <2> QED
    BY <1>1, <2>1 DEF Iterating
<1>5. OwnersAhead' = {f \in OwnersAhead : f.index # e.index}
  <2>1. CASE ~Iterating
    BY <1>4, <2>1 DEF OwnersAhead
  <2>2. CASE Iterating
    <3> DEFINE k == SlotOf(pool, e)
               R == iter.pos .. iter.end - 1
    <3>1. iter'.pos = iter.pos /\ iter'.end = iter.end
      BY <1>0, <1>1 DEF IterType
    <3>2. /\ EntityAt(pool', k) = NullId
          /\ \A j \in DOMAIN pool.components \ {k} :
               pool'.components[j] = pool.components[j]
      BY <1>0, <1>1, <2>2, RemoveSoftly DEF Iterating
    <3>3. EntityAt(pool, k).index = e.index
      BY <1>0, <1>1, MappedFacts DEF MappedInUse, SlotOf
    <3>4. ASSUME NEW j \in R
          PROVE  /\ EntityAt(pool', j) # NullId =>
                      /\ EntityAt(pool', j) = EntityAt(pool, j)
                      /\ EntityAt(pool, j).index # e.index
                 /\ EntityAt(pool, j) # NullId /\ EntityAt(pool, j).index # e.index
                      => EntityAt(pool', j) = EntityAt(pool, j)
      <4>1. j \in Slots(pool) /\ j \in DOMAIN pool.components
        BY <2>2, SlotsAhead
      <4>2. CASE j = k
        BY <3>2, <3>3, <4>2
      <4>3. CASE j # k
        <5>1. EntityAt(pool', j) = EntityAt(pool, j)
          BY <3>2, <4>1, <4>3 DEF EntityAt
        <5>2. OwnerMapped(pool, j)
          BY <1>0, <4>1 DEF OwnersMapped
        <5>3. EntityAt(pool, j) # NullId => EntityAt(pool, j).index # e.index
          BY <4>3, <5>2 DEF OwnerMapped, SlotOf
        <5> QED
          BY <5>1, <5>3
      <4> QED
        BY <4>2, <4>3
    <3>5. /\ OwnersAhead = {EntityAt(pool, j) : j \in R} \ {NullId}
          /\ OwnersAhead' = {EntityAt(pool', j) : j \in R} \ {NullId}
      BY <1>4, <2>2, <3>1 DEF OwnersAhead
    <3> HIDE DEF R, k
    <3> QED
      BY <3>4, <3>5
  <2> QED
    BY <2>1, <2>2
<1>6. DOMAIN StoreOf(pool) = Mapped(pool)
  BY StoreFields
<1> QED
  BY <1>2, <1>3, <1>4, <1>5, <1>6 DEF Store!Delete

LEMMA BeginBegins ==
  ASSUME TypeInv, Tidy(pool), BeginIteration
  PROVE  Store!Begin
<1>0. PoolType(pool) /\ MappedInUse(pool) /\ NullUnmapped(pool) /\ OwnersMapped(pool)
  BY DEF Tidy
<1>1. /\ pool' = [pool EXCEPT !.softRemoveMode = TRUE]
      /\ control = "client" /\ control' = control /\ ~pool.softRemoveMode
      /\ iter'.pos = 0 /\ iter'.end = Size(pool)
  BY DEF BeginIteration, EnableSoftRemove
<1>2. /\ pool'.components = pool.components
      /\ pool'.entIndexToCompIndex = pool.entIndexToCompIndex
      /\ pool'.softRemoveMode = TRUE
  BY <1>0, <1>1, ToggleFields
<1>3. ~Iterating /\ Iterating' = TRUE
  BY <1>1, <1>2 DEF Iterating
<1>4. StoreOf(pool') = StoreOf(pool)
  BY <1>2 DEF StoreOf, Mapped, ComponentOf
<1>5. OwnersAhead' = {EntityAt(pool, k) : k \in Slots(pool)} \ {NullId}
  <2>1. iter'.pos .. iter'.end - 1 = Slots(pool)
    BY <1>0, <1>1, TypeFacts DEF Slots, Size
  <2>2. OwnersAhead' =
          {EntityAt(pool', k) : k \in iter'.pos .. iter'.end - 1} \ {NullId}
    BY <1>3 DEF OwnersAhead
  <2> QED
    BY <1>2, <2>1, <2>2 DEF EntityAt
<1>6. {StoreOf(pool)[i].id : i \in DOMAIN StoreOf(pool)} =
        {EntityAt(pool, k) : k \in Slots(pool)} \ {NullId}
  <2>1. \A i \in Mapped(pool) :
          /\ pool.entIndexToCompIndex[i] \in Slots(pool)
          /\ EntityAt(pool, pool.entIndexToCompIndex[i]) # NullId
          /\ StoreOf(pool)[i].id = EntityAt(pool, pool.entIndexToCompIndex[i])
    BY <1>0, OwnerIndexes, StoreFields DEF MappedInUse, ComponentOf, EntityAt
  <2>2. ASSUME NEW k \in Slots(pool), EntityAt(pool, k) # NullId
        PROVE  \E i \in Mapped(pool) : StoreOf(pool)[i].id = EntityAt(pool, k)
    <3>1. OwnerMapped(pool, k)
      BY <1>0, <2>2 DEF OwnersMapped
    <3>2. /\ EntityAt(pool, k).index \in Mapped(pool)
          /\ pool.entIndexToCompIndex[EntityAt(pool, k).index] = k
      BY <1>0, <2>2, <3>1, MappedFacts DEF OwnerMapped, SlotOf
    <3> QED
      BY <2>1, <3>2
  <2>3. DOMAIN StoreOf(pool) = Mapped(pool)
    BY StoreFields
  <2> QED
    BY <2>1, <2>2, <2>3
<1> QED
  BY <1>3, <1>4, <1>5, <1>6 DEF Store!Begin

LEMMA VisitVisits ==
  ASSUME TypeInv, Tidy(pool), Visit
  PROVE  IF EntityAt(pool, iter.pos) = NullId
           THEN UNCHANGED <<StoreOf(pool), Iterating, OwnersAhead>>
           ELSE /\ EntityAt(pool, iter.pos) \in Ids
                /\ Store!Visit(EntityAt(pool, iter.pos))
<1> DEFINE f == EntityAt(pool, iter.pos)
           R == iter.pos .. iter.end - 1
           T == iter.pos + 1 .. iter.end - 1
<1>0. PoolType(pool) /\ OwnersMapped(pool) /\ IterType(iter)
  BY DEF Tidy, TypeInv, TypeOK
<1>1. /\ Iterating /\ pool' = pool /\ control' = control
      /\ iter.pos < iter.end
      /\ iter'.pos = iter.pos + 1 /\ iter'.end = iter.end
  BY <1>0 DEF Visit, IterType
<1>2. /\ iter.pos \in R /\ T = R \ {iter.pos}
      /\ iter.pos \in Slots(pool) /\ iter.pos \in DOMAIN pool.components
  BY <1>0, <1>1, SlotsAhead DEF IterType
<1>3. f \in Ids \cup {NullId}
  <2>1. pool.components[iter.pos] \in Component
    BY <1>0, <1>2, TypeFacts
  <2> QED
    BY <2>1 DEF Component, EntityAt
<1>4. Iterating' = Iterating /\ StoreOf(pool') = StoreOf(pool)
  BY <1>1 DEF Iterating
<1>5. /\ OwnersAhead = {EntityAt(pool, k) : k \in R} \ {NullId}
      /\ OwnersAhead' = {EntityAt(pool, k) : k \in T} \ {NullId}
  BY <1>1, <1>4 DEF OwnersAhead
<1>6. \A k \in R : EntityAt(pool, k) = f /\ f # NullId => k = iter.pos
  <2>1. SUFFICES ASSUME NEW k \in R, EntityAt(pool, k) = f, f # NullId
                 PROVE  k = iter.pos
    OBVIOUS
  <2>2. OwnerMapped(pool, k) /\ OwnerMapped(pool, iter.pos)
    BY <1>0, <1>1, <1>2, SlotsAhead DEF OwnersMapped
  <2> QED
    BY <2>1, <2>2 DEF OwnerMapped
<1>7. f = EntityAt(pool, iter.pos)
  OBVIOUS
<1> HIDE DEF f, R, T
<1>8. OwnersAhead' = OwnersAhead \ {f}
  BY <1>2, <1>5, <1>6, <1>7
<1>9. f # NullId => f \in OwnersAhead
  BY <1>2, <1>5, <1>7
<1>10. f = NullId => OwnersAhead' = OwnersAhead
  BY <1>5, <1>8
<1>11. CASE f = NullId
  BY <1>4, <1>7, <1>10, <1>11
<1>12. CASE f # NullId
  <2>1. Store!Visit(f)
    BY <1>4, <1>8, <1>9, <1>12 DEF Store!Visit
  <2> QED
    BY <1>3, <1>7, <1>12, <2>1
<1> QED
  BY <1>11, <1>12

LEMMA EndEnds ==
  ASSUME EndIteration
  PROVE  Store!End
  BY DEF EndIteration, Store!End, Iterating, OwnersAhead

\* The destructor's loop is invisible.
LEMMA DrainHides ==
  ASSUME TypeInv, Tidy(pool), DrainStep \/ DrainDone
  PROVE  UNCHANGED <<StoreOf(pool), Iterating, OwnersAhead>>
<1>0. PoolType(pool)
  BY DEF Tidy
<1>1. ~Iterating /\ ~Iterating'
  <2>1. CASE DrainStep
    BY <2>1 DEF DrainStep, Iterating
  <2>2. CASE DrainDone
    <3>1. pool'.softRemoveMode = FALSE
      BY <1>0, <2>2, ToggleFields DEF DrainDone, DisableSoftRemove
    <3> QED
      BY <2>2, <3>1 DEF DrainDone, Iterating
  <2> QED
    BY <2>1, <2>2
<1>2. StoreOf(pool') = StoreOf(pool)
  <2>1. CASE DrainStep
    <3>1. /\ Mapped(pool') = Mapped(pool)
          /\ \A i \in Mapped(pool) : ComponentOf(pool', i) = ComponentOf(pool, i)
      BY <2>1, DrainOneStore DEF DrainStep, Tidy
    <3> QED
      BY <3>1, SameStore
  <2>2. CASE DrainDone
    <3>1. /\ pool'.components = pool.components
          /\ pool'.entIndexToCompIndex = pool.entIndexToCompIndex
      BY <1>0, <2>2, ToggleFields DEF DrainDone, DisableSoftRemove
    <3> QED
      BY <3>1 DEF StoreOf, Mapped, ComponentOf
  <2> QED
    BY <2>1, <2>2
<1>3. OwnersAhead = {} /\ OwnersAhead' = {}
  BY <1>1 DEF OwnersAhead
<1>4. Iterating' = Iterating
  BY <1>1 DEF Iterating
<1> QED
  BY <1>2, <1>3, <1>4

LEMMA StoreNext ==
  TypeInv /\ OwnersInv /\ NoHoles /\ [Next]_vars /\ taint' = {} =>
    [Store!Next]_Store!vars
<1> SUFFICES ASSUME TypeInv, OwnersInv, NoHoles, [Next]_vars, taint' = {}
             PROVE  Store!Next \/ UNCHANGED <<StoreOf(pool), Iterating, OwnersAhead>>
  BY DEF Store!vars
<1>1. Tidy(pool)
  <2>1. taint = {}
    BY DEF Next, vars, Assign, WriteThroughHandle, RemoveComponent, BeginIteration,
           Visit, EndIteration, DrainStep, DrainDone
  <2> QED
    BY <2>1 DEF Tidy, TypeInv, TypeOK, OwnersInv, NoHoles
<1>2. ASSUME NEW e \in Ids, NEW v \in Values, Assign(e, v) PROVE Store!Next
  <2>1. ~HasComponent(pool, e)
    BY <1>2 DEF Assign
  <2>2. Store!Add(e, v)
    BY <1>1, <1>2, <2>1, AssignAdds
  <2> QED
    BY <2>2 DEF Store!Next
<1>3. ASSUME NEW e \in Ids, NEW v \in Values, WriteThroughHandle(e, v)
      PROVE  Store!Next
  <2>1. Store!Write(e.index, v)
    BY <1>1, <1>3, WriteWrites
  <2> QED
    BY <2>1 DEF Store!Next
<1>4. ASSUME NEW e \in Ids, RemoveComponent(e) PROVE Store!Next
  <2>1. Store!Delete(e.index)
    BY <1>1, <1>4, RemoveDeletes
  <2> QED
    BY <2>1 DEF Store!Next
<1>5. CASE BeginIteration
  BY <1>1, <1>5, BeginBegins DEF Store!Next
<1>6. CASE Visit
  <2>1. CASE EntityAt(pool, iter.pos) = NullId
    BY <1>1, <1>6, <2>1, VisitVisits
  <2>2. CASE EntityAt(pool, iter.pos) # NullId
    <3>1. /\ EntityAt(pool, iter.pos) \in Ids
          /\ Store!Visit(EntityAt(pool, iter.pos))
      BY <1>1, <1>6, <2>2, VisitVisits
    <3> QED
      BY <3>1 DEF Store!Next
  <2> QED
    BY <2>1, <2>2
<1>7. CASE EndIteration
  BY <1>7, EndEnds DEF Store!Next
<1>8. CASE DrainStep \/ DrainDone
  BY <1>1, <1>8, DrainHides
<1>9. CASE UNCHANGED vars
  BY <1>9 DEF vars, Iterating, OwnersAhead, StoreOf
<1> QED
  BY <1>2, <1>3, <1>4, <1>5, <1>6, <1>7, <1>8, <1>9 DEF Next

(***************************************************************************)
(* An untainted pool implements the abstract store: whatever its swaps,    *)
(* soft removals and the destructor's loop do to the slots, a client sees  *)
(* a map from indexes to components and iterations that visit each holder. *)
(***************************************************************************)
THEOREM PoolImplementsStore == Spec => ImplementsStore
<1>1. Init => Store!Init
  <2> SUFFICES ASSUME Init PROVE Store!Init
    OBVIOUS
  <2>1. /\ DOMAIN pool.entIndexToCompIndex = {} /\ pool.softRemoveMode = FALSE
    BY DEF Init, EmptyPool
  <2>2. Mapped(pool) = {} /\ Iterating = FALSE
    BY <2>1 DEF Mapped, Iterating
  <2>3. StoreOf(pool) = [i \in {} |-> [id |-> {}, value |-> {}]]
    BY <2>2 DEF StoreOf
  <2>4. OwnersAhead = {}
    BY <2>2 DEF OwnersAhead
  <2> QED
    BY <2>2, <2>3, <2>4 DEF Store!Init
<1>2. TypeInv /\ OwnersInv /\ NoHoles /\ [Next]_vars =>
        [taint' = {} => [Store!Next]_Store!vars]_vars
  BY StoreNext
<1> QED
  BY <1>1, <1>2, HolesAreQueued, OwnersInvariance, TypeInvariance, PTL
  DEF Spec, ImplementsStore
=============================================================================
