------------------------ MODULE ComponentStorageProofs ------------------------
(***************************************************************************)
(* What the operators of ComponentStorage do to a pool and keep of it, for *)
(* every set of ids and values and every bound on the slots.  The proofs   *)
(* about one pool (ComponentPoolProofs) and about the pools of the         *)
(* component manager (EcsProofs) rest on these lemmas.                     *)
(***************************************************************************)
EXTENDS ComponentStorage, SequenceTheorems, FiniteSetTheorems, TLAPS

Vectors == UNION {[0 .. n - 1 -> Component] : n \in 0 .. MaxSlots}

IndexMaps == UNION {[D -> {INVALID_COMP_INDEX} \cup SlotNumbers] :
                      D \in SUBSET {e.index : e \in Ids}}

-----------------------------------------------------------------------------
(* What each operator of ComponentStorage does to each member. *)

LEMMA PoolRecordFields ==
  PoolRecord = [ components : Vectors,
                 lastCompIndex : {-1} \cup SlotNumbers,
                 entIndexToCompIndex : IndexMaps,
                 softRemoveMode : BOOLEAN,
                 softRemoveCompIndexes : Seq(SlotNumbers) ]
  BY DEF PoolRecord, Vectors, IndexMaps

LEMMA TypeFacts ==
  ASSUME NEW p, PoolType(p)
  PROVE  /\ p.components \in Vectors
         /\ p.components \in [DOMAIN p.components -> Component]
         /\ DOMAIN p.components \subseteq SlotNumbers
         /\ p.lastCompIndex \in Int
         /\ p.lastCompIndex >= -1
         /\ Slots(p) \subseteq DOMAIN p.components
         /\ p.lastCompIndex # -1 => p.lastCompIndex \in DOMAIN p.components
         /\ p.entIndexToCompIndex \in IndexMaps
         /\ DOMAIN p.entIndexToCompIndex \subseteq {e.index : e \in Ids}
         /\ p.entIndexToCompIndex \in
              [DOMAIN p.entIndexToCompIndex ->
                 {INVALID_COMP_INDEX} \cup DOMAIN p.components]
         /\ p.softRemoveMode \in BOOLEAN
         /\ p.softRemoveCompIndexes \in Seq(DOMAIN p.components)
<1>1. /\ p.components \in Vectors
      /\ p.lastCompIndex \in {-1} \cup SlotNumbers
      /\ p.entIndexToCompIndex \in IndexMaps
      /\ p.softRemoveMode \in BOOLEAN
      /\ p.softRemoveCompIndexes \in Seq(SlotNumbers)
      /\ Slots(p) \subseteq DOMAIN p.components
      /\ Queued(p) \subseteq DOMAIN p.components
  BY PoolRecordFields DEF PoolType
<1>2. PICK n \in 0 .. MaxSlots : p.components \in [0 .. n - 1 -> Component]
  BY <1>1 DEF Vectors
<1>3. /\ DOMAIN p.components \subseteq SlotNumbers
      /\ p.components \in [DOMAIN p.components -> Component]
  BY <1>2, StorageAssumption DEF SlotNumbers
<1>4. p.lastCompIndex \in Int /\ p.lastCompIndex >= -1
  BY <1>1, StorageAssumption DEF SlotNumbers
<1>5. p.lastCompIndex # -1 => p.lastCompIndex \in DOMAIN p.components
  BY <1>1, <1>4 DEF Slots
<1>6. PICK D \in SUBSET {e.index : e \in Ids} :
        p.entIndexToCompIndex \in [D -> {INVALID_COMP_INDEX} \cup SlotNumbers]
  BY <1>1 DEF IndexMaps
<1>7. \A i \in DOMAIN p.entIndexToCompIndex :
        p.entIndexToCompIndex[i] \in {INVALID_COMP_INDEX} \cup DOMAIN p.components
  BY DEF PoolType, Mapped
<1>8. p.entIndexToCompIndex \in
        [DOMAIN p.entIndexToCompIndex ->
           {INVALID_COMP_INDEX} \cup DOMAIN p.components]
  BY <1>6, <1>7
<1>9. p.softRemoveCompIndexes \in Seq(DOMAIN p.components)
  <2>1. \A m \in 1 .. Len(p.softRemoveCompIndexes) :
          p.softRemoveCompIndexes[m] \in DOMAIN p.components
    BY <1>1, LenProperties DEF Queued
  <2> QED
    BY <1>1, <2>1, LenProperties, SeqDef
<1> QED
  BY <1>1, <1>3, <1>4, <1>5, <1>6, <1>8, <1>9

LEMMA TypeFromFacts ==
  ASSUME NEW p, p \in PoolRecord,
         Slots(p) \subseteq DOMAIN p.components,
         \A i \in DOMAIN p.entIndexToCompIndex :
           p.entIndexToCompIndex[i] \in {INVALID_COMP_INDEX} \cup DOMAIN p.components,
         Queued(p) \subseteq DOMAIN p.components
  PROVE  PoolType(p)
  BY DEF PoolType, Mapped

LEMMA VectorPut ==
  ASSUME NEW f \in Vectors, NEW k \in SlotNumbers, NEW y \in Component,
         0 .. k - 1 \subseteq DOMAIN f
  PROVE  /\ Put(f, k, y) \in Vectors
         /\ DOMAIN Put(f, k, y) = DOMAIN f \cup {k}
<1>1. PICK n \in 0 .. MaxSlots : f \in [0 .. n - 1 -> Component]
  BY DEF Vectors
<1>2. k \in Nat /\ k < MaxSlots /\ n \in Nat
  BY StorageAssumption DEF SlotNumbers
<1>3. k <= n
  <2>1. CASE k = 0
    BY <1>2, <2>1
  <2>2. CASE k > 0
    <3>1. k - 1 \in 0 .. n - 1
      BY <1>1, <1>2, <2>2
    <3> QED
      BY <3>1, <1>2
  <2> QED
    BY <1>2, <2>1, <2>2
<1>4. DOMAIN Put(f, k, y) = DOMAIN f \cup {k}
  BY DEF Put
<1>5. CASE k < n
  <2>1. Put(f, k, y) \in [0 .. n - 1 -> Component]
    BY <1>1, <1>2, <1>5 DEF Put
  <2> QED
    BY <2>1, <1>4 DEF Vectors
<1>6. CASE k = n
  <2>1. (0 .. n - 1) \cup {n} = 0 .. (n + 1) - 1
    BY <1>2
  <2>2. Put(f, k, y) \in [(0 .. n - 1) \cup {n} -> Component]
    BY <1>1, <1>6 DEF Put
  <2>3. n + 1 \in 0 .. MaxSlots
    BY <1>2, <1>6, StorageAssumption
  <2> QED
    BY <1>4, <2>1, <2>2, <2>3 DEF Vectors
<1> QED
  BY <1>2, <1>3, <1>5, <1>6

LEMMA NewComponentFields ==
  ASSUME NEW p, PoolType(p), NEW e \in Ids, NEW v \in Values, Size(p) < MaxSlots,
         NEW q, q = NewComponent(p, e, v)
  PROVE  LET k == p.lastCompIndex + 1 IN
         /\ PoolType(q)
         /\ k \in SlotNumbers
         /\ q.lastCompIndex = k
         /\ DOMAIN q.components = DOMAIN p.components \cup {k}
         /\ EntityAt(q, k) = e
         /\ q.components[k].second = v
         /\ \A j \in DOMAIN p.components \ {k} : q.components[j] = p.components[j]
         /\ DOMAIN q.entIndexToCompIndex =
              DOMAIN p.entIndexToCompIndex \cup {e.index}
         /\ q.entIndexToCompIndex[e.index] = k
         /\ \A i \in DOMAIN p.entIndexToCompIndex \ {e.index} :
              q.entIndexToCompIndex[i] = p.entIndexToCompIndex[i]
         /\ q.softRemoveMode = p.softRemoveMode
         /\ q.softRemoveCompIndexes = p.softRemoveCompIndexes
<1> DEFINE c == [first |-> e, second |-> v]
           k == p.lastCompIndex + 1
<1>1. /\ q.components = Put(p.components, k, c)
      /\ q.lastCompIndex = k
      /\ q.entIndexToCompIndex = Put(p.entIndexToCompIndex, e.index, k)
      /\ q.softRemoveMode = p.softRemoveMode
      /\ q.softRemoveCompIndexes = p.softRemoveCompIndexes
      /\ q = [p EXCEPT !.lastCompIndex = k,
                       !.components = q.components,
                       !.entIndexToCompIndex = q.entIndexToCompIndex]
  BY DEF PoolType, NewComponent, PoolRecord
<1>2. k \in SlotNumbers /\ k = p.lastCompIndex + 1
  BY StorageAssumption, TypeFacts DEF SlotNumbers, Size
<1>3. c \in Component
  BY DEF Component
<1> HIDE DEF c, k
<1>4. Put(p.components, k, c) \in Vectors
  <2>1. 0 .. k - 1 \subseteq DOMAIN p.components
    BY <1>2, TypeFacts DEF Slots
  <2>2. p.components \in Vectors
    BY TypeFacts
  <2> QED
    BY <1>2, <1>3, <2>1, <2>2, VectorPut, Zenon
<1>5. Put(p.entIndexToCompIndex, e.index, k) \in IndexMaps
  <2>1. PICK D \in SUBSET {f.index : f \in Ids} :
          p.entIndexToCompIndex \in [D -> {INVALID_COMP_INDEX} \cup SlotNumbers]
    BY TypeFacts DEF IndexMaps
  <2>2. Put(p.entIndexToCompIndex, e.index, k) \in
          [D \cup {e.index} -> {INVALID_COMP_INDEX} \cup SlotNumbers]
    BY <1>2, <2>1 DEF Put
  <2> QED
    BY <2>2 DEF IndexMaps
<1>6. q \in PoolRecord
  BY <1>1, <1>2, <1>4, <1>5, PoolRecordFields DEF PoolType
<1>7. /\ DOMAIN q.components = DOMAIN p.components \cup {k}
      /\ q.components[k] = c
      /\ \A j \in DOMAIN p.components \ {k} : q.components[j] = p.components[j]
      /\ DOMAIN q.entIndexToCompIndex = DOMAIN p.entIndexToCompIndex \cup {e.index}
      /\ q.entIndexToCompIndex[e.index] = k
      /\ \A i \in DOMAIN p.entIndexToCompIndex \ {e.index} :
           q.entIndexToCompIndex[i] = p.entIndexToCompIndex[i]
  BY <1>1 DEF Put
<1>8. Slots(q) \subseteq DOMAIN q.components
  <2>1. 0 .. k \subseteq (0 .. p.lastCompIndex) \cup {k}
    BY <1>2, TypeFacts
  <2> QED
    BY <1>1, <1>7, <2>1, TypeFacts DEF Slots
<1>9. \A i \in DOMAIN q.entIndexToCompIndex :
        q.entIndexToCompIndex[i] \in {INVALID_COMP_INDEX} \cup DOMAIN q.components
  BY <1>7, TypeFacts
<1>10. Queued(q) \subseteq DOMAIN q.components
  BY <1>1, <1>7 DEF PoolType, Queued
<1>11. PoolType(q)
  BY <1>6, <1>8, <1>9, <1>10, TypeFromFacts, Zenon
<1> QED
  BY <1>1, <1>2, <1>7, <1>11 DEF EntityAt, c, k

(***************************************************************************)
(* A pool whose vector and map have kept their domains is well typed if    *)
(* their entries are.                                                      *)
(***************************************************************************)
LEMMA SameDomainsType ==
  ASSUME NEW p, PoolType(p), NEW q,
         q = [p EXCEPT !.components = q.components,
                       !.lastCompIndex = q.lastCompIndex,
                       !.entIndexToCompIndex = q.entIndexToCompIndex,
                       !.softRemoveMode = q.softRemoveMode,
                       !.softRemoveCompIndexes = q.softRemoveCompIndexes],
         q.components \in [DOMAIN p.components -> Component],
         q.lastCompIndex \in Int,
         q.lastCompIndex >= -1,
         q.lastCompIndex <= p.lastCompIndex,
         q.entIndexToCompIndex \in
           [DOMAIN p.entIndexToCompIndex ->
              {INVALID_COMP_INDEX} \cup DOMAIN p.components],
         q.softRemoveMode \in BOOLEAN,
         q.softRemoveCompIndexes \in Seq(DOMAIN p.components)
  PROVE  PoolType(q)
<1> DEFINE cs == q.components
           m == q.entIndexToCompIndex
           last == q.lastCompIndex
           sq == q.softRemoveCompIndexes
<1>1. cs \in Vectors
  <2>1. PICK n \in 0 .. MaxSlots : p.components \in [0 .. n - 1 -> Component]
    BY TypeFacts DEF Vectors
  <2>2. cs \in [0 .. n - 1 -> Component]
    BY <2>1
  <2> QED
    BY <2>2 DEF Vectors
<1>2. m \in IndexMaps
  <2>1. m \in [DOMAIN p.entIndexToCompIndex -> {INVALID_COMP_INDEX} \cup SlotNumbers]
    BY TypeFacts
  <2>2. DOMAIN p.entIndexToCompIndex \in SUBSET {e.index : e \in Ids}
    BY TypeFacts
  <2> QED
    BY <2>1, <2>2 DEF IndexMaps
<1>3. Slots(q) \subseteq Slots(p)
  BY TypeFacts DEF Slots
<1>4. last \in {-1} \cup SlotNumbers
  <2>1. CASE last = -1
    BY <2>1
  <2>2. CASE last # -1
    BY <2>2, <1>3, TypeFacts DEF Slots
  <2> QED
    BY <2>1, <2>2
<1>5. sq \in Seq(SlotNumbers)
  BY TypeFacts, SeqMonotonic
<1>6. q \in PoolRecord
  BY <1>1, <1>2, <1>4, <1>5, PoolRecordFields DEF PoolType
<1>7. Slots(q) \subseteq DOMAIN q.components
  BY <1>3, TypeFacts
<1>8. \A i \in DOMAIN q.entIndexToCompIndex :
        q.entIndexToCompIndex[i] \in {INVALID_COMP_INDEX} \cup DOMAIN q.components
  OBVIOUS
<1>9. Queued(q) \subseteq DOMAIN q.components
  BY LenProperties DEF Queued
<1> QED
  BY <1>6, <1>7, <1>8, <1>9, TypeFromFacts, Zenon

LEMMA SwapOutFields ==
  ASSUME NEW p, PoolType(p), NEW k \in DOMAIN p.components,
         NEW q, q = SwapOut(p, k),
         NEW last, last = p.lastCompIndex
  PROVE  /\ PoolType(q)
         /\ DOMAIN q.components = DOMAIN p.components
         /\ DOMAIN q.entIndexToCompIndex = DOMAIN p.entIndexToCompIndex
         /\ q.softRemoveMode = p.softRemoveMode
         /\ q.softRemoveCompIndexes = p.softRemoveCompIndexes
         /\ last = -1 => q = p
         /\ last # -1 =>
              /\ q.lastCompIndex = last - 1
              /\ \A j \in DOMAIN p.components :
                   q.components[j] = IF j = k THEN p.components[last]
                                     ELSE IF j = last THEN p.components[k]
                                     ELSE p.components[j]
              /\ \A i \in DOMAIN p.entIndexToCompIndex :
                   q.entIndexToCompIndex[i] =
                     IF k # last /\ i = EntityAt(p, last).index
                       THEN k ELSE p.entIndexToCompIndex[i]
<1>1. CASE last = -1
  <2>1. q = p
    <3>1. k # -1 /\ -1 \notin DOMAIN p.components
      BY TypeFacts DEF SlotNumbers
    <3>2. SwapThrows(p, k)
      BY <1>1, <3>1 DEF SwapThrows
    <3> QED
      BY <1>1, <3>1, <3>2 DEF SwapOut
  <2> QED
    BY <1>1, <2>1
<1>2. CASE last # -1 /\ k = last
  <2>1. /\ q.components = p.components
        /\ q.lastCompIndex = last - 1
        /\ q.entIndexToCompIndex = p.entIndexToCompIndex
        /\ q.softRemoveMode = p.softRemoveMode
        /\ q.softRemoveCompIndexes = p.softRemoveCompIndexes
    BY <1>2 DEF SwapThrows, SwapOut, Remapped, PoolType, PoolRecord
  <2>2. q = [p EXCEPT !.components = q.components,
                      !.lastCompIndex = q.lastCompIndex,
                      !.entIndexToCompIndex = q.entIndexToCompIndex,
                      !.softRemoveMode = q.softRemoveMode,
                      !.softRemoveCompIndexes = q.softRemoveCompIndexes]
    BY <1>2, <2>1 DEF SwapThrows, SwapOut, Remapped, PoolType, PoolRecord
  <2>3. last - 1 \in Int /\ last - 1 >= -1 /\ last - 1 <= p.lastCompIndex
    BY <1>2, TypeFacts
  <2>4. /\ q.components \in [DOMAIN p.components -> Component]
        /\ q.lastCompIndex \in Int
        /\ q.lastCompIndex >= -1
        /\ q.lastCompIndex <= p.lastCompIndex
        /\ q.entIndexToCompIndex \in
             [DOMAIN p.entIndexToCompIndex ->
                {INVALID_COMP_INDEX} \cup DOMAIN p.components]
        /\ q.softRemoveMode \in BOOLEAN
        /\ q.softRemoveCompIndexes \in Seq(DOMAIN p.components)
    BY <2>1, <2>3, TypeFacts
  <2>5. PoolType(q)
    BY <2>2, <2>4, SameDomainsType, Zenon
  <2> QED
    BY <1>2, <2>1, <2>5
<1>3. CASE last # -1 /\ k # last
  <2> DEFINE moved == p.components[last]
             i == moved.first.index
             cs == [p.components EXCEPT ![last] = p.components[k], ![k] = moved]
             m == IF i \in DOMAIN p.entIndexToCompIndex
                    THEN [p.entIndexToCompIndex EXCEPT ![i] = k]
                    ELSE p.entIndexToCompIndex
  <2>0. ~SwapThrows(p, k)
    BY <1>3, TypeFacts DEF SwapThrows, Slots
  <2>1. /\ q.components = cs
        /\ q.lastCompIndex = last - 1
        /\ q.entIndexToCompIndex = m
        /\ q.softRemoveMode = p.softRemoveMode
        /\ q.softRemoveCompIndexes = p.softRemoveCompIndexes
        /\ q = [p EXCEPT !.components = q.components,
                         !.lastCompIndex = q.lastCompIndex,
                         !.entIndexToCompIndex = q.entIndexToCompIndex,
                         !.softRemoveMode = q.softRemoveMode,
                         !.softRemoveCompIndexes = q.softRemoveCompIndexes]
    BY <1>3, <2>0 DEF SwapOut, Remapped, PoolType, PoolRecord
  <2>2. last - 1 \in Int /\ last - 1 >= -1 /\ last - 1 <= p.lastCompIndex
    BY <1>3, TypeFacts
  <2>3. cs \in [DOMAIN p.components -> Component]
    BY <1>3, TypeFacts
  <2>4. m \in [DOMAIN p.entIndexToCompIndex ->
                 {INVALID_COMP_INDEX} \cup DOMAIN p.components]
    BY TypeFacts
  <2>5. \A j \in DOMAIN p.components :
          cs[j] = IF j = k THEN p.components[last]
                  ELSE IF j = last THEN p.components[k]
                  ELSE p.components[j]
    BY <1>3, TypeFacts
  <2>6. \A j \in DOMAIN p.entIndexToCompIndex :
          m[j] = IF k # last /\ j = EntityAt(p, last).index
                   THEN k ELSE p.entIndexToCompIndex[j]
    BY <1>3, TypeFacts DEF EntityAt
  <2> HIDE DEF cs, m
  <2>7. /\ q.components \in [DOMAIN p.components -> Component]
        /\ q.lastCompIndex \in Int
        /\ q.lastCompIndex >= -1
        /\ q.lastCompIndex <= p.lastCompIndex
        /\ q.entIndexToCompIndex \in
             [DOMAIN p.entIndexToCompIndex ->
                {INVALID_COMP_INDEX} \cup DOMAIN p.components]
        /\ q.softRemoveMode \in BOOLEAN
        /\ q.softRemoveCompIndexes \in Seq(DOMAIN p.components)
    BY <2>1, <2>2, <2>3, <2>4, TypeFacts
  <2>8. PoolType(q)
    BY <2>1, <2>7, SameDomainsType, Zenon
  <2> QED
    BY <1>3, <2>1, <2>3, <2>4, <2>5, <2>6, <2>8
<1> QED
  BY <1>1, <1>2, <1>3

LEMMA SoftRemoveFields ==
  ASSUME NEW p, PoolType(p), NEW k \in DOMAIN p.components,
         NEW q, q = SoftRemove(p, k)
  PROVE  /\ PoolType(q)
         /\ q.lastCompIndex = p.lastCompIndex
         /\ q.entIndexToCompIndex = p.entIndexToCompIndex
         /\ q.softRemoveMode = p.softRemoveMode
         /\ q.softRemoveCompIndexes = Append(p.softRemoveCompIndexes, k)
         /\ DOMAIN q.components = DOMAIN p.components
         /\ EntityAt(q, k) = NullId
         /\ \A j \in DOMAIN p.components \ {k} : q.components[j] = p.components[j]
<1> DEFINE cs == [p.components EXCEPT ![k].first = NullId]
           sq == Append(p.softRemoveCompIndexes, k)
<1>1. /\ q.components = cs
      /\ q.lastCompIndex = p.lastCompIndex
      /\ q.entIndexToCompIndex = p.entIndexToCompIndex
      /\ q.softRemoveMode = p.softRemoveMode
      /\ q.softRemoveCompIndexes = sq
      /\ q = [p EXCEPT !.components = q.components,
                       !.lastCompIndex = q.lastCompIndex,
                       !.entIndexToCompIndex = q.entIndexToCompIndex,
                       !.softRemoveMode = q.softRemoveMode,
                       !.softRemoveCompIndexes = q.softRemoveCompIndexes]
  BY DEF SoftRemove, PoolType, PoolRecord
<1>2. /\ cs \in [DOMAIN p.components -> Component]
      /\ cs[k].first = NullId
      /\ \A j \in DOMAIN p.components \ {k} : cs[j] = p.components[j]
  BY TypeFacts DEF Component
<1>3. sq \in Seq(DOMAIN p.components)
  BY TypeFacts, AppendProperties
<1> HIDE DEF cs, sq
<1>4. /\ q.components \in [DOMAIN p.components -> Component]
      /\ q.lastCompIndex \in Int
      /\ q.lastCompIndex >= -1
      /\ q.lastCompIndex <= p.lastCompIndex
      /\ q.entIndexToCompIndex \in
           [DOMAIN p.entIndexToCompIndex ->
              {INVALID_COMP_INDEX} \cup DOMAIN p.components]
      /\ q.softRemoveMode \in BOOLEAN
      /\ q.softRemoveCompIndexes \in Seq(DOMAIN p.components)
  BY <1>1, <1>2, <1>3, TypeFacts
<1>5. PoolType(q)
  BY <1>1, <1>4, SameDomainsType, Zenon
<1> QED
  BY <1>1, <1>2, <1>5 DEF EntityAt, sq

\* The map gives up an index; the slot it led to is still in the vector.
LEMMA UnmapFields ==
  ASSUME NEW p, PoolType(p), NEW e \in Ids, HasComponent(p, e),
         NEW q, q = [p EXCEPT !.entIndexToCompIndex[e.index] = INVALID_COMP_INDEX]
  PROVE  /\ PoolType(q)
         /\ SlotOf(p, e) \in DOMAIN p.components
         /\ q.components = p.components
         /\ q.lastCompIndex = p.lastCompIndex
         /\ q.softRemoveMode = p.softRemoveMode
         /\ q.softRemoveCompIndexes = p.softRemoveCompIndexes
         /\ DOMAIN q.entIndexToCompIndex = DOMAIN p.entIndexToCompIndex
         /\ \A i \in DOMAIN p.entIndexToCompIndex :
              q.entIndexToCompIndex[i] =
                IF i = e.index THEN INVALID_COMP_INDEX ELSE p.entIndexToCompIndex[i]
<1>1. /\ q.components = p.components
      /\ q.lastCompIndex = p.lastCompIndex
      /\ q.entIndexToCompIndex =
           [p.entIndexToCompIndex EXCEPT ![e.index] = INVALID_COMP_INDEX]
      /\ q.softRemoveMode = p.softRemoveMode
      /\ q.softRemoveCompIndexes = p.softRemoveCompIndexes
  BY DEF PoolType, PoolRecord
<1>2. q = [p EXCEPT !.components = q.components,
                    !.lastCompIndex = q.lastCompIndex,
                    !.entIndexToCompIndex = q.entIndexToCompIndex,
                    !.softRemoveMode = q.softRemoveMode,
                    !.softRemoveCompIndexes = q.softRemoveCompIndexes]
  BY <1>1 DEF PoolType, PoolRecord
<1>3. [p.entIndexToCompIndex EXCEPT ![e.index] = INVALID_COMP_INDEX] \in
        [DOMAIN p.entIndexToCompIndex ->
           {INVALID_COMP_INDEX} \cup DOMAIN p.components]
  BY TypeFacts
<1>4. /\ q.components \in [DOMAIN p.components -> Component]
      /\ q.lastCompIndex \in Int
      /\ q.lastCompIndex >= -1
      /\ q.lastCompIndex <= p.lastCompIndex
      /\ q.entIndexToCompIndex \in
           [DOMAIN p.entIndexToCompIndex ->
              {INVALID_COMP_INDEX} \cup DOMAIN p.components]
      /\ q.softRemoveMode \in BOOLEAN
      /\ q.softRemoveCompIndexes \in Seq(DOMAIN p.components)
  BY <1>1, <1>3, TypeFacts
<1>5. PoolType(q)
  BY <1>2, <1>4, SameDomainsType, Zenon
<1>6. SlotOf(p, e) \in DOMAIN p.components
  BY TypeFacts DEF SlotOf, HasComponent
<1> QED
  BY <1>1, <1>5, <1>6, TypeFacts

LEMMA RemoveType ==
  ASSUME NEW p, PoolType(p), NEW e \in Ids, HasComponent(p, e),
         NEW q, q = Remove(p, e)
  PROVE  PoolType(q) /\ q.softRemoveMode = p.softRemoveMode
<1> DEFINE u == [p EXCEPT !.entIndexToCompIndex[e.index] = INVALID_COMP_INDEX]
           k == SlotOf(p, e)
<1>1. /\ PoolType(u)
      /\ k \in DOMAIN u.components
      /\ u.softRemoveMode = p.softRemoveMode
  BY UnmapFields
<1>2. q = IF p.softRemoveMode THEN SoftRemove(u, k) ELSE SwapOut(u, k)
  BY DEF Remove
<1> HIDE DEF u, k
<1>3. CASE p.softRemoveMode
  BY <1>1, <1>2, <1>3, SoftRemoveFields
<1>4. CASE ~p.softRemoveMode
  BY <1>1, <1>2, <1>4, SwapOutFields
<1> QED
  BY <1>3, <1>4

LEMMA WriteFields ==
  ASSUME NEW p, PoolType(p), NEW e \in Ids, HasComponent(p, e), NEW v \in Values,
         NEW q, q = WriteComponent(p, e, v)
  PROVE  /\ PoolType(q)
         /\ q.lastCompIndex = p.lastCompIndex
         /\ q.entIndexToCompIndex = p.entIndexToCompIndex
         /\ q.softRemoveMode = p.softRemoveMode
         /\ q.softRemoveCompIndexes = p.softRemoveCompIndexes
         /\ DOMAIN q.components = DOMAIN p.components
         /\ \A j \in DOMAIN p.components : EntityAt(q, j) = EntityAt(p, j)
<1> DEFINE k == SlotOf(p, e)
           cs == [p.components EXCEPT ![k].second = v]
<1>1. /\ q.components = cs
      /\ q.lastCompIndex = p.lastCompIndex
      /\ q.entIndexToCompIndex = p.entIndexToCompIndex
      /\ q.softRemoveMode = p.softRemoveMode
      /\ q.softRemoveCompIndexes = p.softRemoveCompIndexes
      /\ q = [p EXCEPT !.components = q.components,
                       !.lastCompIndex = q.lastCompIndex,
                       !.entIndexToCompIndex = q.entIndexToCompIndex,
                       !.softRemoveMode = q.softRemoveMode,
                       !.softRemoveCompIndexes = q.softRemoveCompIndexes]
  BY DEF WriteComponent, PoolType, PoolRecord
<1>2. k \in DOMAIN p.components
  BY TypeFacts DEF SlotOf, HasComponent
<1>3. /\ cs \in [DOMAIN p.components -> Component]
      /\ \A j \in DOMAIN p.components : cs[j].first = p.components[j].first
  BY <1>2, TypeFacts DEF Component
<1> HIDE DEF cs, k
<1>4. /\ q.components \in [DOMAIN p.components -> Component]
      /\ q.lastCompIndex \in Int
      /\ q.lastCompIndex >= -1
      /\ q.lastCompIndex <= p.lastCompIndex
      /\ q.entIndexToCompIndex \in
           [DOMAIN p.entIndexToCompIndex ->
              {INVALID_COMP_INDEX} \cup DOMAIN p.components]
      /\ q.softRemoveMode \in BOOLEAN
      /\ q.softRemoveCompIndexes \in Seq(DOMAIN p.components)
  BY <1>1, <1>3, TypeFacts
<1>5. PoolType(q)
  BY <1>1, <1>4, SameDomainsType, Zenon
<1> QED
  BY <1>1, <1>3, <1>5 DEF EntityAt

LEMMA DrainOneFields ==
  ASSUME NEW p, PoolType(p), p.softRemoveCompIndexes # << >>,
         NEW q, q = DrainOne(p)
  PROVE  LET k == Head(p.softRemoveCompIndexes)
             u == [p EXCEPT !.softRemoveCompIndexes = Tail(@)]
         IN  /\ PoolType(q)
             /\ q.softRemoveMode = p.softRemoveMode
             /\ q.softRemoveCompIndexes = Tail(p.softRemoveCompIndexes)
             /\ PoolType(u)
             /\ k \in DOMAIN p.components
             /\ q = SwapOut(u, k)
             /\ u.components = p.components
             /\ u.lastCompIndex = p.lastCompIndex
             /\ u.entIndexToCompIndex = p.entIndexToCompIndex
             /\ u.softRemoveMode = p.softRemoveMode
             /\ u.softRemoveCompIndexes = Tail(p.softRemoveCompIndexes)
<1> DEFINE k == Head(p.softRemoveCompIndexes)
           u == [p EXCEPT !.softRemoveCompIndexes = Tail(@)]
<1>1. /\ u.components = p.components
      /\ u.lastCompIndex = p.lastCompIndex
      /\ u.entIndexToCompIndex = p.entIndexToCompIndex
      /\ u.softRemoveMode = p.softRemoveMode
      /\ u.softRemoveCompIndexes = Tail(p.softRemoveCompIndexes)
      /\ u = [p EXCEPT !.components = u.components,
                       !.lastCompIndex = u.lastCompIndex,
                       !.entIndexToCompIndex = u.entIndexToCompIndex,
                       !.softRemoveMode = u.softRemoveMode,
                       !.softRemoveCompIndexes = u.softRemoveCompIndexes]
  BY DEF PoolType, PoolRecord
<1>2. q = SwapOut(u, k)
  BY DEF DrainOne
<1>3. k \in DOMAIN p.components /\ Tail(p.softRemoveCompIndexes) \in Seq(DOMAIN p.components)
  BY TypeFacts, HeadTailProperties
<1> HIDE DEF u
<1>4. /\ u.components \in [DOMAIN p.components -> Component]
      /\ u.lastCompIndex \in Int
      /\ u.lastCompIndex >= -1
      /\ u.lastCompIndex <= p.lastCompIndex
      /\ u.entIndexToCompIndex \in
           [DOMAIN p.entIndexToCompIndex ->
              {INVALID_COMP_INDEX} \cup DOMAIN p.components]
      /\ u.softRemoveMode \in BOOLEAN
      /\ u.softRemoveCompIndexes \in Seq(DOMAIN p.components)
  BY <1>1, <1>3, TypeFacts
<1>5. PoolType(u)
  BY <1>1, <1>4, SameDomainsType, Zenon
<1>6. k \in DOMAIN u.components
  BY <1>1, <1>3
<1> HIDE DEF k
<1>7. /\ PoolType(q)
      /\ q.softRemoveMode = u.softRemoveMode
      /\ q.softRemoveCompIndexes = u.softRemoveCompIndexes
  BY <1>2, <1>5, <1>6, SwapOutFields
<1> QED
  BY <1>1, <1>2, <1>3, <1>5, <1>7 DEF u, k

\* Turning soft remove mode on or off changes nothing else.
LEMMA ToggleFields ==
  ASSUME NEW p, PoolType(p), NEW b \in BOOLEAN,
         NEW q, q = [p EXCEPT !.softRemoveMode = b]
  PROVE  /\ PoolType(q)
         /\ q.components = p.components
         /\ q.lastCompIndex = p.lastCompIndex
         /\ q.entIndexToCompIndex = p.entIndexToCompIndex
         /\ q.softRemoveMode = b
         /\ q.softRemoveCompIndexes = p.softRemoveCompIndexes
<1>1. /\ q.components = p.components
      /\ q.lastCompIndex = p.lastCompIndex
      /\ q.entIndexToCompIndex = p.entIndexToCompIndex
      /\ q.softRemoveMode = b
      /\ q.softRemoveCompIndexes = p.softRemoveCompIndexes
      /\ q = [p EXCEPT !.components = q.components,
                       !.lastCompIndex = q.lastCompIndex,
                       !.entIndexToCompIndex = q.entIndexToCompIndex,
                       !.softRemoveMode = q.softRemoveMode,
                       !.softRemoveCompIndexes = q.softRemoveCompIndexes]
  BY DEF PoolType, PoolRecord
<1>2. /\ q.components \in [DOMAIN p.components -> Component]
      /\ q.lastCompIndex \in Int
      /\ q.lastCompIndex >= -1
      /\ q.lastCompIndex <= p.lastCompIndex
      /\ q.entIndexToCompIndex \in
           [DOMAIN p.entIndexToCompIndex ->
              {INVALID_COMP_INDEX} \cup DOMAIN p.components]
      /\ q.softRemoveMode \in BOOLEAN
      /\ q.softRemoveCompIndexes \in Seq(DOMAIN p.components)
  BY <1>1, TypeFacts
<1>3. PoolType(q)
  BY <1>1, <1>2, SameDomainsType, Zenon
<1> QED
  BY <1>1, <1>3

LEMMA RemoveSoftly ==
  ASSUME NEW p, PoolType(p), NEW e \in Ids, HasComponent(p, e), p.softRemoveMode,
         NEW q, q = Remove(p, e)
  PROVE  LET k == SlotOf(p, e)
         IN  /\ k \in DOMAIN p.components
             /\ q.lastCompIndex = p.lastCompIndex
             /\ q.softRemoveCompIndexes = Append(p.softRemoveCompIndexes, k)
             /\ DOMAIN q.components = DOMAIN p.components
             /\ EntityAt(q, k) = NullId
             /\ \A j \in DOMAIN p.components \ {k} : q.components[j] = p.components[j]
             /\ DOMAIN q.entIndexToCompIndex = DOMAIN p.entIndexToCompIndex
             /\ \A i \in DOMAIN p.entIndexToCompIndex :
                  q.entIndexToCompIndex[i] =
                    IF i = e.index THEN INVALID_COMP_INDEX
                                   ELSE p.entIndexToCompIndex[i]
<1> DEFINE u == [p EXCEPT !.entIndexToCompIndex[e.index] = INVALID_COMP_INDEX]
           k == SlotOf(p, e)
<1>1. /\ PoolType(u)
      /\ k \in DOMAIN p.components
      /\ u.components = p.components
      /\ u.lastCompIndex = p.lastCompIndex
      /\ u.softRemoveCompIndexes = p.softRemoveCompIndexes
      /\ DOMAIN u.entIndexToCompIndex = DOMAIN p.entIndexToCompIndex
      /\ \A i \in DOMAIN p.entIndexToCompIndex :
           u.entIndexToCompIndex[i] =
             IF i = e.index THEN INVALID_COMP_INDEX ELSE p.entIndexToCompIndex[i]
  BY UnmapFields
<1>2. q = SoftRemove(u, k)
  BY DEF Remove
<1> HIDE DEF u, k
<1>3. k \in DOMAIN u.components
  BY <1>1
<1>4. /\ q.lastCompIndex = u.lastCompIndex
      /\ q.entIndexToCompIndex = u.entIndexToCompIndex
      /\ q.softRemoveCompIndexes = Append(u.softRemoveCompIndexes, k)
      /\ DOMAIN q.components = DOMAIN u.components
      /\ EntityAt(q, k) = NullId
      /\ \A j \in DOMAIN u.components \ {k} : q.components[j] = u.components[j]
  BY <1>1, <1>2, <1>3, SoftRemoveFields
<1> QED
  BY <1>1, <1>4 DEF k

\* Outside soft remove mode the slot is swapped out of the unmapped pool.
LEMMA RemoveHardly ==
  ASSUME NEW p, PoolType(p), NEW e \in Ids, HasComponent(p, e), ~p.softRemoveMode,
         NEW q, q = Remove(p, e)
  PROVE  LET k == SlotOf(p, e)
             u == [p EXCEPT !.entIndexToCompIndex[e.index] = INVALID_COMP_INDEX]
         IN  /\ k \in DOMAIN u.components
             /\ PoolType(u)
             /\ q = SwapOut(u, k)
             /\ q.softRemoveCompIndexes = p.softRemoveCompIndexes
<1> DEFINE u == [p EXCEPT !.entIndexToCompIndex[e.index] = INVALID_COMP_INDEX]
           k == SlotOf(p, e)
<1>1. /\ PoolType(u)
      /\ k \in DOMAIN u.components
      /\ u.softRemoveCompIndexes = p.softRemoveCompIndexes
  BY UnmapFields
<1>2. q = SwapOut(u, k)
  BY DEF Remove
<1> HIDE DEF u, k
<1>3. q.softRemoveCompIndexes = u.softRemoveCompIndexes
  BY <1>1, <1>2, SwapOutFields
<1> QED
  BY <1>1, <1>2, <1>3 DEF u, k

-----------------------------------------------------------------------------
(* The owners of the slots are mapped to their slots. *)

NullUnmapped(p) == NullId.index \notin DOMAIN p.entIndexToCompIndex

OwnersMapped(p) == \A k \in Slots(p) : OwnerMapped(p, k)

LEMMA NewComponentOwners ==
  ASSUME NEW p, PoolType(p), NEW e \in Ids, NEW v \in Values, Size(p) < MaxSlots,
         NullUnmapped(p), OwnersMapped(p),
         ~HasComponent(p, e), e.index # NullId.index,
         NEW q, q = NewComponent(p, e, v)
  PROVE  NullUnmapped(q) /\ OwnersMapped(q)
<1> DEFINE k == p.lastCompIndex + 1
<1>1. /\ PoolType(q)
      /\ k \in SlotNumbers
      /\ q.lastCompIndex = k
      /\ EntityAt(q, k) = e
      /\ \A j \in DOMAIN p.components \ {k} : q.components[j] = p.components[j]
      /\ DOMAIN q.entIndexToCompIndex = DOMAIN p.entIndexToCompIndex \cup {e.index}
      /\ q.entIndexToCompIndex[e.index] = k
      /\ \A i \in DOMAIN p.entIndexToCompIndex \ {e.index} :
           q.entIndexToCompIndex[i] = p.entIndexToCompIndex[i]
  BY NewComponentFields
<1>2. NullUnmapped(q)
  BY <1>1 DEF NullUnmapped
<1>3. k # INVALID_COMP_INDEX /\ k \notin Slots(p) /\ k = p.lastCompIndex + 1
  BY TypeFacts DEF INVALID_COMP_INDEX, Slots
<1> HIDE DEF k
<1>4. Slots(q) \subseteq Slots(p) \cup {k}
  BY <1>1, <1>3, TypeFacts DEF Slots
<1>5. OwnerMapped(q, k)
  BY <1>1, <1>3 DEF OwnerMapped, HasComponent, SlotOf
<1>6. ASSUME NEW j \in Slots(p) PROVE OwnerMapped(q, j)
  <2>1. j # k /\ EntityAt(q, j) = EntityAt(p, j)
    BY <1>1, <1>3, <1>6, TypeFacts DEF EntityAt
  <2>2. OwnerMapped(p, j)
    BY <1>6 DEF OwnersMapped
  <2>3. EntityAt(p, j) # NullId => EntityAt(p, j).index # e.index
    BY <2>2 DEF OwnerMapped, HasComponent
  <2> QED
    BY <1>1, <2>1, <2>2, <2>3 DEF OwnerMapped, HasComponent, SlotOf
<1> QED
  BY <1>2, <1>4, <1>5, <1>6 DEF OwnersMapped

\* The owner of the slot that is swapped out need not be mapped to it.
LEMMA SwapOutOwners ==
  ASSUME NEW p, PoolType(p), NEW k \in DOMAIN p.components,
         NullUnmapped(p), \A j \in Slots(p) \ {k} : OwnerMapped(p, j),
         NEW q, q = SwapOut(p, k)
  PROVE  NullUnmapped(q) /\ OwnersMapped(q)
<1> DEFINE last == p.lastCompIndex
<1>1. /\ PoolType(q)
      /\ DOMAIN q.components = DOMAIN p.components
      /\ DOMAIN q.entIndexToCompIndex = DOMAIN p.entIndexToCompIndex
      /\ last = -1 => q = p
      /\ last # -1 =>
           /\ q.lastCompIndex = last - 1
           /\ \A j \in DOMAIN p.components :
                q.components[j] = IF j = k THEN p.components[last]
                                  ELSE IF j = last THEN p.components[k]
                                  ELSE p.components[j]
           /\ \A i \in DOMAIN p.entIndexToCompIndex :
                q.entIndexToCompIndex[i] =
                  IF k # last /\ i = EntityAt(p, last).index
                    THEN k ELSE p.entIndexToCompIndex[i]
  BY SwapOutFields
<1>2. NullUnmapped(q)
  BY <1>1 DEF NullUnmapped
<1>3. k # INVALID_COMP_INDEX
  BY TypeFacts DEF INVALID_COMP_INDEX, SlotNumbers
<1>4. CASE last = -1
  <2>1. Slots(p) = {}
    BY <1>4, TypeFacts DEF Slots
  <2> QED
    BY <1>1, <1>2, <1>4, <2>1 DEF OwnersMapped
<1>5. CASE last # -1
  <2>1. last \in Slots(p) /\ last \in DOMAIN p.components
    BY <1>5, TypeFacts DEF Slots
  <2>2. \A j \in Slots(q) : j \in Slots(p) /\ j # last
    BY <1>1, <1>5, TypeFacts DEF Slots
  <2>3. ASSUME NEW j \in Slots(q) PROVE OwnerMapped(q, j)
    <3>1. j \in Slots(p) /\ j # last /\ j \in DOMAIN p.components
      BY <2>2, <2>3, TypeFacts
    <3>2. CASE j = k
      <4>1. EntityAt(q, j) = EntityAt(p, last)
        BY <1>1, <1>5, <3>1, <3>2 DEF EntityAt
      <4>2. OwnerMapped(p, last)
        BY <2>1, <3>1, <3>2
      <4> QED
        BY <1>1, <1>3, <1>5, <3>1, <3>2, <4>1, <4>2
        DEF OwnerMapped, HasComponent, SlotOf
    <3>3. CASE j # k
      <4> DEFINE o == EntityAt(p, j)
      <4>1. EntityAt(q, j) = o
        BY <1>1, <1>5, <3>1, <3>3 DEF EntityAt
      <4>2. OwnerMapped(p, j)
        BY <3>1, <3>3
      <4>3. ASSUME o # NullId
            PROVE  q.entIndexToCompIndex[o.index] = p.entIndexToCompIndex[o.index]
        <5>1. o.index \in DOMAIN p.entIndexToCompIndex
              /\ p.entIndexToCompIndex[o.index] = j
          BY <4>2, <4>3 DEF OwnerMapped, HasComponent, SlotOf
        <5>2. CASE k # last /\ o.index = EntityAt(p, last).index
          <6>1. OwnerMapped(p, last)
            BY <2>1, <5>2
          <6>2. EntityAt(p, last) # NullId
            BY <5>1, <5>2 DEF NullUnmapped
          <6>3. p.entIndexToCompIndex[o.index] = last
            BY <5>2, <6>1, <6>2 DEF OwnerMapped, SlotOf
          <6> QED
            BY <3>1, <5>1, <6>3
        <5>3. CASE ~(k # last /\ o.index = EntityAt(p, last).index)
          BY <1>1, <1>5, <5>1, <5>3
        <5> QED
          BY <5>2, <5>3
      <4> QED
        BY <1>1, <4>1, <4>2, <4>3 DEF OwnerMapped, HasComponent, SlotOf
    <3> QED
      BY <3>2, <3>3
  <2> QED
    BY <1>2, <2>3 DEF OwnersMapped
<1> QED
  BY <1>4, <1>5

\* With e unmapped, the other owners are still mapped to their slots.
LEMMA UnmapOwners ==
  ASSUME NEW p, PoolType(p), NEW e \in Ids, HasComponent(p, e),
         NullUnmapped(p), OwnersMapped(p),
         NEW q, DOMAIN q.entIndexToCompIndex = DOMAIN p.entIndexToCompIndex,
         \A i \in DOMAIN p.entIndexToCompIndex :
           q.entIndexToCompIndex[i] =
             IF i = e.index THEN INVALID_COMP_INDEX ELSE p.entIndexToCompIndex[i],
         NEW j \in Slots(p), j # SlotOf(p, e), EntityAt(q, j) = EntityAt(p, j)
  PROVE  OwnerMapped(q, j)
<1>1. OwnerMapped(p, j)
  BY DEF OwnersMapped
<1>2. EntityAt(p, j) # NullId => EntityAt(p, j).index # e.index
  BY <1>1 DEF OwnerMapped, SlotOf
<1> QED
  BY <1>1, <1>2 DEF OwnerMapped, HasComponent, SlotOf

LEMMA RemoveOwners ==
  ASSUME NEW p, PoolType(p), NEW e \in Ids, HasComponent(p, e),
         NullUnmapped(p), OwnersMapped(p),
         NEW q, q = Remove(p, e)
  PROVE  NullUnmapped(q) /\ OwnersMapped(q)
<1> DEFINE k == SlotOf(p, e)
<1>1. CASE p.softRemoveMode
  <2>1. /\ k \in DOMAIN p.components
        /\ q.lastCompIndex = p.lastCompIndex
        /\ EntityAt(q, k) = NullId
        /\ \A j \in DOMAIN p.components \ {k} : q.components[j] = p.components[j]
        /\ DOMAIN q.entIndexToCompIndex = DOMAIN p.entIndexToCompIndex
        /\ \A i \in DOMAIN p.entIndexToCompIndex :
             q.entIndexToCompIndex[i] =
               IF i = e.index THEN INVALID_COMP_INDEX ELSE p.entIndexToCompIndex[i]
    BY <1>1, RemoveSoftly
  <2>2. Slots(q) = Slots(p)
    BY <2>1 DEF Slots
  <2>3. ASSUME NEW j \in Slots(p) PROVE OwnerMapped(q, j)
    <3>1. CASE j = k
      BY <2>1, <3>1 DEF OwnerMapped
    <3>2. CASE j # k
      <4>1. EntityAt(q, j) = EntityAt(p, j)
        BY <2>1, <2>3, <3>2, TypeFacts DEF EntityAt
      <4> QED
        BY <2>1, <2>3, <3>2, <4>1, UnmapOwners
    <3> QED
      BY <3>1, <3>2
  <2> QED
    BY <2>1, <2>2, <2>3 DEF NullUnmapped, OwnersMapped
<1>2. CASE ~p.softRemoveMode
  <2> DEFINE u == [p EXCEPT !.entIndexToCompIndex[e.index] = INVALID_COMP_INDEX]
  <2>1. /\ PoolType(u)
        /\ k \in DOMAIN u.components
        /\ q = SwapOut(u, k)
    BY <1>2, RemoveHardly
  <2>2. /\ u.components = p.components
        /\ u.lastCompIndex = p.lastCompIndex
        /\ DOMAIN u.entIndexToCompIndex = DOMAIN p.entIndexToCompIndex
        /\ \A i \in DOMAIN p.entIndexToCompIndex :
             u.entIndexToCompIndex[i] =
               IF i = e.index THEN INVALID_COMP_INDEX ELSE p.entIndexToCompIndex[i]
    BY UnmapFields
  <2> HIDE DEF u
  <2>3. NullUnmapped(u)
    BY <2>2 DEF NullUnmapped
  <2>4. ASSUME NEW j \in Slots(u) \ {k} PROVE OwnerMapped(u, j)
    <3>1. j \in Slots(p) /\ j # k /\ EntityAt(u, j) = EntityAt(p, j)
      BY <2>2, <2>4 DEF Slots, EntityAt
    <3> QED
      BY <2>2, <3>1, UnmapOwners
  <2> HIDE DEF k
  <2> QED
    BY <2>1, <2>3, <2>4, SwapOutOwners
<1> QED
  BY <1>1, <1>2

\* Only the owners, the map and the last slot count.
LEMMA SameOwners ==
  ASSUME NEW p, NullUnmapped(p), OwnersMapped(p), NEW q,
         q.lastCompIndex = p.lastCompIndex,
         q.entIndexToCompIndex = p.entIndexToCompIndex,
         \A k \in Slots(p) : EntityAt(q, k) = EntityAt(p, k)
  PROVE  NullUnmapped(q) /\ OwnersMapped(q)
<1>1. Slots(q) = Slots(p)
  BY DEF Slots
<1> QED
  BY <1>1 DEF NullUnmapped, OwnersMapped, OwnerMapped, HasComponent, SlotOf

-----------------------------------------------------------------------------
Holes(p) == {k \in Slots(p) : EntityAt(p, k) = NullId}

LEMMA MappedFacts ==
  ASSUME NEW p, PoolType(p)
  PROVE  /\ \A i \in Mapped(p) : /\ i \in DOMAIN p.entIndexToCompIndex
                                 /\ p.entIndexToCompIndex[i] \in DOMAIN p.components
         /\ \A e : HasComponent(p, e) <=> e.index \in Mapped(p)
  BY DEF PoolType, Mapped, HasComponent

\* An owner other than the null entity has an index other than its own.
LEMMA OwnerIndexes ==
  ASSUME NEW p, NullUnmapped(p), MappedInUse(p), NEW i \in Mapped(p)
  PROVE  /\ i # NullId.index
         /\ EntityAt(p, p.entIndexToCompIndex[i]) # NullId
  BY DEF NullUnmapped, MappedInUse, Mapped

-----------------------------------------------------------------------------
(* No holes but the queued ones: what the mutators keep. *)

LEMMA NewComponentHoles ==
  ASSUME NEW p, PoolType(p), MappedInUse(p), QueueIsHoles(p),
         NEW e \in Ids, NEW v \in Values, Size(p) < MaxSlots,
         e.index # NullId.index,
         NEW q, q = NewComponent(p, e, v)
  PROVE  MappedInUse(q) /\ QueueIsHoles(q)
<1> DEFINE k == p.lastCompIndex + 1
<1>1. /\ q.lastCompIndex = k
      /\ EntityAt(q, k) = e
      /\ \A j \in DOMAIN p.components \ {k} : q.components[j] = p.components[j]
      /\ DOMAIN q.entIndexToCompIndex = DOMAIN p.entIndexToCompIndex \cup {e.index}
      /\ q.entIndexToCompIndex[e.index] = k
      /\ \A i \in DOMAIN p.entIndexToCompIndex \ {e.index} :
           q.entIndexToCompIndex[i] = p.entIndexToCompIndex[i]
      /\ q.softRemoveCompIndexes = p.softRemoveCompIndexes
  BY NewComponentFields
<1>2. Slots(q) = Slots(p) \cup {k} /\ k \notin Slots(p) /\ k \in Slots(q)
  BY <1>1, TypeFacts DEF Slots
<1> HIDE DEF k
<1>3. \A j \in Slots(p) : EntityAt(q, j) = EntityAt(p, j)
  BY <1>1, <1>2, TypeFacts DEF EntityAt
<1>4. MappedInUse(q)
  <2>1. ASSUME NEW i \in Mapped(q), i # e.index
        PROVE  /\ q.entIndexToCompIndex[i] \in Slots(p)
               /\ EntityAt(p, q.entIndexToCompIndex[i]).index = i
    BY <1>1, <2>1 DEF Mapped, MappedInUse
  <2> QED
    BY <1>1, <1>2, <1>3, <2>1 DEF MappedInUse
<1>5. Queued(q) = Queued(p)
  BY <1>1 DEF Queued
<1>6. Holes(q) = Holes(p)
  BY <1>1, <1>2, <1>3 DEF Holes
<1> QED
  BY <1>1, <1>4, <1>5, <1>6 DEF QueueIsHoles, Holes

LEMMA SoftRemoveHoles ==
  ASSUME NEW p, PoolType(p), MappedInUse(p), QueueIsHoles(p), NullUnmapped(p),
         NEW e \in Ids, HasComponent(p, e), p.softRemoveMode,
         NEW q, q = Remove(p, e)
  PROVE  MappedInUse(q) /\ QueueIsHoles(q)
<1> DEFINE k == SlotOf(p, e)
<1>1. /\ k \in DOMAIN p.components
      /\ q.lastCompIndex = p.lastCompIndex
      /\ q.softRemoveCompIndexes = Append(p.softRemoveCompIndexes, k)
      /\ EntityAt(q, k) = NullId
      /\ \A j \in DOMAIN p.components \ {k} : q.components[j] = p.components[j]
      /\ DOMAIN q.entIndexToCompIndex = DOMAIN p.entIndexToCompIndex
      /\ \A i \in DOMAIN p.entIndexToCompIndex :
           q.entIndexToCompIndex[i] =
             IF i = e.index THEN INVALID_COMP_INDEX ELSE p.entIndexToCompIndex[i]
  BY RemoveSoftly
<1>2. /\ e.index \in Mapped(p) /\ k = p.entIndexToCompIndex[e.index]
      /\ k \in Slots(p) /\ EntityAt(p, k).index = e.index
      /\ EntityAt(p, k) # NullId
  BY MappedFacts, OwnerIndexes DEF MappedInUse, SlotOf
<1> HIDE DEF k
<1>3. Slots(q) = Slots(p)
  BY <1>1 DEF Slots
<1>4. \A j \in Slots(p) \ {k} : EntityAt(q, j) = EntityAt(p, j)
  BY <1>1, TypeFacts DEF EntityAt
<1>5. MappedInUse(q)
  <2>1. SUFFICES ASSUME NEW i \in Mapped(q)
                 PROVE  /\ q.entIndexToCompIndex[i] \in Slots(q)
                        /\ EntityAt(q, q.entIndexToCompIndex[i]).index = i
    BY DEF MappedInUse
  <2>2. i \in Mapped(p) /\ i # e.index
        /\ q.entIndexToCompIndex[i] = p.entIndexToCompIndex[i]
    BY <1>1 DEF Mapped
  <2>3. /\ p.entIndexToCompIndex[i] \in Slots(p)
        /\ EntityAt(p, p.entIndexToCompIndex[i]).index = i
    BY <2>2 DEF MappedInUse
  <2> QED
    BY <1>2, <1>3, <1>4, <2>2, <2>3
<1>6. Holes(q) = Holes(p) \cup {k}
  BY <1>1, <1>2, <1>3, <1>4 DEF Holes
<1>7. /\ Queued(q) = Queued(p) \cup {k}
      /\ \A m, n \in DOMAIN q.softRemoveCompIndexes :
           q.softRemoveCompIndexes[m] = q.softRemoveCompIndexes[n] => m = n
  <2> DEFINE s == p.softRemoveCompIndexes
             t == q.softRemoveCompIndexes
  <2>1. s \in Seq(DOMAIN p.components) /\ t = Append(s, k)
    BY <1>1, TypeFacts
  <2>2. /\ DOMAIN t = DOMAIN s \cup {Len(s) + 1}
        /\ Len(s) + 1 \notin DOMAIN s
        /\ t[Len(s) + 1] = k
        /\ \A n \in DOMAIN s : t[n] = s[n]
    BY <1>1, <2>1
  <2>3. \A n \in DOMAIN s : s[n] # k
    BY <1>2 DEF QueueIsHoles, Queued
  <2>4. \A m, n \in DOMAIN s : s[m] = s[n] => m = n
    BY DEF QueueIsHoles
  <2>5. Queued(q) = {t[n] : n \in DOMAIN t} /\ Queued(p) = {s[n] : n \in DOMAIN s}
    BY DEF Queued
  <2> HIDE DEF s, t
  <2>6. Queued(q) = Queued(p) \cup {k}
    BY <2>2, <2>5
  <2>7. \A m, n \in DOMAIN t : t[m] = t[n] => m = n
    BY <2>2, <2>3, <2>4
  <2> QED
    BY <2>6, <2>7 DEF t
<1> QED
  BY <1>5, <1>6, <1>7 DEF QueueIsHoles, Holes

(***************************************************************************)
(* Slot k is swapped out, which nobody is mapped to any more and which is  *)
(* not queued (again); the last slot, if it is another one, is no hole.    *)
(***************************************************************************)
LEMMA SwapOutHoles ==
  ASSUME NEW p, PoolType(p), NullUnmapped(p), MappedInUse(p),
         NEW k \in Slots(p),
         \A j \in Slots(p) \ {k} : OwnerMapped(p, j),
         \A i \in Mapped(p) : p.entIndexToCompIndex[i] # k,
         Queued(p) = Holes(p) \ {k},
         k # p.lastCompIndex => p.lastCompIndex \notin Queued(p),
         NEW q, q = SwapOut(p, k)
  PROVE  MappedInUse(q) /\ Queued(q) = Holes(q) /\ k \notin Queued(q)
<1> DEFINE last == p.lastCompIndex
<1>1. /\ last # -1 /\ last \in Slots(p) /\ k \in DOMAIN p.components
      /\ last \in Int /\ k \in Int /\ last # INVALID_COMP_INDEX
      /\ k # INVALID_COMP_INDEX
  BY TypeFacts DEF Slots, INVALID_COMP_INDEX
<1>2. /\ DOMAIN q.entIndexToCompIndex = DOMAIN p.entIndexToCompIndex
      /\ q.softRemoveCompIndexes = p.softRemoveCompIndexes
      /\ q.lastCompIndex = last - 1
      /\ \A j \in DOMAIN p.components :
           q.components[j] = IF j = k THEN p.components[last]
                             ELSE IF j = last THEN p.components[k]
                             ELSE p.components[j]
      /\ \A i \in DOMAIN p.entIndexToCompIndex :
           q.entIndexToCompIndex[i] =
             IF k # last /\ i = EntityAt(p, last).index
               THEN k ELSE p.entIndexToCompIndex[i]
  BY <1>1, SwapOutFields
<1>3. Slots(q) = Slots(p) \ {last}
  BY <1>1, <1>2 DEF Slots
<1> HIDE DEF last
<1>4. /\ \A j \in Slots(p) \ {k, last} : EntityAt(q, j) = EntityAt(p, j)
      /\ EntityAt(q, k) = EntityAt(p, last)
  BY <1>1, <1>2, TypeFacts DEF EntityAt
<1>5. k # last => EntityAt(p, last) # NullId /\ OwnerMapped(p, last)
  BY <1>1 DEF Holes, last
<1>6. ASSUME NEW i \in Mapped(q)
      PROVE  /\ q.entIndexToCompIndex[i] \in Slots(q)
             /\ EntityAt(q, q.entIndexToCompIndex[i]).index = i
  <2>1. i \in DOMAIN p.entIndexToCompIndex
    BY <1>2, <1>6 DEF Mapped
  <2>2. CASE k # last /\ i = EntityAt(p, last).index
    BY <1>1, <1>2, <1>3, <1>4, <2>1, <2>2
  <2>3. CASE ~(k # last /\ i = EntityAt(p, last).index)
    <3>1. q.entIndexToCompIndex[i] = p.entIndexToCompIndex[i] /\ i \in Mapped(p)
      BY <1>2, <1>6, <2>1, <2>3 DEF Mapped
    <3>2. /\ p.entIndexToCompIndex[i] \in Slots(p)
          /\ EntityAt(p, p.entIndexToCompIndex[i]).index = i
          /\ p.entIndexToCompIndex[i] # k
      BY <3>1 DEF MappedInUse
    <3>3. p.entIndexToCompIndex[i] # last
      BY <2>3, <3>2
    <3> QED
      BY <1>3, <1>4, <3>1, <3>2, <3>3
  <2> QED
    BY <2>2, <2>3
<1>7. Queued(q) = Queued(p) /\ k \notin Queued(p)
  BY <1>2 DEF Queued
<1>8. Holes(q) = Holes(p) \ {k}
  <2>1. CASE k = last
    BY <1>3, <1>4, <2>1 DEF Holes
  <2>2. CASE k # last
    BY <1>3, <1>4, <1>5, <2>2 DEF Holes
  <2> QED
    BY <2>1, <2>2
<1> QED
  BY <1>6, <1>7, <1>8 DEF MappedInUse

-----------------------------------------------------------------------------
(* No holes but the queued ones: every step of an untainted pool. *)

LEMMA HardRemoveHoles ==
  ASSUME NEW p, PoolType(p), MappedInUse(p), QueueIsHoles(p), NullUnmapped(p),
         OwnersMapped(p), p.softRemoveCompIndexes = << >>,
         NEW e \in Ids, HasComponent(p, e), ~p.softRemoveMode,
         NEW q, q = Remove(p, e)
  PROVE  MappedInUse(q) /\ QueueIsHoles(q)
<1> DEFINE k == SlotOf(p, e)
           u == [p EXCEPT !.entIndexToCompIndex[e.index] = INVALID_COMP_INDEX]
<1>1. /\ PoolType(u)
      /\ q = SwapOut(u, k)
      /\ q.softRemoveCompIndexes = p.softRemoveCompIndexes
  BY RemoveHardly
<1>2. /\ u.components = p.components
      /\ u.lastCompIndex = p.lastCompIndex
      /\ u.softRemoveCompIndexes = p.softRemoveCompIndexes
      /\ DOMAIN u.entIndexToCompIndex = DOMAIN p.entIndexToCompIndex
      /\ \A i \in DOMAIN p.entIndexToCompIndex :
           u.entIndexToCompIndex[i] =
             IF i = e.index THEN INVALID_COMP_INDEX ELSE p.entIndexToCompIndex[i]
  BY UnmapFields
<1>3. /\ e.index \in Mapped(p) /\ k = p.entIndexToCompIndex[e.index]
      /\ k \in Slots(p) /\ EntityAt(p, k).index = e.index
  BY MappedFacts, OwnerIndexes DEF MappedInUse, SlotOf
<1> HIDE DEF u, k
<1>4. Slots(u) = Slots(p) /\ \A j : EntityAt(u, j) = EntityAt(p, j)
  BY <1>2 DEF Slots, EntityAt
<1>5. \A i \in Mapped(u) : /\ i \in Mapped(p) /\ i # e.index
                           /\ u.entIndexToCompIndex[i] = p.entIndexToCompIndex[i]
  BY <1>2 DEF Mapped
<1>6. MappedInUse(u) /\ \A i \in Mapped(u) : u.entIndexToCompIndex[i] # k
  BY <1>3, <1>4, <1>5 DEF MappedInUse
<1>7. NullUnmapped(u)
  BY <1>2 DEF NullUnmapped
<1>8. \A j \in Slots(u) \ {k} : OwnerMapped(u, j)
  BY <1>2, <1>3, <1>4, UnmapOwners DEF k
<1>9. Queued(u) = {} /\ Holes(u) = {}
  BY <1>2, <1>4 DEF Queued, Holes, QueueIsHoles
<1>10. MappedInUse(q) /\ Queued(q) = Holes(q)
  BY <1>1, <1>3, <1>4, <1>6, <1>7, <1>8, <1>9, SwapOutHoles
<1> QED
  BY <1>1, <1>10 DEF QueueIsHoles, Holes

\* A round of the destructor's loop that meets no queued slot at the end.
LEMMA DrainOneHoles ==
  ASSUME NEW p, PoolType(p), MappedInUse(p), QueueIsHoles(p), NullUnmapped(p),
         OwnersMapped(p), p.softRemoveCompIndexes # << >>, ~TailSwap(p),
         NEW q, q = DrainOne(p)
  PROVE  MappedInUse(q) /\ QueueIsHoles(q)
<1> DEFINE s == p.softRemoveCompIndexes
           k == Head(p.softRemoveCompIndexes)
           u == [p EXCEPT !.softRemoveCompIndexes = Tail(@)]
<1>1. /\ PoolType(u)
      /\ k \in DOMAIN p.components
      /\ q = SwapOut(u, k)
      /\ u.components = p.components
      /\ u.lastCompIndex = p.lastCompIndex
      /\ u.entIndexToCompIndex = p.entIndexToCompIndex
      /\ u.softRemoveCompIndexes = Tail(s)
      /\ q.softRemoveCompIndexes = Tail(s)
  BY DrainOneFields
<1>2. /\ s \in Seq(DOMAIN p.components) /\ s # << >>
      /\ \A m, n \in DOMAIN s : s[m] = s[n] => m = n
      /\ Queued(p) = Holes(p)
  BY TypeFacts DEF QueueIsHoles, Holes
<1>3. k # p.lastCompIndex => p.lastCompIndex \notin Queued(u)
  BY DEF TailSwap
<1> HIDE DEF u
<1>4. /\ 1 \in DOMAIN s /\ k = s[1]
      /\ \A n \in DOMAIN Tail(s) :
           /\ n \in Int /\ n + 1 \in DOMAIN s /\ n + 1 # 1 /\ Tail(s)[n] = s[n + 1]
      /\ \A n \in DOMAIN s : n = 1 \/ (n - 1 \in DOMAIN Tail(s) /\ Tail(s)[n - 1] = s[n])
  BY <1>2
<1>5. Queued(p) = {s[n] : n \in DOMAIN s}
      /\ Queued(u) = {Tail(s)[n] : n \in DOMAIN Tail(s)}
      /\ Queued(q) = {Tail(s)[n] : n \in DOMAIN Tail(s)}
  BY <1>1 DEF Queued
<1> HIDE DEF s, k
<1> DEFINE t == Tail(s)
<1> HIDE DEF t
<1>6. Queued(u) = Queued(p) \ {k} /\ k \in Queued(p)
  <2>1. /\ 1 \in DOMAIN s /\ k = s[1]
        /\ \A n \in DOMAIN t : n + 1 \in DOMAIN s /\ n + 1 # 1 /\ t[n] = s[n + 1]
        /\ \A n \in DOMAIN s : n = 1 \/ (n - 1 \in DOMAIN t /\ t[n - 1] = s[n])
    BY <1>4 DEF t
  <2>2. /\ Queued(p) = {s[n] : n \in DOMAIN s}
        /\ Queued(u) = {t[n] : n \in DOMAIN t}
    BY <1>5 DEF t
  <2>3. \A n \in DOMAIN t : t[n] \in Queued(p) /\ t[n] # k
    BY <1>2, <2>1, <2>2
  <2>4. \A n \in DOMAIN s : s[n] = k \/ s[n] \in Queued(u)
    BY <2>1, <2>2
  <2> QED
    BY <2>1, <2>2, <2>3, <2>4
<1>7. \A m, n \in DOMAIN Tail(s) : Tail(s)[m] = Tail(s)[n] => m = n
  <2>1. SUFFICES ASSUME NEW m \in DOMAIN Tail(s), NEW n \in DOMAIN Tail(s),
                        Tail(s)[m] = Tail(s)[n]
                 PROVE  m = n
    OBVIOUS
  <2>2. m + 1 = n + 1 /\ m \in Int /\ n \in Int
    BY <1>2, <1>4, <2>1
  <2> QED
    BY <2>2
<1>8. /\ Slots(u) = Slots(p) /\ Mapped(u) = Mapped(p) /\ Holes(u) = Holes(p)
      /\ \A j : EntityAt(u, j) = EntityAt(p, j)
  BY <1>1 DEF Slots, Mapped, Holes, EntityAt
<1>9. k \in Slots(u) /\ EntityAt(p, k) = NullId
  BY <1>2, <1>6, <1>8 DEF Holes
<1>10. NullUnmapped(u) /\ MappedInUse(u)
  BY <1>1, <1>8 DEF NullUnmapped, MappedInUse
<1>11. \A j \in Slots(u) : OwnerMapped(u, j)
  BY <1>1, <1>8 DEF OwnersMapped, OwnerMapped, HasComponent, SlotOf
<1>12. \A i \in Mapped(u) : u.entIndexToCompIndex[i] # k
  BY <1>8, <1>9, <1>10, OwnerIndexes
<1>13. k # u.lastCompIndex => u.lastCompIndex \notin Queued(u)
  BY <1>1, <1>3
<1>14. Queued(u) = Holes(u) \ {k}
  BY <1>2, <1>6, <1>8
<1>15. MappedInUse(q) /\ Queued(q) = Holes(q)
  BY <1>1, <1>9, <1>10, <1>11, <1>12, <1>13, <1>14, SwapOutHoles
<1> QED
  BY <1>1, <1>7, <1>15 DEF QueueIsHoles, Holes

\* Only the owners, the map, the queue and the last slot count.
LEMMA SameHoles ==
  ASSUME NEW p, PoolType(p), MappedInUse(p), QueueIsHoles(p), NEW q,
         q.lastCompIndex = p.lastCompIndex,
         q.entIndexToCompIndex = p.entIndexToCompIndex,
         q.softRemoveCompIndexes = p.softRemoveCompIndexes,
         \A j \in DOMAIN p.components : EntityAt(q, j) = EntityAt(p, j)
  PROVE  MappedInUse(q) /\ QueueIsHoles(q)
<1>1. /\ Slots(q) = Slots(p) /\ Mapped(q) = Mapped(p) /\ Queued(q) = Queued(p)
      /\ \A j \in Slots(p) : EntityAt(q, j) = EntityAt(p, j)
  BY TypeFacts DEF Slots, Mapped, Queued
<1> QED
  BY <1>1 DEF MappedInUse, QueueIsHoles

-----------------------------------------------------------------------------
(* How many holes: removals may mislead mapped indexes, but never lose count. *)

\* The mapped indexes that do not lead to a slot in use that is their own.
Misled(p) ==
  {i \in Mapped(p) :
     LET k == p.entIndexToCompIndex[i]
     IN  ~(k \in Slots(p) /\ EntityAt(p, k).index = i)}

\* The holes that are not spoken for, were the queue empty.
Spare(p) == Cardinality(Holes(p)) - Cardinality(Misled(p))

FiniteMap(p) == IsFiniteSet(DOMAIN p.entIndexToCompIndex)

LEMMA HolesFinite ==
  ASSUME NEW p, PoolType(p), FiniteMap(p)
  PROVE  /\ IsFiniteSet(Slots(p)) /\ Cardinality(Slots(p)) = Size(p)
         /\ IsFiniteSet(Holes(p)) /\ Cardinality(Holes(p)) \in Nat
         /\ IsFiniteSet(Mapped(p)) /\ Cardinality(Mapped(p)) \in Nat
         /\ IsFiniteSet(Misled(p)) /\ Cardinality(Misled(p)) \in Nat
         /\ Spare(p) \in Int
<1>1. IsFiniteSet(Slots(p)) /\ Cardinality(Slots(p)) = Size(p)
  <2>1. p.lastCompIndex \in Int /\ p.lastCompIndex >= -1
    BY TypeFacts
  <2> DEFINE last == p.lastCompIndex
  <2> HIDE DEF last
  <2>2. 0 \in Int /\ last \in Int /\ last >= -1
    BY <2>1 DEF last
  <2>3. /\ IsFiniteSet(0 .. last)
        /\ Cardinality(0 .. last) = IF 0 > last THEN 0 ELSE last - 0 + 1
    BY <2>2, FS_Interval, Zenon
  <2>4. Cardinality(0 .. last) = last + 1
    BY <2>2, <2>3
  <2> QED
    BY <2>3, <2>4 DEF Slots, Size, last
<1>2. Holes(p) \subseteq Slots(p)
  BY DEF Holes
<1>3. Mapped(p) \subseteq DOMAIN p.entIndexToCompIndex /\ Misled(p) \subseteq Mapped(p)
  BY DEF Mapped, Misled
<1>4. IsFiniteSet(Holes(p)) /\ IsFiniteSet(Mapped(p)) /\ IsFiniteSet(Misled(p))
  BY <1>1, <1>2, <1>3, FS_Subset DEF FiniteMap
<1> QED
  BY <1>1, <1>4, FS_CardinalityType DEF Spare

\* At most one element joins a finite set, and another may leave it.
LEMMA GrowsByOne ==
  ASSUME NEW S, IsFiniteSet(S), NEW x, NEW T, T \subseteq S \cup {x}
  PROVE  IsFiniteSet(T) /\ Cardinality(T) <= Cardinality(S) + 1
<1>1. Cardinality(S) \in Nat
  BY FS_CardinalityType
<1>2. /\ IsFiniteSet(S \cup {x})
      /\ Cardinality(S \cup {x}) =
           IF x \in S THEN Cardinality(S) ELSE Cardinality(S) + 1
  BY FS_AddElement, Zenon
<1>3. /\ IsFiniteSet(S \cup {x})
      /\ Cardinality(S \cup {x}) <= Cardinality(S) + 1
  BY <1>1, <1>2
<1>4. IsFiniteSet(T) /\ Cardinality(T) <= Cardinality(S \cup {x})
  BY <1>3, FS_Subset
<1> QED
  BY <1>3, <1>4, <1>1, FS_CardinalityType

LEMMA ShrinksByOne ==
  ASSUME NEW S, IsFiniteSet(S), NEW x \in S, NEW T, S \ {x} \subseteq T,
         IsFiniteSet(T)
  PROVE  Cardinality(S) <= Cardinality(T) + 1
<1>1. S \subseteq T \cup {x}
  OBVIOUS
<1> QED
  BY <1>1, GrowsByOne

LEMMA Swaps ==
  ASSUME NEW S, IsFiniteSet(S), NEW x \in S, NEW y, NEW T,
         T \subseteq (S \ {x}) \cup {y}
  PROVE  Cardinality(T) <= Cardinality(S)
<1>1. /\ IsFiniteSet(S \ {x}) /\ Cardinality(S) \in Nat
      /\ Cardinality(S \ {x}) = Cardinality(S) - 1
  BY FS_RemoveElement, FS_CardinalityType
<1>2. IsFiniteSet(T) /\ Cardinality(T) <= Cardinality(S \ {x}) + 1
  BY <1>1, GrowsByOne
<1> QED
  BY <1>1, <1>2, FS_CardinalityType

(***************************************************************************)
(* remove(k) spends at most one hole, or misleads one more index; none of  *)
(* either if the slot is in use and its owner already unmapped.            *)
(***************************************************************************)
LEMMA SwapOutSpare ==
  ASSUME NEW p, PoolType(p), FiniteMap(p), NullUnmapped(p),
         NEW k \in DOMAIN p.components,
         NEW q, q = SwapOut(p, k)
  PROVE  /\ FiniteMap(q)
         /\ Spare(q) >= Spare(p) - 1
         /\ k \in Slots(p) /\ k \notin Holes(p) /\ EntityAt(p, k).index \notin Mapped(p)
              => Spare(q) >= Spare(p)
<1> DEFINE last == p.lastCompIndex
<1>1. /\ PoolType(q)
      /\ DOMAIN q.entIndexToCompIndex = DOMAIN p.entIndexToCompIndex
      /\ last = -1 => q = p
      /\ last # -1 =>
           /\ q.lastCompIndex = last - 1
           /\ \A j \in DOMAIN p.components :
                q.components[j] = IF j = k THEN p.components[last]
                                  ELSE IF j = last THEN p.components[k]
                                  ELSE p.components[j]
           /\ \A i \in DOMAIN p.entIndexToCompIndex :
                q.entIndexToCompIndex[i] =
                  IF k # last /\ i = EntityAt(p, last).index
                    THEN k ELSE p.entIndexToCompIndex[i]
  BY SwapOutFields
<1>2. FiniteMap(q)
  BY <1>1 DEF FiniteMap
<1>3. /\ IsFiniteSet(Holes(p)) /\ Cardinality(Holes(p)) \in Nat
      /\ IsFiniteSet(Misled(p)) /\ Cardinality(Misled(p)) \in Nat
      /\ IsFiniteSet(Holes(q)) /\ Cardinality(Holes(q)) \in Nat
      /\ IsFiniteSet(Misled(q)) /\ Cardinality(Misled(q)) \in Nat
  BY <1>1, <1>2, HolesFinite
<1>4. CASE last = -1
  <2>1. q = p
    BY <1>1, <1>4
  <2> QED
    BY <1>2, <1>3, <2>1 DEF Spare
<1>5. CASE last # -1
  <2>1. /\ last \in Slots(p) /\ last \in DOMAIN p.components
        /\ Slots(q) = Slots(p) \ {last}
        /\ Slots(p) \subseteq DOMAIN p.components
    BY <1>1, <1>5, TypeFacts DEF Slots
  <2>2. /\ EntityAt(q, k) = EntityAt(p, last)
        /\ \A j \in Slots(p) \ {k, last} : EntityAt(q, j) = EntityAt(p, j)
    BY <1>1, <1>5, <2>1 DEF EntityAt
  <2>3. \A i \in DOMAIN p.entIndexToCompIndex :
          q.entIndexToCompIndex[i] =
            IF k # last /\ i = EntityAt(p, last).index
              THEN k ELSE p.entIndexToCompIndex[i]
    BY <1>1, <1>5
  <2> HIDE DEF last
  <2>4. ASSUME NEW i \in Misled(q), i \notin Misled(p)
        PROVE  IF k \in Slots(p)
                 THEN i = EntityAt(p, k).index /\ i \in Mapped(p)
                 ELSE i = EntityAt(p, last).index
    <3>1. /\ i \in DOMAIN p.entIndexToCompIndex
          /\ q.entIndexToCompIndex[i] # INVALID_COMP_INDEX
          /\ ~(/\ q.entIndexToCompIndex[i] \in Slots(q)
               /\ EntityAt(q, q.entIndexToCompIndex[i]).index = i)
      BY <1>1, <2>4 DEF Misled, Mapped
    <3>2. CASE k # last /\ i = EntityAt(p, last).index
      <4>1. q.entIndexToCompIndex[i] = k
        BY <2>3, <3>1, <3>2
      <4>2. k \notin Slots(q)
        BY <2>2, <3>1, <3>2, <4>1
      <4> QED
        BY <2>1, <3>2, <4>2
    <3>3. CASE ~(k # last /\ i = EntityAt(p, last).index)
      <4> DEFINE m == p.entIndexToCompIndex[i]
      <4>1. q.entIndexToCompIndex[i] = m
        BY <2>3, <3>1, <3>3
      <4>2. i \in Mapped(p) /\ m \in Slots(p) /\ EntityAt(p, m).index = i
        BY <2>4, <3>1, <4>1 DEF Misled, Mapped
      <4> HIDE DEF m
      <4>3. m = k \/ m = last
        BY <2>1, <2>2, <3>1, <4>1, <4>2
      <4>4. m = k
        BY <3>3, <4>2, <4>3
      <4> QED
        BY <4>2, <4>4
    <3> QED
      BY <3>2, <3>3
  <2>5. NullId.index \notin Misled(q)
    BY <1>1 DEF NullUnmapped, Misled, Mapped
  <2>6. CASE k \notin Slots(p)
    <3>1. Holes(q) = Holes(p) \ {last}
      BY <2>1, <2>2, <2>6 DEF Holes
    <3>2. CASE last \in Holes(p)
      <4>1. Misled(q) \subseteq Misled(p)
        BY <2>4, <2>5, <2>6, <3>2 DEF Holes
      <4>2. Cardinality(Misled(q)) <= Cardinality(Misled(p))
        BY <1>3, <4>1, FS_Subset
      <4>3. Cardinality(Holes(q)) = Cardinality(Holes(p)) - 1
        BY <1>3, <3>1, <3>2, FS_RemoveElement
      <4> QED
        BY <1>2, <1>3, <2>6, <4>2, <4>3 DEF Spare
    <3>3. CASE last \notin Holes(p)
      <4>1. Misled(q) \subseteq Misled(p) \cup {EntityAt(p, last).index}
        BY <2>4, <2>6
      <4>2. Cardinality(Misled(q)) <= Cardinality(Misled(p)) + 1
        BY <1>3, <4>1, GrowsByOne
      <4>3. Holes(q) = Holes(p)
        BY <3>1, <3>3
      <4> QED
        BY <1>2, <1>3, <2>6, <4>2, <4>3 DEF Spare
    <3> QED
      BY <3>2, <3>3
  <2>7. CASE k \in Holes(p)
    <3>1. k \in Slots(p) /\ EntityAt(p, k) = NullId
      BY <2>7 DEF Holes
    <3>2. Misled(q) \subseteq Misled(p)
      BY <2>4, <2>5, <3>1
    <3>3. Cardinality(Misled(q)) <= Cardinality(Misled(p))
      BY <1>3, <3>2, FS_Subset
    <3>4. Holes(p) \ {k} \subseteq Holes(q) \/
          (k # last /\ last \in Holes(p) /\ Holes(p) \ {last} \subseteq Holes(q))
      BY <2>1, <2>2 DEF Holes
    <3>5. Cardinality(Holes(p)) <= Cardinality(Holes(q)) + 1
      BY <1>3, <2>7, <3>4, ShrinksByOne
    <3> QED
      BY <1>2, <1>3, <2>7, <3>3, <3>5 DEF Spare
  <2>8. CASE k \in Slots(p) /\ k \notin Holes(p)
    <3>1. Cardinality(Holes(p)) <= Cardinality(Holes(q))
      <4>1. CASE k # last /\ last \in Holes(p)
        <5>1. Holes(p) \subseteq (Holes(q) \ {k}) \cup {last} /\ k \in Holes(q)
          BY <2>1, <2>2, <2>8, <4>1 DEF Holes
        <5> QED
          BY <1>3, <5>1, Swaps
      <4>2. CASE ~(k # last /\ last \in Holes(p))
        <5>1. Holes(p) \subseteq Holes(q)
          BY <2>1, <2>2, <2>8, <4>2 DEF Holes
        <5> QED
          BY <1>3, <5>1, FS_Subset
      <4> QED
        BY <4>1, <4>2
    <3>2. Cardinality(Misled(q)) <= Cardinality(Misled(p)) + 1
      <4>1. Misled(q) \subseteq Misled(p) \cup {EntityAt(p, k).index}
        BY <2>4, <2>8
      <4> QED
        BY <1>3, <4>1, GrowsByOne
    <3>3. ASSUME EntityAt(p, k).index \notin Mapped(p)
          PROVE  Cardinality(Misled(q)) <= Cardinality(Misled(p))
      <4>1. Misled(q) \subseteq Misled(p)
        BY <2>4, <2>8, <3>3
      <4> QED
        BY <1>3, <4>1, FS_Subset
    <3> QED
      BY <1>2, <1>3, <3>1, <3>2, <3>3 DEF Spare
  <2> QED
    BY <2>6, <2>7, <2>8
<1> QED
  BY <1>4, <1>5

LEMMA NewComponentSpare ==
  ASSUME NEW p, PoolType(p), FiniteMap(p), NullUnmapped(p),
         NEW e \in Ids, NEW v \in Values, Size(p) < MaxSlots,
         e.index # NullId.index,
         NEW q, q = NewComponent(p, e, v)
  PROVE  FiniteMap(q) /\ NullUnmapped(q) /\ Spare(q) >= Spare(p)
<1> DEFINE k == p.lastCompIndex + 1
<1>1. /\ PoolType(q)
      /\ q.lastCompIndex = k
      /\ EntityAt(q, k) = e
      /\ \A j \in DOMAIN p.components \ {k} : q.components[j] = p.components[j]
      /\ DOMAIN q.entIndexToCompIndex = DOMAIN p.entIndexToCompIndex \cup {e.index}
      /\ q.entIndexToCompIndex[e.index] = k
      /\ \A i \in DOMAIN p.entIndexToCompIndex \ {e.index} :
           q.entIndexToCompIndex[i] = p.entIndexToCompIndex[i]
  BY NewComponentFields
<1>2. Slots(q) = Slots(p) \cup {k} /\ k \notin Slots(p) /\ k \in Slots(q)
  BY <1>1, TypeFacts DEF Slots
<1> HIDE DEF k
<1>3. \A j \in Slots(p) : EntityAt(q, j) = EntityAt(p, j)
  BY <1>1, <1>2, TypeFacts DEF EntityAt
<1>4. FiniteMap(q) /\ NullUnmapped(q)
  BY <1>1, FS_AddElement DEF FiniteMap, NullUnmapped
<1>5. Holes(q) = Holes(p)
  BY <1>1, <1>2, <1>3 DEF Holes
<1>6. Misled(q) \subseteq Misled(p)
  BY <1>1, <1>2, <1>3 DEF Misled, Mapped
<1>7. Cardinality(Misled(q)) <= Cardinality(Misled(p))
  BY <1>6, HolesFinite, FS_Subset
<1> QED
  BY <1>1, <1>4, <1>5, <1>7, HolesFinite DEF Spare

\* A soft removal leaves one more hole than it misleads indexes.
LEMMA SoftRemoveSpare ==
  ASSUME NEW p, PoolType(p), FiniteMap(p), NullUnmapped(p),
         NEW e \in Ids, HasComponent(p, e), p.softRemoveMode,
         NEW q, q = Remove(p, e)
  PROVE  FiniteMap(q) /\ NullUnmapped(q) /\ Spare(q) >= Spare(p) + 1
<1> DEFINE k == SlotOf(p, e)
<1>1. /\ k \in DOMAIN p.components
      /\ q.lastCompIndex = p.lastCompIndex
      /\ EntityAt(q, k) = NullId
      /\ \A j \in DOMAIN p.components \ {k} : q.components[j] = p.components[j]
      /\ DOMAIN q.entIndexToCompIndex = DOMAIN p.entIndexToCompIndex
      /\ \A i \in DOMAIN p.entIndexToCompIndex :
           q.entIndexToCompIndex[i] =
             IF i = e.index THEN INVALID_COMP_INDEX ELSE p.entIndexToCompIndex[i]
  BY RemoveSoftly
<1>2. PoolType(q)
  BY RemoveType
<1>3. e.index \in Mapped(p) /\ k = p.entIndexToCompIndex[e.index]
  BY MappedFacts DEF SlotOf
<1> HIDE DEF k
<1>4. FiniteMap(q) /\ NullUnmapped(q) /\ Slots(q) = Slots(p)
  BY <1>1 DEF FiniteMap, NullUnmapped, Slots
<1>5. \A j \in Slots(p) \ {k} : EntityAt(q, j) = EntityAt(p, j)
  BY <1>1, TypeFacts DEF EntityAt
<1>6. /\ IsFiniteSet(Holes(p)) /\ Cardinality(Holes(p)) \in Nat
      /\ IsFiniteSet(Misled(p)) /\ Cardinality(Misled(p)) \in Nat
      /\ IsFiniteSet(Holes(q)) /\ Cardinality(Holes(q)) \in Nat
      /\ IsFiniteSet(Misled(q)) /\ Cardinality(Misled(q)) \in Nat
  BY <1>2, <1>4, HolesFinite
<1>7. ASSUME NEW i \in Misled(q)
      PROVE  \/ i \in Misled(p) \ {e.index}
             \/ /\ k \in Slots(p) /\ i = EntityAt(p, k).index
                /\ i \in Mapped(p) \ {e.index}
  <2> DEFINE m == p.entIndexToCompIndex[i]
  <2>1. i \in Mapped(p) /\ i # e.index /\ q.entIndexToCompIndex[i] = m
        /\ ~(m \in Slots(q) /\ EntityAt(q, m).index = i)
    BY <1>1 DEF Misled, Mapped
  <2>2. i \notin Misled(p) => m \in Slots(p) /\ EntityAt(p, m).index = i
    BY <2>1 DEF Misled
  <2> HIDE DEF m
  <2> QED
    BY <1>4, <1>5, <2>1, <2>2
<1>8. CASE k \in Slots(p) \ Holes(p)
  <2>1. Holes(q) = Holes(p) \cup {k} /\ k \notin Holes(p)
    BY <1>1, <1>4, <1>5, <1>8 DEF Holes
  <2>2. Cardinality(Holes(q)) = Cardinality(Holes(p)) + 1
    BY <1>6, <2>1, FS_AddElement
  <2>3. Cardinality(Misled(q)) <= Cardinality(Misled(p))
    <3>1. CASE e.index \in Misled(p)
      <4>1. Misled(q) \subseteq (Misled(p) \ {e.index}) \cup {EntityAt(p, k).index}
        BY <1>7
      <4> QED
        BY <1>6, <3>1, <4>1, Swaps
    <3>2. CASE e.index \notin Misled(p)
      <4>1. EntityAt(p, k).index = e.index
        BY <1>3, <3>2 DEF Misled
      <4>2. Misled(q) \subseteq Misled(p)
        BY <1>7, <4>1
      <4> QED
        BY <1>6, <4>2, FS_Subset
    <3> QED
      BY <3>1, <3>2
  <2> QED
    BY <1>4, <1>6, <2>2, <2>3 DEF Spare
<1>9. CASE k \notin Slots(p) \ Holes(p)
  <2>1. Holes(q) = Holes(p)
    BY <1>1, <1>4, <1>5, <1>9 DEF Holes
  <2>2. k \in Slots(p) => EntityAt(p, k).index = NullId.index
    BY <1>9 DEF Holes
  <2>3. NullId.index \notin Mapped(p)
    BY DEF NullUnmapped, Mapped
  <2>4. e.index \in Misled(p)
    BY <1>3, <2>2, <2>3 DEF Misled
  <2>5. Misled(q) \subseteq Misled(p) \ {e.index}
    BY <1>7, <2>2, <2>3
  <2>6. /\ IsFiniteSet(Misled(p) \ {e.index})
        /\ Cardinality(Misled(p) \ {e.index}) = Cardinality(Misled(p)) - 1
    BY <1>6, <2>4, FS_RemoveElement
  <2>7. Cardinality(Misled(q)) <= Cardinality(Misled(p)) - 1
    BY <2>5, <2>6, FS_Subset
  <2> QED
    BY <1>4, <1>6, <2>1, <2>7 DEF Spare
<1> QED
  BY <1>8, <1>9

\* A hard removal spends no hole: it gives up a slot that was the entity's
\* own, or a misled index.
LEMMA HardRemoveSpare ==
  ASSUME NEW p, PoolType(p), FiniteMap(p), NullUnmapped(p),
         NEW e \in Ids, HasComponent(p, e), ~p.softRemoveMode,
         NEW q, q = Remove(p, e)
  PROVE  FiniteMap(q) /\ NullUnmapped(q) /\ Spare(q) >= Spare(p)
<1> DEFINE k == SlotOf(p, e)
           u == [p EXCEPT !.entIndexToCompIndex[e.index] = INVALID_COMP_INDEX]
<1>1. k \in DOMAIN u.components /\ PoolType(u) /\ q = SwapOut(u, k)
  BY RemoveHardly
<1>2. /\ u.components = p.components
      /\ u.lastCompIndex = p.lastCompIndex
      /\ DOMAIN u.entIndexToCompIndex = DOMAIN p.entIndexToCompIndex
      /\ \A i \in DOMAIN p.entIndexToCompIndex :
           u.entIndexToCompIndex[i] =
             IF i = e.index THEN INVALID_COMP_INDEX ELSE p.entIndexToCompIndex[i]
  BY UnmapFields
<1>3. e.index \in Mapped(p) /\ k = p.entIndexToCompIndex[e.index]
  BY MappedFacts DEF SlotOf
<1> HIDE DEF u, k
<1>4. FiniteMap(u) /\ NullUnmapped(u) /\ Slots(u) = Slots(p)
      /\ \A j : EntityAt(u, j) = EntityAt(p, j)
  BY <1>2 DEF FiniteMap, NullUnmapped, Slots, EntityAt
<1>5. Holes(u) = Holes(p)
  BY <1>4 DEF Holes
<1>6. Mapped(u) = Mapped(p) \ {e.index} /\ Misled(u) = Misled(p) \ {e.index}
  BY <1>2, <1>4 DEF Misled, Mapped
<1>7. /\ IsFiniteSet(Holes(p)) /\ Cardinality(Holes(p)) \in Nat
      /\ IsFiniteSet(Misled(p)) /\ Cardinality(Misled(p)) \in Nat
  BY HolesFinite
<1>8. /\ FiniteMap(q) /\ Spare(q) \in Int
      /\ Spare(q) >= Spare(u) - 1
      /\ k \in Slots(u) /\ k \notin Holes(u) /\ EntityAt(u, k).index \notin Mapped(u)
           => Spare(q) >= Spare(u)
  <2>1. /\ FiniteMap(q)
        /\ Spare(q) >= Spare(u) - 1
        /\ k \in Slots(u) /\ k \notin Holes(u) /\ EntityAt(u, k).index \notin Mapped(u)
             => Spare(q) >= Spare(u)
    BY <1>1, <1>4, SwapOutSpare
  <2>2. PoolType(q)
    BY RemoveType
  <2> QED
    BY <2>1, <2>2, HolesFinite
<1>9. NullUnmapped(q)
  <2>1. DOMAIN q.entIndexToCompIndex = DOMAIN u.entIndexToCompIndex
    BY <1>1, SwapOutFields
  <2> QED
    BY <1>4, <2>1 DEF NullUnmapped
<1>10. CASE e.index \in Misled(p)
  <2>1. Cardinality(Misled(u)) = Cardinality(Misled(p)) - 1
    BY <1>6, <1>7, <1>10, FS_RemoveElement
  <2>2. Spare(u) = Spare(p) + 1 /\ Spare(u) \in Int /\ Spare(p) \in Int
    BY <1>5, <1>7, <2>1 DEF Spare
  <2> QED
    BY <1>8, <1>9, <2>2
<1>11. CASE e.index \notin Misled(p)
  <2>1. Misled(u) = Misled(p)
    BY <1>6, <1>11
  <2>2. k \in Slots(p) /\ EntityAt(p, k).index = e.index
    BY <1>3, <1>11 DEF Misled
  <2>3. k \notin Holes(p)
    BY <1>3, <2>2 DEF Holes, NullUnmapped, Mapped
  <2>4. Spare(u) = Spare(p)
    BY <1>5, <2>1 DEF Spare
  <2> QED
    BY <1>4, <1>5, <1>6, <1>8, <1>9, <2>2, <2>3, <2>4
<1> QED
  BY <1>10, <1>11

\* The indexes that are not misled have each a slot that is no hole.
LEMMA MappedFit ==
  ASSUME NEW p, PoolType(p), FiniteMap(p), NullUnmapped(p)
  PROVE  Cardinality(Mapped(p)) + Spare(p) <= Size(p)
<1> DEFINE S == Mapped(p) \ Misled(p)
           T == Slots(p) \ Holes(p)
           f == [i \in S |-> p.entIndexToCompIndex[i]]
<1>1. \A i \in S : f[i] \in T /\ EntityAt(p, f[i]).index = i
  BY DEF Misled, Mapped, Holes, NullUnmapped
<1>2. f \in Injection(S, T)
  <2>1. f \in [S -> T]
    BY <1>1
  <2>2. \A i, j \in S : f[i] = f[j] => i = j
    BY <1>1
  <2> HIDE DEF f, S, T
  <2> QED
    BY <2>1, <2>2 DEF Injection, IsInjective
<1>3. /\ IsFiniteSet(Slots(p)) /\ Cardinality(Slots(p)) = Size(p)
      /\ IsFiniteSet(Mapped(p)) /\ Cardinality(Mapped(p)) \in Nat
      /\ Cardinality(Holes(p)) \in Nat /\ Cardinality(Misled(p)) \in Nat
      /\ Size(p) \in Nat
  BY HolesFinite, FS_CardinalityType
<1>4. /\ IsFiniteSet(T)
      /\ Cardinality(T) = Cardinality(Slots(p)) - Cardinality(Slots(p) \cap Holes(p))
  BY <1>3, FS_Difference
<1>5. Cardinality(S) = Cardinality(Mapped(p)) - Cardinality(Mapped(p) \cap Misled(p))
  BY <1>3, FS_Difference
<1>6. Slots(p) \cap Holes(p) = Holes(p) /\ Mapped(p) \cap Misled(p) = Misled(p)
  BY DEF Holes, Misled
<1> HIDE DEF f, S, T
<1>7. Cardinality(S) <= Cardinality(T)
  BY <1>2, <1>4, FS_Injection
<1>8. /\ Cardinality(T) = Size(p) - Cardinality(Holes(p))
      /\ Cardinality(S) = Cardinality(Mapped(p)) - Cardinality(Misled(p))
  BY <1>3, <1>4, <1>5, <1>6
<1> QED
  BY <1>3, <1>7, <1>8 DEF Spare

\* A swap maps no index anew, for a client that never assigns twice.
LEMMA SwapOutMapped ==
  ASSUME NEW p, PoolType(p), NullUnmapped(p), NEW k \in DOMAIN p.components,
         \A j \in Slots(p) \ {k} : OwnerMapped(p, j), p.lastCompIndex # -1,
         NEW q, q = SwapOut(p, k)
  PROVE  Mapped(q) = Mapped(p) /\ Size(q) = Size(p) - 1
<1> DEFINE last == p.lastCompIndex
<1>1. /\ DOMAIN q.entIndexToCompIndex = DOMAIN p.entIndexToCompIndex
      /\ q.lastCompIndex = last - 1
      /\ \A i \in DOMAIN p.entIndexToCompIndex :
           q.entIndexToCompIndex[i] =
             IF k # last /\ i = EntityAt(p, last).index
               THEN k ELSE p.entIndexToCompIndex[i]
  BY SwapOutFields
<1>2. last \in Slots(p) /\ last \in Int /\ k # INVALID_COMP_INDEX
  BY TypeFacts DEF Slots, INVALID_COMP_INDEX, SlotNumbers
<1>3. Size(q) = Size(p) - 1
  BY <1>1, <1>2 DEF Size
<1> HIDE DEF last
<1>4. ASSUME NEW i \in DOMAIN p.entIndexToCompIndex,
             k # last, i = EntityAt(p, last).index
      PROVE  p.entIndexToCompIndex[i] # INVALID_COMP_INDEX
  <2>1. OwnerMapped(p, last)
    BY <1>2, <1>4
  <2>2. EntityAt(p, last) # NullId
    BY <1>4 DEF NullUnmapped
  <2> QED
    BY <1>4, <2>1, <2>2 DEF OwnerMapped, HasComponent
<1>5. Mapped(q) = Mapped(p)
  BY <1>1, <1>2, <1>4 DEF Mapped
<1> QED
  BY <1>3, <1>5

\* Only the owners, the map, the queue and the last slot count.
LEMMA SameCounts ==
  ASSUME NEW p, PoolType(p), NEW q,
         q.lastCompIndex = p.lastCompIndex,
         q.entIndexToCompIndex = p.entIndexToCompIndex,
         \A j \in DOMAIN p.components : EntityAt(q, j) = EntityAt(p, j)
  PROVE  /\ Spare(q) = Spare(p) /\ Size(q) = Size(p) /\ Mapped(q) = Mapped(p)
         /\ NullUnmapped(p) <=> NullUnmapped(q)
<1>1. /\ Slots(q) = Slots(p) /\ Mapped(q) = Mapped(p) /\ Size(q) = Size(p)
      /\ \A j \in Slots(p) : EntityAt(q, j) = EntityAt(p, j)
  BY TypeFacts DEF Slots, Mapped, Size
<1>2. Holes(q) = Holes(p) /\ Misled(q) = Misled(p)
  BY <1>1 DEF Holes, Misled
<1> QED
  BY <1>1, <1>2 DEF Spare, NullUnmapped

-----------------------------------------------------------------------------
(* Pools in good order, whoever uses them. *)

\* The slots in use are as many as the mapped indexes and the queued slots.
ExactCount(p) ==
  Cardinality(Mapped(p)) + Len(p.softRemoveCompIndexes) = Size(p)

Sound(p) ==
  /\ PoolType(p)
  /\ FiniteMap(p)
  /\ NullUnmapped(p)
  /\ OwnersMapped(p)
  /\ ExactCount(p)

LEMMA SoundFacts ==
  ASSUME NEW p, Sound(p)
  PROVE  /\ PoolType(p) /\ FiniteMap(p) /\ NullUnmapped(p) /\ OwnersMapped(p)
         /\ ExactCount(p)
         /\ IsFiniteSet(Mapped(p)) /\ Cardinality(Mapped(p)) \in Nat
         /\ Len(p.softRemoveCompIndexes) \in Nat
         /\ Size(p) \in Nat /\ Size(p) = p.lastCompIndex + 1
         /\ p.lastCompIndex \in Int
  BY HolesFinite, TypeFacts, LenProperties DEF Sound, Size

\* A pool just constructed.
LEMMA EmptyPoolSound == Sound(EmptyPool) /\ Mapped(EmptyPool) = {}
<1>1. /\ EmptyPool.components = [k \in {} |-> NullId]
      /\ EmptyPool.lastCompIndex = -1
      /\ EmptyPool.entIndexToCompIndex = [i \in {} |-> INVALID_COMP_INDEX]
      /\ EmptyPool.softRemoveMode = FALSE
      /\ EmptyPool.softRemoveCompIndexes = << >>
  BY DEF EmptyPool
<1>2. EmptyPool.components \in Vectors
  <2>1. EmptyPool.components \in [0 .. 0 - 1 -> Component]
    BY <1>1
  <2>2. 0 \in 0 .. MaxSlots
    BY StorageAssumption
  <2> QED
    BY <2>1, <2>2 DEF Vectors
<1>3. EmptyPool.entIndexToCompIndex \in IndexMaps
  <2>1. EmptyPool.entIndexToCompIndex \in [{} -> {INVALID_COMP_INDEX} \cup SlotNumbers]
    BY <1>1
  <2> QED
    BY <2>1 DEF IndexMaps
<1>4. EmptyPool.softRemoveCompIndexes \in Seq(SlotNumbers)
  BY <1>1
<1>5. EmptyPool \in PoolRecord
  BY <1>1, <1>2, <1>3, <1>4, PoolRecordFields DEF EmptyPool
<1>6. Slots(EmptyPool) = {} /\ Queued(EmptyPool) = {} /\ Mapped(EmptyPool) = {}
  BY <1>1 DEF Slots, Queued, Mapped
<1>7. PoolType(EmptyPool)
  BY <1>5, <1>6 DEF PoolType
<1>8. Size(EmptyPool) = 0 /\ Len(EmptyPool.softRemoveCompIndexes) = 0
  BY <1>1 DEF Size
<1>9. ExactCount(EmptyPool) /\ FiniteMap(EmptyPool)
  BY <1>1, <1>6, <1>8, FS_EmptySet DEF ExactCount, FiniteMap
<1> QED
  BY <1>1, <1>6, <1>7, <1>9 DEF Sound, NullUnmapped, OwnersMapped

LEMMA NewComponentSound ==
  ASSUME NEW p, Sound(p), NEW e \in Ids, NEW v \in Values, Size(p) < MaxSlots,
         ~HasComponent(p, e), e.index # NullId.index,
         NEW q, q = NewComponent(p, e, v)
  PROVE  /\ Sound(q)
         /\ Mapped(q) = Mapped(p) \cup {e.index}
<1>0. /\ PoolType(p) /\ FiniteMap(p) /\ NullUnmapped(p) /\ OwnersMapped(p)
      /\ ExactCount(p)
      /\ IsFiniteSet(Mapped(p)) /\ Cardinality(Mapped(p)) \in Nat
      /\ Len(p.softRemoveCompIndexes) \in Nat
      /\ Size(p) \in Nat /\ Size(p) = p.lastCompIndex + 1
      /\ p.lastCompIndex \in Int
  BY SoundFacts
<1> DEFINE k == p.lastCompIndex + 1
<1>1. /\ PoolType(q)
      /\ q.lastCompIndex = k
      /\ DOMAIN q.entIndexToCompIndex = DOMAIN p.entIndexToCompIndex \cup {e.index}
      /\ q.entIndexToCompIndex[e.index] = k
      /\ \A i \in DOMAIN p.entIndexToCompIndex \ {e.index} :
           q.entIndexToCompIndex[i] = p.entIndexToCompIndex[i]
      /\ q.softRemoveCompIndexes = p.softRemoveCompIndexes
  BY <1>0, NewComponentFields
<1>2. k # INVALID_COMP_INDEX /\ k = Size(p)
  BY <1>0 DEF INVALID_COMP_INDEX
<1> HIDE DEF k
<1>3. Mapped(q) = Mapped(p) \cup {e.index}
  BY <1>1, <1>2 DEF Mapped
<1>4. e.index \notin Mapped(p)
  BY <1>0, MappedFacts
<1>5. Cardinality(Mapped(q)) = Cardinality(Mapped(p)) + 1
  BY <1>0, <1>3, <1>4, FS_AddElement
<1>6. Size(q) = Size(p) + 1
  BY <1>1, <1>2 DEF Size
<1>7. ExactCount(q)
  BY <1>0, <1>1, <1>5, <1>6 DEF ExactCount
<1>8. NullUnmapped(q) /\ OwnersMapped(q)
  BY <1>0, NewComponentOwners
<1>9. FiniteMap(q)
  BY <1>0, <1>1, FS_AddElement DEF FiniteMap
<1> QED
  BY <1>1, <1>3, <1>7, <1>8, <1>9 DEF Sound

(***************************************************************************)
(* Remove unmaps the entity and nobody else, and does not throw: the last  *)
(* slot that it reads is there.                                            *)
(***************************************************************************)
LEMMA RemoveSound ==
  ASSUME NEW p, Sound(p), NEW e \in Ids, HasComponent(p, e),
         NEW q, q = Remove(p, e)
  PROVE  /\ Sound(q)
         /\ Mapped(q) = Mapped(p) \ {e.index}
         /\ ~RemoveThrows(p, e)
<1>0. /\ PoolType(p) /\ FiniteMap(p) /\ NullUnmapped(p) /\ OwnersMapped(p)
      /\ ExactCount(p)
      /\ IsFiniteSet(Mapped(p)) /\ Cardinality(Mapped(p)) \in Nat
      /\ Len(p.softRemoveCompIndexes) \in Nat
      /\ Size(p) \in Nat /\ Size(p) = p.lastCompIndex + 1
      /\ p.lastCompIndex \in Int
  BY SoundFacts
<1>1. e.index \in Mapped(p)
  BY <1>0, MappedFacts
<1>2. /\ Cardinality(Mapped(p) \ {e.index}) = Cardinality(Mapped(p)) - 1
      /\ Cardinality(Mapped(p)) # 0
  BY <1>0, <1>1, FS_RemoveElement, FS_EmptySet
<1>3. p.lastCompIndex # -1
  BY <1>0, <1>2 DEF ExactCount
<1>4. ~RemoveThrows(p, e)
  BY <1>0, <1>3, TypeFacts DEF RemoveThrows, SwapThrows
<1>5. PoolType(q) /\ NullUnmapped(q) /\ OwnersMapped(q)
  BY <1>0, RemoveType, RemoveOwners
<1> DEFINE k == SlotOf(p, e)
<1>6. CASE p.softRemoveMode
  <2>1. /\ q.softRemoveCompIndexes = Append(p.softRemoveCompIndexes, k)
        /\ k \in DOMAIN p.components
        /\ q.lastCompIndex = p.lastCompIndex
        /\ DOMAIN q.entIndexToCompIndex = DOMAIN p.entIndexToCompIndex
        /\ \A i \in DOMAIN p.entIndexToCompIndex :
             q.entIndexToCompIndex[i] =
               IF i = e.index THEN INVALID_COMP_INDEX ELSE p.entIndexToCompIndex[i]
    BY <1>0, <1>6, RemoveSoftly
  <2> HIDE DEF k
  <2>2. Len(q.softRemoveCompIndexes) = Len(p.softRemoveCompIndexes) + 1
    BY <1>0, <2>1, TypeFacts, AppendProperties
  <2>3. Mapped(q) = Mapped(p) \ {e.index} /\ Size(q) = Size(p)
    BY <2>1 DEF Mapped, Size
  <2>4. ExactCount(q) /\ FiniteMap(q)
    BY <1>0, <1>2, <2>1, <2>2, <2>3 DEF ExactCount, FiniteMap
  <2> QED
    BY <1>4, <1>5, <2>3, <2>4 DEF Sound
<1>7. CASE ~p.softRemoveMode
  <2> DEFINE u == [p EXCEPT !.entIndexToCompIndex[e.index] = INVALID_COMP_INDEX]
  <2>1. /\ k \in DOMAIN u.components /\ PoolType(u) /\ q = SwapOut(u, k)
        /\ q.softRemoveCompIndexes = p.softRemoveCompIndexes
    BY <1>0, <1>7, RemoveHardly
  <2>2. /\ u.components = p.components
        /\ u.lastCompIndex = p.lastCompIndex
        /\ DOMAIN u.entIndexToCompIndex = DOMAIN p.entIndexToCompIndex
        /\ \A i \in DOMAIN p.entIndexToCompIndex :
             u.entIndexToCompIndex[i] =
               IF i = e.index THEN INVALID_COMP_INDEX ELSE p.entIndexToCompIndex[i]
    BY <1>0, UnmapFields
  <2> HIDE DEF u
  <2>3. Mapped(u) = Mapped(p) \ {e.index} /\ Size(u) = Size(p)
        /\ Slots(u) = Slots(p) /\ NullUnmapped(u)
    BY <1>0, <2>2 DEF Mapped, Size, Slots, NullUnmapped
  <2>4. ASSUME NEW j \in Slots(u) \ {k} PROVE OwnerMapped(u, j)
    <3>1. j \in Slots(p) /\ j # k /\ EntityAt(u, j) = EntityAt(p, j)
      BY <2>2, <2>3, <2>4 DEF EntityAt
    <3> QED
      BY <1>0, <2>2, <3>1, UnmapOwners
  <2> HIDE DEF k
  <2>5. Mapped(q) = Mapped(u) /\ Size(q) = Size(u) - 1
    BY <1>3, <2>1, <2>2, <2>3, <2>4, SwapOutMapped
  <2>6. DOMAIN q.entIndexToCompIndex = DOMAIN u.entIndexToCompIndex
    BY <2>1, SwapOutFields
  <2>7. ExactCount(q) /\ FiniteMap(q)
    BY <1>0, <1>2, <2>1, <2>2, <2>3, <2>5, <2>6 DEF ExactCount, FiniteMap
  <2> QED
    BY <1>4, <1>5, <2>3, <2>5, <2>7 DEF Sound
<1> QED
  BY <1>6, <1>7

(***************************************************************************)
(* A round of the destructor's loop unmaps nobody and does not throw: for  *)
(* every queued slot there is one in use.                                  *)
(***************************************************************************)
LEMMA DrainOneSound ==
  ASSUME NEW p, Sound(p), p.softRemoveCompIndexes # << >>,
         NEW q, q = DrainOne(p)
  PROVE  /\ Sound(q)
         /\ Mapped(q) = Mapped(p)
         /\ p.lastCompIndex # -1
         /\ ~SwapThrows(p, Head(p.softRemoveCompIndexes))
<1>0. /\ PoolType(p) /\ FiniteMap(p) /\ NullUnmapped(p) /\ OwnersMapped(p)
      /\ ExactCount(p)
      /\ IsFiniteSet(Mapped(p)) /\ Cardinality(Mapped(p)) \in Nat
      /\ Len(p.softRemoveCompIndexes) \in Nat
      /\ Size(p) \in Nat /\ Size(p) = p.lastCompIndex + 1
      /\ p.lastCompIndex \in Int
  BY SoundFacts
<1> DEFINE k == Head(p.softRemoveCompIndexes)
           u == [p EXCEPT !.softRemoveCompIndexes = Tail(@)]
<1>1. /\ PoolType(u) /\ k \in DOMAIN u.components /\ q = SwapOut(u, k)
      /\ u.components = p.components
      /\ u.lastCompIndex = p.lastCompIndex
      /\ u.entIndexToCompIndex = p.entIndexToCompIndex
      /\ q.softRemoveCompIndexes = Tail(p.softRemoveCompIndexes)
      /\ PoolType(q)
  BY <1>0, DrainOneFields
<1> HIDE DEF u, k
<1>2. /\ Mapped(u) = Mapped(p) /\ Size(u) = Size(p)
      /\ NullUnmapped(u) /\ OwnersMapped(u)
  <2>1. \A j \in Slots(p) : EntityAt(u, j) = EntityAt(p, j)
    BY <1>1 DEF EntityAt
  <2> QED
    BY <1>0, <1>1, <2>1, SameOwners DEF Mapped, Size
<1>3. /\ Len(p.softRemoveCompIndexes) >= 1
      /\ Len(q.softRemoveCompIndexes) = Len(p.softRemoveCompIndexes) - 1
  BY <1>0, <1>1, TypeFacts, HeadTailProperties, LenProperties
<1>4. p.lastCompIndex # -1 /\ u.lastCompIndex # -1
  BY <1>0, <1>1, <1>3 DEF ExactCount
<1>5. Mapped(q) = Mapped(u) /\ Size(q) = Size(u) - 1
  BY <1>1, <1>2, <1>4, SwapOutMapped DEF OwnersMapped
<1>6. NullUnmapped(q) /\ OwnersMapped(q)
  BY <1>1, <1>2, SwapOutOwners DEF OwnersMapped
<1>7. DOMAIN q.entIndexToCompIndex = DOMAIN u.entIndexToCompIndex
  BY <1>1, SwapOutFields
<1>8. ExactCount(q) /\ FiniteMap(q)
  BY <1>0, <1>1, <1>2, <1>3, <1>5, <1>7 DEF ExactCount, FiniteMap
<1>9. ~SwapThrows(p, k)
  BY <1>0, <1>4, TypeFacts DEF SwapThrows
<1> QED
  BY <1>1, <1>2, <1>4, <1>5, <1>6, <1>8, <1>9 DEF Sound, k

\* The mode does not matter.
LEMMA ToggleSound ==
  ASSUME NEW p, Sound(p), NEW b \in BOOLEAN,
         NEW q, q = [p EXCEPT !.softRemoveMode = b]
  PROVE  /\ Sound(q)
         /\ Mapped(q) = Mapped(p)
<1>1. PoolType(p)
  BY DEF Sound
<1>2. /\ PoolType(q)
      /\ q.components = p.components
      /\ q.lastCompIndex = p.lastCompIndex
      /\ q.entIndexToCompIndex = p.entIndexToCompIndex
      /\ q.softRemoveCompIndexes = p.softRemoveCompIndexes
  BY <1>1, ToggleFields
<1>3. \A k \in Slots(p) : EntityAt(q, k) = EntityAt(p, k)
  BY <1>2 DEF EntityAt
<1>4. NullUnmapped(q) /\ OwnersMapped(q)
  BY <1>2, <1>3, SameOwners DEF Sound
<1>5. Mapped(q) = Mapped(p) /\ Size(q) = Size(p)
  BY <1>2 DEF Mapped, Size
<1> QED
  BY <1>2, <1>4, <1>5 DEF Sound, ExactCount, FiniteMap

-----------------------------------------------------------------------------
(* Pools whose counter may have run ahead of their vector. *)

LoosePools(D) ==
  [ components : [D -> Component],
    lastCompIndex : {-1} \cup Nat,
    entIndexToCompIndex : UNION {[E -> {INVALID_COMP_INDEX} \cup D] : E \in SUBSET Nat},
    softRemoveMode : BOOLEAN,
    softRemoveCompIndexes : Seq(D) ]

\* What is left of PoolType when NewComponentThrows may be called.
Loose(p) == \E D \in SUBSET Nat : p \in LoosePools(D)

LEMMA LooseFacts ==
  ASSUME NEW p, Loose(p)
  PROVE  /\ p.components \in [DOMAIN p.components -> Component]
         /\ DOMAIN p.components \subseteq Nat
         /\ p.lastCompIndex \in {-1} \cup Nat
         /\ Size(p) \in Nat
         /\ p.softRemoveMode \in BOOLEAN
         /\ p.softRemoveCompIndexes \in Seq(DOMAIN p.components)
<1>1. PICK D \in SUBSET Nat : p \in LoosePools(D)
  BY DEF Loose
<1>2. /\ p.components \in [D -> Component]
      /\ p.lastCompIndex \in {-1} \cup Nat
      /\ p.softRemoveMode \in BOOLEAN
      /\ p.softRemoveCompIndexes \in Seq(D)
  BY <1>1 DEF LoosePools
<1>3. DOMAIN p.components = D
  BY <1>2
<1>4. Size(p) \in Nat
  BY <1>2 DEF Size
<1> QED
  BY <1>2, <1>3, <1>4

LEMMA EmptyPoolLoose ==
  /\ Loose(EmptyPool)
  /\ ~EmptyPool.softRemoveMode
  /\ EmptyPool.softRemoveCompIndexes = << >>
<1>1. EmptyPool \in LoosePools({})
  <2>1. [i \in {} |-> INVALID_COMP_INDEX] \in
          UNION {[E -> {INVALID_COMP_INDEX} \cup {}] : E \in SUBSET Nat}
    OBVIOUS
  <2>2. [k \in {} |-> NullId] \in [{} -> Component]
    OBVIOUS
  <2>3. << >> \in Seq({})
    OBVIOUS
  <2> QED
    BY <2>1, <2>2, <2>3 DEF EmptyPool, LoosePools
<1> QED
  BY <1>1 DEF Loose, EmptyPool

LEMMA NewComponentLoose ==
  ASSUME NEW p, Loose(p), NEW e \in Ids, NEW v \in Values,
         NEW q, q = NewComponent(p, e, v)
  PROVE  /\ Loose(q)
         /\ q.lastCompIndex = p.lastCompIndex + 1
         /\ q.softRemoveMode = p.softRemoveMode
         /\ q.softRemoveCompIndexes = p.softRemoveCompIndexes
<1>1. PICK D \in SUBSET Nat : p \in LoosePools(D)
  BY DEF Loose
<1> DEFINE k == p.lastCompIndex + 1
           c == [first |-> e, second |-> v]
           cs == Put(p.components, k, c)
           m == Put(p.entIndexToCompIndex, e.index, k)
<1>2. q = [p EXCEPT !.lastCompIndex = k, !.components = cs, !.entIndexToCompIndex = m]
  BY DEF NewComponent
<1>3. k \in Nat
  BY <1>1 DEF LoosePools
<1>4. cs \in [D \cup {k} -> Component]
  <2>1. c \in Component
    BY DEF Component
  <2>2. p.components \in [D -> Component]
    BY <1>1 DEF LoosePools
  <2> HIDE DEF c, k
  <2> QED
    BY <2>1, <2>2 DEF Put
<1>5. m \in UNION {[E -> {INVALID_COMP_INDEX} \cup (D \cup {k})] : E \in SUBSET Nat}
  <2>1. PICK E \in SUBSET Nat :
          p.entIndexToCompIndex \in [E -> {INVALID_COMP_INDEX} \cup D]
    BY <1>1 DEF LoosePools
  <2>2. e.index \in Nat
    BY StorageAssumption
  <2> HIDE DEF k
  <2>3. m \in [E \cup {e.index} -> {INVALID_COMP_INDEX} \cup (D \cup {k})]
    BY <2>1 DEF Put
  <2> QED
    BY <2>2, <2>3
<1>6. p.softRemoveCompIndexes \in Seq(D \cup {k})
  BY <1>1, SeqMonotonic DEF LoosePools
<1> HIDE DEF k, c, cs, m
<1>7. /\ q.components = cs /\ q.lastCompIndex = k /\ q.entIndexToCompIndex = m
      /\ q.softRemoveMode = p.softRemoveMode
      /\ q.softRemoveCompIndexes = p.softRemoveCompIndexes
      /\ q \in LoosePools(D \cup {k})
  BY <1>1, <1>2, <1>3, <1>4, <1>5, <1>6 DEF LoosePools
<1> QED
  BY <1>3, <1>7 DEF Loose, k

LEMMA NewComponentThrowsLoose ==
  ASSUME NEW p, Loose(p), NEW q, q = NewComponentThrows(p)
  PROVE  /\ Loose(q)
         /\ q.lastCompIndex = p.lastCompIndex + 1
         /\ q.softRemoveMode = p.softRemoveMode
         /\ q.softRemoveCompIndexes = p.softRemoveCompIndexes
<1>1. PICK D \in SUBSET Nat : p \in LoosePools(D)
  BY DEF Loose
<1>2. q \in LoosePools(D) /\ q.lastCompIndex = p.lastCompIndex + 1
      /\ q.softRemoveMode = p.softRemoveMode
      /\ q.softRemoveCompIndexes = p.softRemoveCompIndexes
  BY <1>1 DEF NewComponentThrows, LoosePools
<1> QED
  BY <1>2 DEF Loose

LEMMA SwapOutLoose ==
  ASSUME NEW D \in SUBSET Nat, NEW p \in LoosePools(D), NEW k \in D,
         NEW q, q = SwapOut(p, k)
  PROVE  /\ q \in LoosePools(D)
         /\ q.softRemoveMode = p.softRemoveMode
         /\ q.softRemoveCompIndexes = p.softRemoveCompIndexes
<1> DEFINE last == p.lastCompIndex
           moved == p.components[last]
           i == moved.first.index
           cs == [p.components EXCEPT ![last] = p.components[k], ![k] = moved]
           m == Remapped(p, i, k)
<1>n. ASSUME NEW n \in Nat PROVE n - 1 \in {-1} \cup Nat
  OBVIOUS
<1>1. CASE SwapThrows(p, k)
  <2>1. k # last
    BY <1>1 DEF SwapThrows
  <2>2. q = p
    BY <1>1, <2>1 DEF SwapOut
  <2> QED
    BY <2>2
<1>2. CASE ~SwapThrows(p, k) /\ k = last
  <2>1. q = [p EXCEPT !.lastCompIndex = last - 1]
    BY <1>2 DEF SwapOut
  <2>2. last \in Nat /\ last - 1 \in {-1} \cup Nat
    BY <1>2, <1>n
  <2> HIDE DEF last
  <2> QED
    BY <2>1, <2>2 DEF LoosePools
<1>3. CASE ~SwapThrows(p, k) /\ k # last
  <2>1. q = [p EXCEPT !.components = cs, !.entIndexToCompIndex = m,
                      !.lastCompIndex = last - 1]
    BY <1>3 DEF SwapOut, LoosePools
  <2>2. p.components \in [D -> Component]
    BY DEF LoosePools
  <2>3. last \in D
    BY <1>3, <2>2 DEF SwapThrows
  <2>4. last \in Nat /\ last - 1 \in {-1} \cup Nat
    BY <2>3, <1>n
  <2>5. cs \in [D -> Component]
    BY <2>2, <2>3
  <2>6. m \in UNION {[E -> {INVALID_COMP_INDEX} \cup D] : E \in SUBSET Nat}
    <3>1. PICK E \in SUBSET Nat :
            p.entIndexToCompIndex \in [E -> {INVALID_COMP_INDEX} \cup D]
      BY DEF LoosePools
    <3> HIDE DEF i
    <3>2. m \in [E -> {INVALID_COMP_INDEX} \cup D]
      BY <3>1 DEF Remapped
    <3> QED
      BY <3>2
  <2> HIDE DEF last, cs, m
  <2> QED
    BY <2>1, <2>4, <2>5, <2>6 DEF LoosePools
<1> QED
  BY <1>1, <1>2, <1>3

(***************************************************************************)
(* A call of Remove changes the mode never, the counter only in hard, and  *)
(* the queue only in soft remove mode.                                     *)
(***************************************************************************)
LEMMA AfterRemoveLoose ==
  ASSUME NEW p, Loose(p), NEW e \in Ids, NEW q, q = AfterRemove(p, e)
  PROVE  /\ Loose(q)
         /\ q.softRemoveMode = p.softRemoveMode
         /\ p.softRemoveMode => q.lastCompIndex = p.lastCompIndex
         /\ ~p.softRemoveMode => q.softRemoveCompIndexes = p.softRemoveCompIndexes
<1>1. PICK D \in SUBSET Nat : p \in LoosePools(D)
  BY DEF Loose
<1>2. CASE ~HasComponent(p, e)
  BY <1>2 DEF AfterRemove
<1>3. CASE HasComponent(p, e)
  <2> DEFINE k == SlotOf(p, e)
             m == [p.entIndexToCompIndex EXCEPT ![e.index] = INVALID_COMP_INDEX]
             u == [p EXCEPT !.entIndexToCompIndex = m]
  <2>1. k \in D /\ m \in UNION {[E -> {INVALID_COMP_INDEX} \cup D] : E \in SUBSET Nat}
    <3>1. PICK E \in SUBSET Nat :
            p.entIndexToCompIndex \in [E -> {INVALID_COMP_INDEX} \cup D]
      BY <1>1 DEF LoosePools
    <3>2. m \in [E -> {INVALID_COMP_INDEX} \cup D]
      BY <3>1
    <3>3. k \in D
      BY <1>3, <3>1 DEF HasComponent, SlotOf
    <3> QED
      BY <3>2, <3>3
  <2>2. q = IF p.softRemoveMode THEN SoftRemove(u, k) ELSE SwapOut(u, k)
    BY <1>1, <1>3 DEF AfterRemove, Remove, LoosePools
  <2> HIDE DEF m, k
  <2>3. u \in LoosePools(D) /\ u.softRemoveMode = p.softRemoveMode
        /\ u.lastCompIndex = p.lastCompIndex
        /\ u.softRemoveCompIndexes = p.softRemoveCompIndexes
    BY <1>1, <2>1 DEF LoosePools
  <2> HIDE DEF u
  <2>4. CASE p.softRemoveMode
    <3> DEFINE cs == [u.components EXCEPT ![k].first = NullId]
               sq == Append(u.softRemoveCompIndexes, k)
    <3>1. q = [u EXCEPT !.components = cs, !.softRemoveCompIndexes = sq]
      BY <2>2, <2>3, <2>4 DEF SoftRemove, LoosePools
    <3>2. cs \in [D -> Component]
      <4>1. u.components \in [D -> Component] /\ u.components[k] \in Component
        BY <2>1, <2>3 DEF LoosePools
      <4>2. [u.components[k] EXCEPT !.first = NullId] \in Component
        BY <4>1 DEF Component
      <4> QED
        BY <4>1, <4>2
    <3>3. sq \in Seq(D)
      BY <2>1, <2>3, AppendProperties DEF LoosePools
    <3> HIDE DEF cs, sq
    <3>4. q \in LoosePools(D) /\ q.softRemoveMode = u.softRemoveMode
          /\ q.lastCompIndex = u.lastCompIndex
      BY <2>3, <3>1, <3>2, <3>3 DEF LoosePools
    <3> QED
      BY <2>3, <2>4, <3>4 DEF Loose
  <2>5. CASE ~p.softRemoveMode
    <3>1. q = SwapOut(u, k)
      BY <2>2, <2>5
    <3>2. /\ q \in LoosePools(D)
          /\ q.softRemoveMode = u.softRemoveMode
          /\ q.softRemoveCompIndexes = u.softRemoveCompIndexes
      BY <2>1, <2>3, <3>1, SwapOutLoose
    <3> QED
      BY <2>3, <2>5, <3>2 DEF Loose
  <2> QED
    BY <2>4, <2>5
<1> QED
  BY <1>2, <1>3

\* A round takes the head off the queue, whether or not it throws.
LEMMA DrainOneLoose ==
  ASSUME NEW p, Loose(p), p.softRemoveCompIndexes # << >>, NEW q, q = DrainOne(p)
  PROVE  /\ Loose(q)
         /\ q.softRemoveMode = p.softRemoveMode
         /\ q.softRemoveCompIndexes = Tail(p.softRemoveCompIndexes)
<1>1. PICK D \in SUBSET Nat : p \in LoosePools(D)
  BY DEF Loose
<1> DEFINE k == Head(p.softRemoveCompIndexes)
           sq == Tail(p.softRemoveCompIndexes)
           u == [p EXCEPT !.softRemoveCompIndexes = sq]
<1>2. k \in D /\ sq \in Seq(D)
  BY <1>1, HeadTailProperties DEF LoosePools
<1>3. q = SwapOut(u, k)
  BY DEF DrainOne
<1> HIDE DEF k, sq
<1>4. u \in LoosePools(D) /\ u.softRemoveMode = p.softRemoveMode
      /\ u.softRemoveCompIndexes = sq
  BY <1>1, <1>2 DEF LoosePools
<1> HIDE DEF u
<1>5. /\ q \in LoosePools(D)
      /\ q.softRemoveMode = u.softRemoveMode
      /\ q.softRemoveCompIndexes = u.softRemoveCompIndexes
  BY <1>2, <1>3, <1>4, SwapOutLoose
<1> QED
  BY <1>4, <1>5 DEF Loose, sq

LEMMA ToggleLoose ==
  ASSUME NEW p, Loose(p), NEW b \in BOOLEAN,
         NEW q, q = [p EXCEPT !.softRemoveMode = b]
  PROVE  /\ Loose(q)
         /\ q.softRemoveMode = b
         /\ q.lastCompIndex = p.lastCompIndex
         /\ q.softRemoveCompIndexes = p.softRemoveCompIndexes
<1>1. PICK D \in SUBSET Nat : p \in LoosePools(D)
  BY DEF Loose
<1>2. q \in LoosePools(D) /\ q.softRemoveMode = b
      /\ q.lastCompIndex = p.lastCompIndex
      /\ q.softRemoveCompIndexes = p.softRemoveCompIndexes
  BY <1>1 DEF LoosePools
<1> QED
  BY <1>2 DEF Loose

-----------------------------------------------------------------------------
(* Who has slots. *)

\* Whoever has a slot of q had one of p.
OwnersWithin(p, q) ==
  \A k \in Slots(q) : \/ EntityAt(q, k) = NullId
                      \/ \E j \in Slots(p) : EntityAt(q, k) = EntityAt(p, j)

LEMMA SwapOutWithin ==
  ASSUME NEW p, PoolType(p), NEW k \in DOMAIN p.components,
         NEW q, q = SwapOut(p, k)
  PROVE  OwnersWithin(p, q)
<1> DEFINE last == p.lastCompIndex
<1>1. /\ PoolType(q)
      /\ last = -1 => q = p
      /\ last # -1 =>
           /\ q.lastCompIndex = last - 1
           /\ \A j \in DOMAIN p.components :
                q.components[j] = IF j = k THEN p.components[last]
                                  ELSE IF j = last THEN p.components[k]
                                  ELSE p.components[j]
  BY SwapOutFields
<1>2. /\ last \in Int /\ last >= -1 /\ Slots(p) \subseteq DOMAIN p.components
      /\ last # -1 => last \in Slots(p)
  BY TypeFacts DEF Slots
<1>3. CASE last = -1
  BY <1>1, <1>3 DEF OwnersWithin
<1>4. CASE last # -1
  <2>1. \A j \in Slots(q) : j \in Slots(p) /\ j # last
    BY <1>1, <1>2, <1>4 DEF Slots
  <2>2. ASSUME NEW j \in Slots(q)
        PROVE  EntityAt(q, j) = EntityAt(p, last) \/ EntityAt(q, j) = EntityAt(p, j)
    BY <1>1, <1>2, <1>4, <2>1 DEF EntityAt
  <2> QED
    BY <1>2, <1>4, <2>1, <2>2 DEF OwnersWithin
<1> QED
  BY <1>3, <1>4

LEMMA RemoveWithin ==
  ASSUME NEW p, PoolType(p), NEW e \in Ids, HasComponent(p, e),
         NEW q, q = Remove(p, e)
  PROVE  OwnersWithin(p, q)
<1>1. CASE p.softRemoveMode
  <2>1. PICK k : k = SlotOf(p, e)
    OBVIOUS
  <2>2. /\ q.lastCompIndex = p.lastCompIndex
        /\ EntityAt(q, k) = NullId
        /\ \A j \in DOMAIN p.components \ {k} : q.components[j] = p.components[j]
    BY <1>1, <2>1, RemoveSoftly
  <2>3. Slots(q) = Slots(p) /\ Slots(p) \subseteq DOMAIN p.components
    BY <2>2, TypeFacts DEF Slots
  <2>4. ASSUME NEW j \in Slots(q)
        PROVE  EntityAt(q, j) = NullId \/ EntityAt(q, j) = EntityAt(p, j)
    BY <2>2, <2>3 DEF EntityAt
  <2> QED
    BY <2>3, <2>4 DEF OwnersWithin
<1>2. CASE ~p.softRemoveMode
  <2>1. PICK u : u = [p EXCEPT !.entIndexToCompIndex[e.index] = INVALID_COMP_INDEX]
    OBVIOUS
  <2>2. SlotOf(p, e) \in DOMAIN u.components /\ PoolType(u)
        /\ q = SwapOut(u, SlotOf(p, e))
    BY <1>2, <2>1, RemoveHardly
  <2>3. u.components = p.components /\ u.lastCompIndex = p.lastCompIndex
    BY <2>1, UnmapFields
  <2>4. OwnersWithin(u, q)
    BY <2>2, SwapOutWithin
  <2> QED
    BY <2>3, <2>4 DEF OwnersWithin, Slots, EntityAt
<1> QED
  BY <1>1, <1>2

LEMMA DrainOneWithin ==
  ASSUME NEW p, PoolType(p), p.softRemoveCompIndexes # << >>,
         NEW q, q = DrainOne(p)
  PROVE  OwnersWithin(p, q)
<1> DEFINE k == Head(p.softRemoveCompIndexes)
           u == [p EXCEPT !.softRemoveCompIndexes = Tail(@)]
<1>1. /\ PoolType(u) /\ k \in DOMAIN p.components /\ q = SwapOut(u, k)
      /\ u.components = p.components
      /\ u.lastCompIndex = p.lastCompIndex
  BY DrainOneFields
<1> HIDE DEF u, k
<1>2. OwnersWithin(u, q)
  BY <1>1, SwapOutWithin
<1> QED
  BY <1>1, <1>2 DEF OwnersWithin, Slots, EntityAt

LEMMA WithinAgain ==
  ASSUME NEW p, NEW q, NEW r, OwnersWithin(p, q), OwnersWithin(q, r)
  PROVE  OwnersWithin(p, r)
  BY DEF OwnersWithin
=============================================================================
