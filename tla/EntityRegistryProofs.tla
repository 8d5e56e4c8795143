------------------------ MODULE EntityRegistryProofs ------------------------
(***************************************************************************)
(* The proof that the entity manager implements the registry of ids, and   *)
(* that DestroyAll destroys every entity it found.                         *)
(***************************************************************************)
EXTENDS EntityManagerProofs

-----------------------------------------------------------------------------
(* The registry's sets, by the parts of the ids in them. *)

LEMMA LastGens ==
  ASSUME TypeOK, NEW i \in Vectors
  PROVE  /\ i \in Indexes
         /\ entIndexToGen[i] \in Nat
         /\ LastGen(i) \in Int
         /\ Alive(i) => LastGen(i) = entIndexToGen[i]
         /\ ~Alive(i) => LastGen(i) = entIndexToGen[i] - 1
<1>1. i \in Indexes /\ entIndexToGen[i] \in Nat
  BY VectorFacts DEF Generations
<1>2. CASE Alive(i)
  BY <1>1, <1>2 DEF LastGen
<1>3. CASE ~Alive(i)
  BY <1>1, <1>3 DEF LastGen
<1>. QED  BY <1>1, <1>2, <1>3

\* The ids of both sets, told by their parts.
UsedByParts ==
  \A e : e \in UsedIds <=> /\ e \in RawIds
                           /\ IdIndex(e) \in Vectors \ {0}
                           /\ IdGeneration(e) <= LastGen(IdIndex(e))

AliveByParts ==
  \A e : e \in AliveIds <=> /\ e \in RawIds
                            /\ IdIndex(e) \in Vectors
                            /\ Alive(IdIndex(e))
                            /\ Valid(e)

LEMMA UsedParts == TypeOK /\ GensFit => UsedByParts
<1>. SUFFICES ASSUME TypeOK, GensFit, NEW e
               PROVE  e \in UsedIds <=> /\ e \in RawIds
                                        /\ IdIndex(e) \in Vectors \ {0}
                                        /\ IdGeneration(e) <= LastGen(IdIndex(e))
  BY DEF UsedByParts
<1>1. ASSUME e \in UsedIds
      PROVE  /\ e \in RawIds
             /\ IdIndex(e) \in Vectors \ {0}
             /\ IdGeneration(e) <= LastGen(IdIndex(e))
  <2>0. PICK i \in Vectors \ {0} : e \in {Pack(i, g) : g \in 0 .. LastGen(i)}
    BY <1>1 DEF UsedIds
  <2>1. PICK g \in 0 .. LastGen(i) : e = Pack(i, g)
    BY <2>0
  <2>2. i \in Indexes /\ g \in Nat /\ LastGen(i) \in Int
    BY <2>1, LastGens
  <2>3. /\ IdIndex(e) = i /\ IdGeneration(e) <= g /\ e \in RawIds
    BY <2>1, <2>2, PackedParts, PackInRange, SpanAssumption DEF Indexes
  <2>4. IdGeneration(e) \in Nat
    BY <2>3, IdParts DEF Generations
  <2>. QED  BY <2>1, <2>2, <2>3, <2>4
<1>2. ASSUME e \in RawIds,
             IdIndex(e) \in Vectors \ {0},
             IdGeneration(e) <= LastGen(IdIndex(e))
      PROVE  e \in UsedIds
  <2>1. /\ e = Pack(IdIndex(e), IdGeneration(e))
        /\ IdGeneration(e) \in 0 .. LastGen(IdIndex(e))
    BY <1>2, IdParts, LastGens DEF Generations
  <2>. QED  BY <1>2, <2>1 DEF UsedIds
<1>. QED  BY <1>1, <1>2

LEMMA AliveParts == TypeOK /\ GensFit => AliveByParts
<1>. SUFFICES ASSUME TypeOK, GensFit, NEW e
               PROVE  e \in AliveIds <=> /\ e \in RawIds
                                         /\ IdIndex(e) \in Vectors
                                         /\ Alive(IdIndex(e))
                                         /\ Valid(e)
  BY DEF AliveByParts
<1>1. ASSUME e \in AliveIds
      PROVE  /\ e \in RawIds
             /\ IdIndex(e) \in Vectors
             /\ Alive(IdIndex(e))
             /\ Valid(e)
  <2>1. PICK i \in Vectors : Alive(i) /\ e = Pack(i, entIndexToGen[i])
    BY <1>1 DEF AliveIds
  <2>2. i \in Indexes /\ i \in Nat /\ entIndexToGen[i] \in 0 .. IdGenSpan - 1
    BY <2>1, LastGens, SpanAssumption DEF GensFit, Indexes
  <2>3. /\ IdIndex(e) = i /\ e \in RawIds
        /\ IdGeneration(e) = entIndexToGen[i]
    BY <2>1, <2>2, PackedParts, PackInRange, PackRoundTrips
  <2>. QED  BY <2>1, <2>3 DEF Valid
<1>2. ASSUME e \in RawIds,
             IdIndex(e) \in Vectors,
             Alive(IdIndex(e)),
             Valid(e)
      PROVE  e \in AliveIds
  <2>1. e = Pack(IdIndex(e), IdGeneration(e))
    BY <1>2, IdParts
  <2>. QED  BY <1>2, <2>1 DEF AliveIds, Valid
<1>. QED  BY <1>1, <1>2

-----------------------------------------------------------------------------
(* The steps of the registry. *)

\* A step from a state of the registry to a state of the registry.
Accounted == TypeOK /\ Bookkeeping /\ ~Misused /\ ~Exhausted

LEMMA AccountedFacts ==
  Accounted => /\ TypeOK
               /\ QueueIsDead /\ NullApart /\ FramesAlive
               /\ LivingExact /\ GensFit /\ FramesValid
               /\ UsedByParts /\ AliveByParts
  BY UsedParts, AliveParts DEF Accounted, Bookkeeping, Sound, Exhausted

LEMMA AccountedAfter ==
  Accounted' => TypeOK' /\ GensFit' /\ UsedByParts' /\ AliveByParts'
  BY AccountedFacts, PTL

\* An index comes alive with the generation it has.
LEMMA Revival ==
  ASSUME Accounted, Accounted', NEW i, i # 0, Vectors' = Vectors \cup {i},
         NEW e \in RawIds, IdIndex(e) = i, IdGeneration(e) = entIndexToGen'[i],
         \A k \in Vectors \ {i} : /\ entIndexToGen'[k] = entIndexToGen[k]
                                  /\ indexIsAlive'[k] <=> indexIsAlive[k],
         indexIsAlive'[i],
         i \in Vectors => /\ ~indexIsAlive[i]
                          /\ entIndexToGen'[i] = entIndexToGen[i],
         i \notin Vectors => entIndexToGen'[i] = 0
  PROVE  Registry!Create(e)
<1>1. /\ TypeOK /\ UsedByParts /\ AliveByParts
      /\ UsedByParts' /\ AliveByParts'
  BY AccountedFacts, AccountedAfter
<1>2. \A k \in Vectors \ {i} : LastGen(k)' = LastGen(k)
  BY Zenon DEF LastGen, Alive
<1>3. entIndexToGen'[i] \in Nat
  BY IdParts DEF Generations
<1>4. LastGen(i)' = entIndexToGen'[i]
  BY Zenon DEF LastGen, Alive
<1>5. i \in Vectors => LastGen(i) = LastGen(i)' - 1
  BY <1>1, <1>4, LastGens DEF Alive
<1>6. \A f \in RawIds : /\ IdGeneration(f) \in Nat
                        /\ f = Pack(IdIndex(f), IdGeneration(f))
  BY IdParts DEF Generations
<1>7. \A f \in RawIds :
        f = e <=> IdIndex(f) = i /\ IdGeneration(f) = entIndexToGen'[i]
  BY <1>6
<1>8. e \notin UsedIds
  BY <1>1, <1>3, <1>4, <1>5 DEF UsedByParts
<1>9. UsedIds' = UsedIds \cup {e}
  <2>1. ASSUME NEW f PROVE f \in UsedIds' <=> f \in UsedIds \/ f = e
    <3>1. f \in UsedIds' <=> /\ f \in RawIds
                             /\ IdIndex(f) \in (Vectors \cup {i}) \ {0}
                             /\ IdGeneration(f) <= LastGen(IdIndex(f))'
      BY <1>1 DEF UsedByParts
    <3>2. f \in UsedIds <=> /\ f \in RawIds
                            /\ IdIndex(f) \in Vectors \ {0}
                            /\ IdGeneration(f) <= LastGen(IdIndex(f))
      BY <1>1 DEF UsedByParts
    <3>3. CASE f \in RawIds /\ IdIndex(f) = i
      <4>1. f \in UsedIds' <=> IdGeneration(f) <= entIndexToGen'[i]
        BY <1>4, <3>1, <3>3
      <4>2. f = e <=> IdGeneration(f) = entIndexToGen'[i]
        BY <1>7, <3>3
      <4>3. IdGeneration(f) \in Nat
        BY <1>6, <3>3
      <4>4. CASE i \in Vectors
        <5>1. f \in UsedIds <=> IdGeneration(f) <= entIndexToGen'[i] - 1
          BY <1>4, <1>5, <3>2, <3>3, <4>4
        <5>. QED  BY <1>3, <4>1, <4>2, <4>3, <5>1
      <4>5. CASE i \notin Vectors
        <5>1. f \notin UsedIds
          BY <3>2, <3>3, <4>5
        <5>. QED  BY <4>1, <4>2, <4>3, <4>5, <5>1
      <4>. QED  BY <4>4, <4>5
    <3>4. CASE ~(f \in RawIds /\ IdIndex(f) = i)
      BY <1>2, <3>1, <3>2, <3>4
    <3>. QED  BY <3>3, <3>4
  <2>. QED  BY <2>1
<1>10. AliveIds' = AliveIds \cup {e}
  <2>1. ASSUME NEW f PROVE f \in AliveIds' <=> f \in AliveIds \/ f = e
    <3>1. f \in AliveIds' <=> /\ f \in RawIds
                              /\ IdIndex(f) \in Vectors \cup {i}
                              /\ indexIsAlive'[IdIndex(f)]
                              /\ IdGeneration(f) = entIndexToGen'[IdIndex(f)]
      BY <1>1 DEF AliveByParts, Alive, Valid
    <3>2. f \in AliveIds <=> /\ f \in RawIds
                             /\ IdIndex(f) \in Vectors
                             /\ indexIsAlive[IdIndex(f)]
                             /\ IdGeneration(f) = entIndexToGen[IdIndex(f)]
      BY <1>1 DEF AliveByParts, Alive, Valid
    <3>. QED  BY <1>7, <3>1, <3>2, Zenon
  <2>. QED  BY <2>1
<1>. QED  BY <1>8, <1>9, <1>10 DEF Registry!Create

LEMMA NewEntityCreates ==
  ASSUME Accounted, Accounted', RecycleEntity \/ AppendEntity
  PROVE  NextId \in RawIds /\ Registry!Create(NextId)
<1>1. TypeOK /\ QueueIsDead /\ GensFit
  BY AccountedFacts
<1>2. CASE RecycleEntity
  <2> DEFINE i == NextIndex
  <2>1. /\ i \in Vectors /\ NextId \in RawIds /\ IdIndex(NextId) = i
        /\ i \in Indexes /\ NextId = Pack(i, entIndexToGen[i])
    BY <1>1, <1>2, RecycledFacts, NextFacts DEF RecycleEntity, NextId
  <2>2. IdGeneration(NextId) = entIndexToGen[i]
    <3>1. entIndexToGen[i] \in 0 .. IdGenSpan - 1
      BY <1>1, <2>1, LastGens, SpanAssumption DEF GensFit
    <3>. QED  BY <2>1, <3>1, PackRoundTrips
  <2>3. i # 0 /\ ~indexIsAlive[i]
    <3>1. 1 \in DOMAIN freeEntityIndexes /\ i = freeEntityIndexes[1]
      BY <1>1, <1>2, NextFacts, Popped DEF TypeOK, NextIndex, RecycleEntity
    <3>. QED  BY <1>1, <3>1 DEF QueueIsDead, Alive
  <2>4. /\ entIndexToGen' = entIndexToGen
        /\ indexIsAlive' = [indexIsAlive EXCEPT ![i] = TRUE]
    BY <1>2 DEF RecycleEntity
  <2>5. Vectors' = Vectors \cup {i}
    BY <2>1, <2>4 DEF Vectors
  <2>6. /\ indexIsAlive'[i]
        /\ \A k \in Vectors \ {i} : indexIsAlive'[k] <=> indexIsAlive[k]
    <3>1. i \in DOMAIN indexIsAlive /\ DOMAIN indexIsAlive = Vectors
      BY <1>1, <2>1, VectorFacts
    <3>. HIDE DEF i
    <3>. QED  BY <2>4, <3>1, Zenon
  <2>. HIDE DEF i
  <2>. QED  BY <2>1, <2>2, <2>3, <2>4, <2>5, <2>6, Revival
<1>3. CASE AppendEntity
  <2> DEFINE n == VectorSize
  <2>1. /\ NextId \in RawIds /\ IdIndex(NextId) = n /\ NextId = Pack(n, 0)
        /\ n \in Indexes
        /\ Vectors' = Vectors \cup {n} /\ n \notin Vectors
        /\ entIndexToGen'[n] = 0 /\ indexIsAlive'[n]
        /\ \A k \in Vectors : /\ entIndexToGen'[k] = entIndexToGen[k]
                              /\ indexIsAlive'[k] = indexIsAlive[k]
    BY <1>1, <1>3, AppendFacts
  <2>2. n # 0
    BY <1>1, VectorFacts
  <2>3. IdGeneration(NextId) = 0
    <3>1. 0 \in 0 .. IdGenSpan - 1
      BY SpanAssumption
    <3>. QED  BY <2>1, <3>1, PackRoundTrips
  <2>. HIDE DEF n
  <2>. QED  BY <2>1, <2>2, <2>3, Revival
<1>. QED  BY <1>2, <1>3

LEMMA FinishKills ==
  ASSUME Accounted, Accounted', FinishDestroy
  PROVE  /\ Head(calls).id \in RawIds
         /\ Registry!Kill(Head(calls).id)
<1> DEFINE e == Head(calls).id
           i == IdIndex(e)
           gen == entIndexToGen[i]
<1>1. /\ TypeOK /\ FramesAlive /\ FramesValid /\ NullApart
      /\ UsedByParts /\ AliveByParts
      /\ UsedByParts' /\ AliveByParts'
  BY AccountedFacts, AccountedAfter
<1>2. calls # << >> /\ Head(calls).op = "Destroy"
  BY <1>1, FramesPopped DEF FinishDestroy, ClientRuns, InLoop, DestroyFrame, DestroyAllFrame
<1>3. /\ e \in RawIds /\ i \in Vectors /\ gen \in Generations
      /\ Alive(i) /\ Valid(e)
  <2>1. 1 \in DOMAIN calls /\ Head(calls) = calls[1]
    BY <1>1, <1>2, Popped DEF TypeOK
  <2>. QED  BY <1>1, <1>2, <2>1, FramesPopped, VectorFacts DEF FramesAlive, FramesValid
<1>4. /\ entIndexToGen' = [entIndexToGen EXCEPT ![i] = GenAfter(i)]
      /\ indexIsAlive' = [indexIsAlive EXCEPT ![i] = FALSE]
      /\ taint' = taint \cup Exhaustion(gen)
  BY DEF FinishDestroy, Taint
<1>5. /\ DOMAIN entIndexToGen = Vectors
      /\ DOMAIN indexIsAlive = Vectors
  BY <1>1, VectorFacts
<1>6. GenAfter(i) = gen + 1
  <2>1. gen + 1 # GenSpan
    BY <1>4 DEF Accounted, Exhausted, Exhaustion
  <2>. HIDE DEF e, i
  <2>2. gen \in Nat /\ gen < GenSpan
    BY <1>3, SpanAssumption DEF Generations
  <2>3. gen + 1 \in 0 .. GenSpan - 1
    BY <2>1, <2>2, SpanAssumption
  <2>. QED  BY <2>3, SmallRemainder, SpanAssumption DEF GenAfter
<1>. HIDE DEF e, i, gen
<1>7. /\ Vectors' = Vectors
      /\ \A k \in Vectors \ {i} : /\ entIndexToGen'[k] = entIndexToGen[k]
                                  /\ indexIsAlive'[k] <=> indexIsAlive[k]
      /\ entIndexToGen'[i] = gen + 1
      /\ ~indexIsAlive'[i]
  <2>1. Vectors' = Vectors
    BY <1>4 DEF Vectors
  <2>. QED  BY <1>3, <1>4, <1>5, <1>6, <2>1, Zenon
<1>8. ASSUME NEW k \in Vectors PROVE LastGen(k)' = LastGen(k)
  <2>1. CASE k = i
    <3>1. LastGen(k) = gen
      BY <1>1, <1>3, <2>1, LastGens DEF gen
    <3>2. LastGen(k)' = entIndexToGen'[k] - 1
      BY <1>7, <2>1, Zenon DEF LastGen, Alive
    <3>3. entIndexToGen'[k] = gen + 1 /\ (gen + 1) - 1 = gen
      BY <1>3, <1>7, <2>1 DEF Generations
    <3>. QED  BY <3>1, <3>2, <3>3
  <2>2. CASE k # i
    BY <1>7, <2>2, Zenon DEF LastGen, Alive
  <2>. QED  BY <2>1, <2>2
<1>9. UsedIds' = UsedIds
  <2>1. \A f : f \in UsedIds' <=> /\ f \in RawIds
                                  /\ IdIndex(f) \in Vectors \ {0}
                                  /\ IdGeneration(f) <= LastGen(IdIndex(f))'
    BY <1>1, <1>7 DEF UsedByParts
  <2>2. \A f : f \in UsedIds' <=> f \in UsedIds
    BY <1>1, <1>8, <2>1 DEF UsedByParts
  <2>. QED  BY <2>2
<1>10. \A f \in RawIds : IdIndex(f) = i /\ Valid(f) <=> f = e
  BY <1>3, IdParts DEF Valid, i
<1>11. AliveIds' = AliveIds \ {e}
  <2>1. ASSUME NEW f PROVE f \in AliveIds' <=> f \in AliveIds /\ f # e
    <3>1. f \in AliveIds' <=> /\ f \in RawIds
                              /\ IdIndex(f) \in Vectors
                              /\ indexIsAlive'[IdIndex(f)]
                              /\ IdGeneration(f) = entIndexToGen'[IdIndex(f)]
      BY <1>1, <1>7 DEF AliveByParts, Alive, Valid
    <3>2. f \in AliveIds <=> /\ f \in RawIds
                             /\ IdIndex(f) \in Vectors
                             /\ indexIsAlive[IdIndex(f)]
                             /\ IdGeneration(f) = entIndexToGen[IdIndex(f)]
      BY <1>1 DEF AliveByParts, Alive, Valid
    <3>3. CASE IdIndex(f) = i
      <4>1. f \notin AliveIds'
        BY <1>7, <3>1, <3>3, Zenon
      <4>2. f \in AliveIds => f = e
        BY <1>10, <3>2, <3>3 DEF Valid
      <4>. QED  BY <4>1, <4>2
    <3>4. CASE IdIndex(f) # i
      BY <1>7, <3>1, <3>2, <3>4, Zenon DEF i
    <3>. QED  BY <3>3, <3>4
  <2>. QED  BY <2>1
<1>12. e \in AliveIds
  BY <1>1, <1>3 DEF AliveByParts, i
<1>. QED  BY <1>3, <1>9, <1>11, <1>12 DEF Registry!Kill, e

\* Every other step leaves generations and life as they are.
LEMMA RegistryNext ==
  Accounted /\ Accounted' /\ [Next]_vars => [Registry!Next]_Registry!vars
<1>1. SUFFICES ASSUME Accounted, Accounted', [Next]_vars
               PROVE  Registry!Next \/ UNCHANGED <<UsedIds, AliveIds>>
  BY DEF Registry!vars
<1>2. CASE RecycleEntity \/ AppendEntity
  BY <1>1, <1>2, NewEntityCreates DEF Registry!Next
<1>3. CASE FinishDestroy
  BY <1>1, <1>3, FinishKills DEF Registry!Next
<1>4. ASSUME entIndexToGen' = entIndexToGen, indexIsAlive' = indexIsAlive
      PROVE  UNCHANGED <<UsedIds, AliveIds>>
  BY <1>4 DEF UsedIds, AliveIds, LastGen, Vectors, Alive
<1>5. CASE \/ NewEntityTraps
           \/ \E e \in Known, c \in CompTypes : Assign(e, c) \/ RemoveComponent(e, c)
           \/ \E e \in Known : RemoveAllComponents(e) \/ Subscribe(e)
           \/ \E e \in Known : Destroy(e) \/ DestroyTraps(e)
           \/ Unwinds \/ DestroyAll
           \/ SkipIndex \/ DestroyIndex \/ DestroyIndexThrows \/ DestroyAllReturns
           \/ UNCHANGED vars
  BY <1>4, <1>5 DEF NewEntityTraps, Trap, Assign, RemoveComponent,
     RemoveAllComponents, Subscribe, Destroy, DestroyTraps, Unwinds,
     DestroyAll, SkipIndex, DestroyIndex, DestroyIndexThrows, DestroyAllReturns,
     Emits, vars, state
<1>. QED  BY <1>1, <1>2, <1>3, <1>5 DEF Next, CallbackThrows, RemovalThrows

\* The taint grows.
LEMMA TaintStays == [Next]_vars => taint \subseteq taint'
  BY DEF Next, vars, RecycleEntity, AppendEntity, Returns, NewEntityTraps, Assign,
     RemoveComponent, RemoveAllComponents, Subscribe, Destroy, DestroyTraps,
     FinishDestroy, CallbackThrows, RemovalThrows, Unwinds, DestroyAll, SkipIndex, DestroyIndex,
     DestroyIndexThrows, DestroyAllReturns, Emits, Taint

(***************************************************************************)
(* The entity manager implements the registry: with its indexes, its queue *)
(* and generations, NewEntity gives every entity an id of its own, and     *)
(* Destroy takes one entity away and no other, until it is misused or the  *)
(* generations are exhausted.                                              *)
(***************************************************************************)
THEOREM ManagerImplementsRegistry == Spec => ImplementsRegistry
<1>1. Init => Registry!Init
  <2>. SUFFICES ASSUME Init PROVE UsedIds = {} /\ AliveIds = {}
    BY DEF Registry!Init
  <2>1. Vectors = {0} /\ indexIsAlive[0] = FALSE
    BY DEF Init, Vectors
  <2>. QED  BY <2>1 DEF UsedIds, AliveIds, Alive
<1>2. TypeOK /\ TypeOK' /\ Bookkeeping /\ Bookkeeping' /\ [Next]_vars =>
        [~Misused' /\ ~Exhausted' => [Registry!Next]_Registry!vars]_vars
  BY TaintStays, TaintGrows, RegistryNext DEF Accounted
<1>. QED
  BY <1>1, <1>2, TypeCorrect, BookkeepingKept, PTL DEF Spec, ImplementsRegistry

-----------------------------------------------------------------------------
(* What DestroyAll still has to destroy: the invariant. *)

\* The frame above the n-th of the stack s is a Destroy(e).
Underway(s, n, e) == n > 1 /\ s[n - 1].op = "Destroy" /\ s[n - 1].id = e

(***************************************************************************)
(* If the n-th frame of the stack s is a DestroyAll, every entity of       *)
(* before that is still alive is ahead of its loop, or being destroyed by  *)
(* it.  Ids are the ids issued, whose entities NewEntity cannot revive.    *)
(***************************************************************************)
LoopAhead(s, n, ids, alive) ==
  s[n].op = "DestroyAll" =>
    /\ s[n].before \subseteq ids
    /\ \A e \in s[n].before \cap alive :
         IdIndex(e) >= s[n].next \/ Underway(s, n, e)

LoopsAhead ==
  ~Misused /\ ~Exhausted =>
    \A n \in DOMAIN calls : LoopAhead(calls, n, issued, living)

-----------------------------------------------------------------------------
(* Its proof. *)

\* A loop that keeps its frame, and does not lose the Destroy it has called
\* before the entity dies, stays ahead.
LEMMA LoopKept ==
  ASSUME NEW s, NEW m, NEW ids, NEW alive, LoopAhead(s, m, ids, alive),
         NEW t, NEW n, t[n] = s[m],
         NEW ids2, ids \subseteq ids2,
         NEW alive2, alive2 \cap ids \subseteq alive,
         \A e \in alive2 : Underway(s, m, e) => Underway(t, n, e)
  PROVE  LoopAhead(t, n, ids2, alive2)
  BY DEF LoopAhead

\* No id that was issued comes alive again.
LEMMA NoRevival ==
  ASSUME Accounted, Accounted', [Next]_vars
  PROVE  /\ issued \subseteq issued'
         /\ living' \cap issued \subseteq living
<1>1. CASE RecycleEntity \/ AppendEntity
  <2>1. NextId \notin issued
    BY NewIdFresh DEF Accounted, NextIdIsNew
  <2>2. issued' = issued \cup {NextId} /\ living' = living \cup {NextId}
    BY <1>1 DEF RecycleEntity, AppendEntity, Returns
  <2>. QED  BY <2>1, <2>2
<1>2. CASE FinishDestroy
  BY <1>2 DEF FinishDestroy
<1>3. CASE \/ NewEntityTraps
           \/ \E e \in Known, c \in CompTypes : Assign(e, c) \/ RemoveComponent(e, c)
           \/ \E e \in Known : RemoveAllComponents(e) \/ Subscribe(e)
           \/ \E e \in Known : Destroy(e) \/ DestroyTraps(e)
           \/ Unwinds \/ DestroyAll
           \/ SkipIndex \/ DestroyIndex \/ DestroyIndexThrows \/ DestroyAllReturns
           \/ UNCHANGED vars
  BY <1>3 DEF NewEntityTraps, Trap, Assign, RemoveComponent,
     RemoveAllComponents, Subscribe, Destroy, DestroyTraps, Unwinds,
     DestroyAll, SkipIndex, DestroyIndex, DestroyIndexThrows, DestroyAllReturns,
     Emits, vars
<1>. QED  BY <1>1, <1>2, <1>3 DEF Next, CallbackThrows, RemovalThrows

\* A call is pushed: the frames below keep what they had above them.
LEMMA LoopsPushed ==
  ASSUME NEW S, NEW s \in Seq(S), NEW ids, NEW alive,
         NEW f \in S, NEW t, t = <<f>> \o s,
         NEW n \in DOMAIN t, n # 1, LoopAhead(s, n - 1, ids, alive)
  PROVE  LoopAhead(t, n, ids, alive)
<1>1. /\ n \in Int /\ n - 1 \in DOMAIN s /\ t[n] = s[n - 1]
      /\ \A k \in DOMAIN s : k + 1 \in DOMAIN t /\ t[k + 1] = s[k]
  OBVIOUS
<1>2. ASSUME NEW e \in alive, Underway(s, n - 1, e) PROVE Underway(t, n, e)
  <2>1. n - 1 > 1 /\ (n - 1) - 1 \in DOMAIN s
    BY <1>1, <1>2 DEF Underway
  <2>2. t[((n - 1) - 1) + 1] = s[(n - 1) - 1]
    BY <1>1, <2>1
  <2>3. ((n - 1) - 1) + 1 = n - 1
    BY <1>1
  <2>. QED  BY <1>1, <1>2, <2>1, <2>2, <2>3 DEF Underway
<1>. QED  BY <1>1, <1>2, LoopKept, Zenon

\* The innermost d calls are popped: the call below them has lost what it
\* called, which must be dead, or is no DestroyAll.
LEMMA LoopsPopped ==
  ASSUME NEW s, NEW ids, NEW alive,
         \A n \in DOMAIN s : LoopAhead(s, n, ids, alive),
         NEW d \in Nat \ {0}, NEW S, NEW t \in Seq(S),
         \A n \in DOMAIN t : n + d \in DOMAIN s /\ t[n] = s[n + d],
         NEW left \in SUBSET alive,
         ~ /\ s[d].op = "Destroy" /\ s[d].id \in left
           /\ 1 \in DOMAIN t /\ t[1].op = "DestroyAll",
         NEW n \in DOMAIN t
  PROVE  LoopAhead(t, n, ids, left)
<1>1. n \in Int /\ n >= 1 /\ n + d \in DOMAIN s /\ t[n] = s[n + d]
  OBVIOUS
<1>2. LoopAhead(s, n + d, ids, alive)
  BY <1>1
<1>3. CASE n > 1
  <2>1. n - 1 \in DOMAIN t /\ (n + d) - 1 = (n - 1) + d
    BY <1>1, <1>3
  <2>2. t[n - 1] = s[(n + d) - 1]
    BY <2>1
  <2>3. \A e \in left : Underway(s, n + d, e) => Underway(t, n, e)
    BY <1>3, <2>2 DEF Underway
  <2>. QED  BY <1>1, <1>2, <2>3, LoopKept
<1>4. CASE n = 1
  <2>1. (n + d) - 1 = d
    BY <1>4
  <2>2. CASE t[1].op # "DestroyAll"
    BY <1>4, <2>2 DEF LoopAhead
  <2>3. CASE t[1].op = "DestroyAll"
    <3>1. \A e \in left : ~Underway(s, n + d, e)
      BY <1>4, <2>1, <2>3 DEF Underway
    <3>. QED  BY <1>1, <1>2, <3>1, LoopKept
  <2>. QED  BY <2>2, <2>3
<1>. QED  BY <1>1, <1>3, <1>4

\* The entities in the system have the indexes of the vectors, not the null
\* entity's, and are alive there.
LEMMA LivingIndexes ==
  ASSUME Accounted, NEW e \in living
  PROVE  /\ IdIndex(e) \in Nat \ {0}
         /\ IdIndex(e) < VectorSize
         /\ Alive(IdIndex(e))
         /\ e = Pack(IdIndex(e), entIndexToGen[IdIndex(e)])
<1>1. TypeOK /\ LivingExact /\ NullApart
  BY AccountedFacts
<1>2. PICK i \in Vectors : Alive(i) /\ e = Pack(i, entIndexToGen[i])
  BY <1>1 DEF LivingExact
<1>3. IdIndex(e) = i
  BY <1>1, <1>2, LastGens, PackedParts
<1>4. e \in issued
  BY <1>1 DEF TypeOK
<1>. QED  BY <1>1, <1>2, <1>3, <1>4, VectorFacts DEF NullApart

\* The loop goes on to the next index: its entity, if alive, is no longer ahead.
LEMMA LoopAdvances ==
  ASSUME TypeOK, InLoop,
         \A n \in DOMAIN calls : LoopAhead(calls, n, issued, living)
  PROVE  /\ 1 \in DOMAIN Advanced
         /\ Advanced[1].op = "DestroyAll"
         /\ Advanced[1].before \subseteq issued
         /\ \A e \in Advanced[1].before \cap living :
              IdIndex(e) = LoopIndex \/ IdIndex(e) >= Advanced[1].next
         /\ \A n \in DOMAIN Advanced :
              n # 1 => LoopAhead(Advanced, n, issued, living)
<1> DEFINE S == DestroyFrame \cup DestroyAllFrame
           f == [Head(calls) EXCEPT !.next = @ + 1]
<1>1. calls # << >> /\ calls \in Seq(S) /\ Head(calls) \in DestroyAllFrame
  BY FramesPopped DEF InLoop, TypeOK
<1>2. /\ f \in S /\ f.op = "DestroyAll" /\ f.before = Head(calls).before
      /\ f.next = LoopIndex + 1 /\ LoopIndex \in Nat
  BY <1>1 DEF DestroyAllFrame, LoopIndex
<1>3. Advanced = <<f>> \o Tail(calls)
  BY DEF Advanced
<1>4. calls[1].op = "DestroyAll" /\ calls[1] = Head(calls) /\ 1 \in DOMAIN calls
  <2>. HIDE DEF S
  <2>. QED  BY <1>1, Popped DEF InLoop
<1>. HIDE DEF S, f
<1>5. /\ Tail(calls) \in Seq(S)
      /\ \A n \in DOMAIN Tail(calls) :
           n \in Int /\ n + 1 \in DOMAIN calls /\ Tail(calls)[n] = calls[n + 1]
  BY <1>1, Popped
<1>6. /\ 1 \in DOMAIN Advanced /\ Advanced[1] = f
      /\ \A n \in DOMAIN Advanced :
           \/ n = 1
           \/ n \in Int /\ n \in DOMAIN calls /\ Advanced[n] = calls[n]
  BY <1>2, <1>3, <1>5, Pushed
<1>7. \A e \in f.before \cap living : IdIndex(e) = LoopIndex \/ IdIndex(e) >= f.next
  <2>1. SUFFICES ASSUME NEW e \in f.before \cap living
                 PROVE  IdIndex(e) = LoopIndex \/ IdIndex(e) >= f.next
    OBVIOUS
  <2>2. LoopAhead(calls, 1, issued, living) /\ ~Underway(calls, 1, e)
    BY <1>4 DEF Underway
  <2>3. IdIndex(e) >= LoopIndex
    BY <1>2, <1>4, <2>1, <2>2 DEF LoopAhead, LoopIndex
  <2>4. IdIndex(e) \in Int
    BY <2>1, IdParts DEF TypeOK, Indexes
  <2>. QED  BY <1>2, <2>3, <2>4
<1>8. f.before \subseteq issued
  <2>1. LoopAhead(calls, 1, issued, living)
    BY <1>4
  <2>. QED  BY <1>2, <1>4, <2>1 DEF LoopAhead
<1>9. ASSUME NEW n \in DOMAIN Advanced, n # 1
      PROVE  LoopAhead(Advanced, n, issued, living)
  <2>1. LoopAhead(calls, n, issued, living) /\ Advanced[n] = calls[n] /\ n \in Int
    BY <1>6, <1>9
  <2>2. ASSUME NEW e \in living, Underway(calls, n, e) PROVE Underway(Advanced, n, e)
    <3>1. n > 1 /\ n - 1 # 1 /\ calls[n - 1].op = "Destroy"
      BY <1>4, <2>2 DEF Underway
    <3>2. n - 1 \in DOMAIN Advanced
      BY <1>3, <1>5, <1>9, <2>1, <3>1
    <3>3. Advanced[n - 1] = calls[n - 1]
      BY <1>6, <3>1, <3>2
    <3>. QED  BY <2>2, <3>3 DEF Underway
  <2>. QED  BY <2>1, <2>2, LoopKept
<1>. QED  BY <1>2, <1>6, <1>7, <1>8, <1>9

LEMMA LoopsNext ==
  ASSUME Accounted, Accounted', [Next]_vars,
         \A n \in DOMAIN calls : LoopAhead(calls, n, issued, living)
  PROVE  \A n \in DOMAIN calls' : LoopAhead(calls', n, issued', living')
<1> DEFINE S == DestroyFrame \cup DestroyAllFrame
<1>0. 1 \in Nat \ {0}
  OBVIOUS
<1>1. /\ TypeOK /\ calls \in Seq(S) /\ calls' \in Seq(S)
      /\ issued \subseteq issued' /\ living' \cap issued \subseteq living
  BY AccountedFacts, AccountedAfter, NoRevival DEF TypeOK
<1>2. CASE calls' = calls
  BY <1>1, <1>2, LoopKept
<1>3. CASE FinishDestroy
  <2>1. /\ calls # << >> /\ calls' = Tail(calls) /\ issued' = issued
        /\ living' = living \ {Head(calls).id}
    BY <1>3 DEF FinishDestroy
  <2>. HIDE DEF S
  <2>2. /\ Head(calls) = calls[1]
        /\ \A n \in DOMAIN calls' : n + 1 \in DOMAIN calls /\ calls'[n] = calls[n + 1]
    BY <1>1, <2>1, Popped
  <2>3. calls[1].id \notin living' /\ living' \in SUBSET living
    BY <2>1, <2>2
  <2>. QED  BY <1>0, <1>1, <2>1, <2>2, <2>3, LoopsPopped, Zenon
<1>4. CASE Unwinds
  <2>1. /\ calls # << >> /\ issued' = issued /\ living' = living
        /\ calls' = IF Len(calls) > 1 /\ calls[2].op = "DestroyAll"
                       THEN Tail(Tail(calls)) ELSE Tail(calls)
    BY <1>4 DEF Unwinds
  <2>. HIDE DEF S
  <2>2. CASE Len(calls) > 1 /\ calls[2].op = "DestroyAll"
    <3>1. \A n \in DOMAIN calls' : n + 2 \in DOMAIN calls /\ calls'[n] = calls[n + 2]
      BY <1>1, <2>1, <2>2
    <3>2. PICK d \in Nat \ {0} :
            /\ \A n \in DOMAIN calls' : n + d \in DOMAIN calls /\ calls'[n] = calls[n + d]
            /\ calls[d].op # "Destroy"
      BY <2>2, <3>1
    <3>3. living \in SUBSET living
      OBVIOUS
    <3>4. \A n \in DOMAIN calls' : LoopAhead(calls', n, issued, living)
      BY <1>1, <3>2, <3>3, LoopsPopped, Zenon
    <3>. QED  BY <2>1, <3>4
  <2>3. CASE ~(Len(calls) > 1 /\ calls[2].op = "DestroyAll")
    <3>1. \A n \in DOMAIN calls' : n + 1 \in DOMAIN calls /\ calls'[n] = calls[n + 1]
      BY <1>1, <2>1, <2>3, Popped
    <3>2. ~(1 \in DOMAIN calls' /\ calls'[1].op = "DestroyAll")
      BY <1>1, <2>3, <3>1
    <3>3. living \in SUBSET living
      OBVIOUS
    <3>4. \A n \in DOMAIN calls' : LoopAhead(calls', n, issued, living)
      BY <1>0, <1>1, <3>1, <3>2, <3>3, LoopsPopped, Zenon
    <3>. QED  BY <2>1, <3>4
  <2>. QED  BY <2>2, <2>3
<1>5. ASSUME NEW e \in Known, Destroy(e)
      PROVE  \A n \in DOMAIN calls' : LoopAhead(calls', n, issued', living')
  <2> DEFINE f == [op |-> "Destroy", id |-> e]
  <2>1. calls' = <<f>> \o calls /\ issued' = issued /\ living' = living
    BY <1>5 DEF Destroy, Emits
  <2>2. f \in S /\ f.op = "Destroy"
    BY <1>1, KnownFacts DEF DestroyFrame
  <2>. HIDE DEF S, f
  <2>3. \A n \in DOMAIN calls' : n # 1 => LoopAhead(calls', n, issued, living)
    BY <1>1, <2>1, <2>2, Pushed, LoopsPushed
  <2>4. LoopAhead(calls', 1, issued, living)
    BY <1>1, <2>1, <2>2, Pushed DEF LoopAhead
  <2>. QED  BY <2>1, <2>3, <2>4
<1>6. CASE DestroyAll
  <2> DEFINE f == [op |-> "DestroyAll", next |-> 1, before |-> living]
  <2>1. calls' = <<f>> \o calls /\ issued' = issued /\ living' = living
    BY <1>6 DEF DestroyAll
  <2>2. f \in S /\ f.before = living /\ f.next = 1
    <3>1. living \subseteq RawIds
      BY <1>1 DEF TypeOK
    <3>. QED  BY <3>1 DEF DestroyAllFrame
  <2>. HIDE DEF S, f
  <2>3. \A n \in DOMAIN calls' : n # 1 => LoopAhead(calls', n, issued, living)
    BY <1>1, <2>1, <2>2, Pushed, LoopsPushed
  <2>4. LoopAhead(calls', 1, issued, living)
    <3>1. calls'[1] = f
      BY <1>1, <2>1, <2>2, Pushed
    <3>2. living \subseteq issued
      BY <1>1 DEF TypeOK
    <3>3. \A e \in living : IdIndex(e) >= 1
      BY LivingIndexes
    <3>. QED  BY <2>2, <3>1, <3>2, <3>3 DEF LoopAhead
  <2>. QED  BY <2>1, <2>3, <2>4
<1>7. CASE DestroyIndexThrows \/ DestroyAllReturns
  <2>1. /\ calls # << >> /\ Head(calls).op = "DestroyAll"
        /\ calls' = Tail(calls) /\ issued' = issued /\ living' = living
    BY <1>7 DEF DestroyIndexThrows, DestroyAllReturns, InLoop
  <2>. HIDE DEF S
  <2>2. /\ Head(calls) = calls[1]
        /\ \A n \in DOMAIN calls' : n + 1 \in DOMAIN calls /\ calls'[n] = calls[n + 1]
    BY <1>1, <2>1, Popped
  <2>3. calls[1].op # "Destroy" /\ living \in SUBSET living
    BY <2>1, <2>2
  <2>4. \A n \in DOMAIN calls' : LoopAhead(calls', n, issued, living)
    BY <1>0, <1>1, <2>2, <2>3, LoopsPopped, Zenon
  <2>. QED  BY <2>1, <2>4
<1>8. CASE SkipIndex
  <2>1. /\ InLoop /\ ~Alive(LoopIndex)
        /\ calls' = Advanced /\ issued' = issued /\ living' = living
    BY <1>8 DEF SkipIndex
  <2>2. \A e \in living : IdIndex(e) # LoopIndex
    BY <2>1, LivingIndexes
  <2>3. /\ Advanced[1].before \subseteq issued
        /\ \A e \in Advanced[1].before \cap living :
             IdIndex(e) = LoopIndex \/ IdIndex(e) >= Advanced[1].next
        /\ \A n \in DOMAIN Advanced :
             n # 1 => LoopAhead(Advanced, n, issued, living)
    BY <1>1, <2>1, LoopAdvances
  <2>4. LoopAhead(Advanced, 1, issued, living)
    BY <2>2, <2>3 DEF LoopAhead
  <2>. QED  BY <2>1, <2>3, <2>4
<1>9. CASE DestroyIndex
  <2> DEFINE f == [op |-> "Destroy", id |-> LoopId]
  <2>1. /\ InLoop /\ LoopIndex < VectorSize /\ issued' = issued /\ living' = living
        /\ calls' = <<f>> \o Advanced
    BY <1>9 DEF DestroyIndex, Emits
  <2>2. f \in S /\ f.op = "Destroy" /\ f.id = LoopId
    BY <1>1, <2>1, LoopFacts DEF DestroyFrame
  <2>3. Advanced \in Seq(S)
    BY <1>1, <2>1, FramesAdvanced
  <2>. HIDE DEF S, f
  <2>4. /\ 1 \in DOMAIN Advanced
        /\ Advanced[1].op = "DestroyAll"
        /\ Advanced[1].before \subseteq issued
        /\ \A e \in Advanced[1].before \cap living :
             IdIndex(e) = LoopIndex \/ IdIndex(e) >= Advanced[1].next
        /\ \A n \in DOMAIN Advanced :
             n # 1 => LoopAhead(Advanced, n, issued, living)
    BY <1>1, <2>1, LoopAdvances
  <2>5. \A e \in living : IdIndex(e) = LoopIndex => e = LoopId
    BY LivingIndexes DEF LoopId
  <2>6. /\ calls'[1] = f
        /\ \A n \in DOMAIN calls' : n = 1 \/ n - 1 \in DOMAIN Advanced
        /\ calls'[2] = Advanced[1]
    BY <2>1, <2>2, <2>3, <2>4
  <2>7. LoopAhead(calls', 1, issued, living)
    BY <2>2, <2>6 DEF LoopAhead
  <2>8. LoopAhead(calls', 2, issued, living)
    <3>1. \A e : e = LoopId => Underway(calls', 2, e)
      BY <2>2, <2>6 DEF Underway
    <3>. QED  BY <2>4, <2>5, <2>6, <3>1 DEF LoopAhead
  <2>9. ASSUME NEW n \in DOMAIN calls', n # 1, n # 2
        PROVE  LoopAhead(calls', n, issued, living)
    <3>1. n \in Int /\ n - 1 \in DOMAIN Advanced /\ n - 1 # 1
      BY <1>1, <2>6, <2>9
    <3>2. LoopAhead(Advanced, n - 1, issued, living)
      BY <2>4, <3>1
    <3>. QED  BY <2>1, <2>2, <2>3, <2>9, <3>2, LoopsPushed
  <2>. QED  BY <2>1, <2>7, <2>8, <2>9
<1>10. CASE \/ RecycleEntity \/ AppendEntity \/ NewEntityTraps
            \/ \E e \in Known, c \in CompTypes : Assign(e, c) \/ RemoveComponent(e, c)
            \/ \E e \in Known : RemoveAllComponents(e) \/ Subscribe(e) \/ DestroyTraps(e)
            \/ UNCHANGED vars
  BY <1>2, <1>10 DEF RecycleEntity, AppendEntity, Returns, NewEntityTraps, Trap,
     Assign, RemoveComponent, RemoveAllComponents, Subscribe, DestroyTraps, vars
<1>. QED
  BY <1>3, <1>4, <1>5, <1>6, <1>7, <1>8, <1>9, <1>10
  DEF Next, CallbackThrows, RemovalThrows

LEMMA LoopsStayAhead == Spec => []LoopsAhead
<1>1. Init => LoopsAhead
  BY DEF Init, LoopsAhead
<1>2. TypeOK /\ TypeOK' /\ Bookkeeping /\ Bookkeeping' /\ LoopsAhead /\ [Next]_vars
        => LoopsAhead'
  BY TaintStays, TaintGrows, LoopsNext DEF LoopsAhead, Accounted
<1>. QED  BY <1>1, <1>2, TypeCorrect, BookkeepingKept, PTL DEF Spec

(***************************************************************************)
(* When DestroyAll returns, every entity there was when it was called is   *)
(* dead, whatever the callbacks of its calls of Destroy created, destroyed *)
(* or recycled, and whichever of them threw.                               *)
(***************************************************************************)
THEOREM DestroyAllIsComplete == Spec => DestroyAllDestroysAll
<1>1. TypeOK /\ Bookkeeping /\ LoopsAhead =>
        (DestroyAllReturns /\ ~Misused /\ ~Exhausted =>
           Head(calls).before \cap living = {})
  <2>. SUFFICES ASSUME Accounted, LoopsAhead, DestroyAllReturns,
                       NEW e \in Head(calls).before \cap living
                PROVE  FALSE
    BY DEF Accounted
  <2>1. TypeOK
    BY AccountedFacts
  <2>2. InLoop /\ calls # << >> /\ LoopIndex >= VectorSize
    BY DEF DestroyAllReturns, InLoop
  <2>3. 1 \in DOMAIN calls /\ Head(calls) = calls[1] /\ calls[1].op = "DestroyAll"
    BY <2>1, <2>2, Popped DEF TypeOK, InLoop
  <2>4. LoopAhead(calls, 1, issued, living)
    BY <2>3 DEF LoopsAhead, Accounted
  <2>5. IdIndex(e) >= LoopIndex
    BY <2>3, <2>4 DEF LoopAhead, Underway, LoopIndex
  <2>6. IdIndex(e) \in Nat /\ IdIndex(e) < VectorSize
    BY LivingIndexes
  <2>7. LoopIndex \in Nat /\ VectorSize \in Nat
    BY <2>1, <2>2, FramesAdvanced, VectorFacts, ManagerAssumption
  <2>. QED  BY <2>2, <2>5, <2>6, <2>7
<1>2. TypeOK /\ Bookkeeping /\ LoopsAhead =>
        [DestroyAllReturns /\ ~Misused /\ ~Exhausted =>
           Head(calls).before \cap living = {}]_vars
  BY <1>1
<1>. QED
  BY <1>2, TypeCorrect, BookkeepingKept, LoopsStayAhead, PTL
  DEF DestroyAllDestroysAll
=============================================================================
