------------------------ MODULE EntityManagerProofs ------------------------
(***************************************************************************)
(* The entity manager's type invariant and its bookkeeping of indexes and  *)
(* ids, for every number of entities, width of the ids and depth of calls. *)
(***************************************************************************)
EXTENDS EntityManager, EntityIdProofs, FiniteSetTheorems

-----------------------------------------------------------------------------
(* Sequences used as a stack and as a queue. *)

LEMMA Pushed ==
  ASSUME NEW S, NEW s \in Seq(S), NEW f \in S, NEW t, t = <<f>> \o s
  PROVE  /\ t \in Seq(S)
         /\ t # << >>
         /\ Head(t) = f
         /\ \A n \in DOMAIN t :
              \/ n = 1 /\ t[n] = f
              \/ n # 1 /\ n - 1 \in DOMAIN s /\ t[n] = s[n - 1]
  OBVIOUS

LEMMA Popped ==
  ASSUME NEW S, NEW s \in Seq(S), s # << >>, NEW t, t = Tail(s)
  PROVE  /\ t \in Seq(S)
         /\ Head(s) \in S
         /\ 1 \in DOMAIN s
         /\ Head(s) = s[1]
         /\ Len(t) = Len(s) - 1
         /\ \A n \in DOMAIN t : n + 1 \in DOMAIN s /\ n + 1 # 1 /\ t[n] = s[n + 1]
         /\ \A n \in DOMAIN s : n = 1 \/ (n - 1 \in DOMAIN t /\ t[n - 1] = s[n])
  OBVIOUS

LEMMA Queued ==
  ASSUME NEW S, NEW s \in Seq(S), NEW x \in S, NEW t, t = Append(s, x)
  PROVE  /\ t \in Seq(S)
         /\ \A n \in DOMAIN t :
              \/ n = Len(s) + 1 /\ t[n] = x
              \/ n \in DOMAIN s /\ t[n] = s[n]
         /\ \A n \in DOMAIN s : n \in DOMAIN t /\ t[n] = s[n]
         /\ Len(s) + 1 \in DOMAIN t /\ t[Len(s) + 1] = x
  OBVIOUS

-----------------------------------------------------------------------------
(* Types. *)

LEMMA VectorFacts ==
  ASSUME TypeOK
  PROVE  /\ VectorSize \in 1 .. MaxEntities
         /\ Vectors = 0 .. VectorSize - 1
         /\ entIndexToGen \in [Vectors -> Generations]
         /\ indexIsAlive \in [Vectors -> BOOLEAN]
         /\ entCompMasks \in [Vectors -> SUBSET CompTypes]
         /\ 0 \in Vectors
         /\ Vectors \subseteq Indexes
<1>1. PICK n \in 1 .. MaxEntities :
        /\ entIndexToGen \in [0 .. n - 1 -> Generations]
        /\ indexIsAlive \in [0 .. n - 1 -> BOOLEAN]
        /\ entCompMasks \in [0 .. n - 1 -> SUBSET CompTypes]
  BY DEF TypeOK
<1>2. n \in Nat /\ n >= 1 /\ n <= IndexSpan
  BY <1>1, ManagerAssumption, SpanAssumption
<1>3. Cardinality(0 .. n - 1) = n
  BY <1>2, FS_Interval
<1>. QED
  BY <1>1, <1>2, <1>3, SpanAssumption DEF VectorSize, Vectors, Indexes

\* The ids the client has, those of the frames and NULL_ID have an index that
\* the vectors have.
LEMMA KnownFacts ==
  ASSUME TypeOK, NEW e \in Known
  PROVE  e \in RawIds /\ IdIndex(e) \in Vectors
<1>1. NULL_ID \in RawIds /\ IdIndex(NULL_ID) = 0
  <2>1. Pack(0, 0) = 0 /\ IdIndex(Pack(0, 0)) = 0
    <3>1. 0 % IdGenSpan = 0 /\ 0 % IndexSpan = 0
      BY SmallRemainder, SpanAssumption
    <3>2. 0 \in Indexes
      BY SpanAssumption DEF Indexes
    <3>. QED  BY <3>1, <3>2, PackedParts, SpanAssumption DEF Pack
  <2>. QED  BY <2>1, PackInRange DEF NULL_ID
<1>. QED  BY <1>1, VectorFacts DEF Known, TypeOK

LEMMA NextFacts ==
  ASSUME TypeOK
  PROVE  /\ Recycles => /\ freeEntityIndexes # << >>
                        /\ NextIndex \in Vectors
                        /\ NextGen = entIndexToGen[NextIndex]
         /\ ~Recycles => NextIndex = VectorSize /\ NextGen = 0
         /\ NextIndex \in Nat
         /\ NextGen \in Nat
         /\ NextId \in RawIds
         /\ NextIndex < IndexSpan => NextIndex \in Indexes /\ IdIndex(NextId) = NextIndex
<1>1. Recycles => freeEntityIndexes # << >>
  BY ManagerAssumption DEF TypeOK, Recycles
<1>2. Recycles => NextIndex \in Vectors /\ NextGen = entIndexToGen[NextIndex]
  BY <1>1, Popped DEF TypeOK, NextIndex, NextGen
<1>3. ~Recycles => NextIndex = VectorSize /\ NextGen = 0
  BY DEF NextIndex, NextGen
<1>4. NextIndex \in Nat /\ NextGen \in Nat
  BY <1>2, <1>3, VectorFacts, SpanAssumption, ManagerAssumption DEF Indexes, Generations
<1>5. NextId \in RawIds
  BY <1>4, PackInRange DEF NextId
<1>6. NextIndex < IndexSpan => NextIndex \in Indexes
  BY <1>4, SpanAssumption DEF Indexes
<1>. QED  BY <1>1, <1>2, <1>3, <1>4, <1>5, <1>6, PackedParts DEF NextId

-----------------------------------------------------------------------------
(* The type invariant. *)

\* What a step that leaves the vectors' length alone has to keep.
LEMMA SameLengthType ==
  ASSUME TypeOK,
         entIndexToGen' \in [Vectors -> Generations],
         indexIsAlive' \in [Vectors -> BOOLEAN],
         entCompMasks' \in [Vectors -> SUBSET CompTypes],
         freeEntityIndexes' \in Seq(Vectors),
         calls' \in Seq(DestroyFrame \cup DestroyAllFrame),
         \A n \in DOMAIN calls' :
           calls'[n].op = "Destroy" => IdIndex(calls'[n].id) \in Vectors,
         trapped' \in BOOLEAN,
         issued' \subseteq {e \in RawIds : IdIndex(e) \in Vectors},
         living' \subseteq issued',
         entityEventSignals' \subseteq issued' \cup {NULL_ID},
         taint' \subseteq Taints
  PROVE  TypeOK' /\ Vectors' = Vectors
<1>1. Vectors' = Vectors
  BY DEF Vectors
<1>2. \E n \in 1 .. MaxEntities : Vectors = 0 .. n - 1
  BY VectorFacts
<1>. QED  BY <1>1, <1>2 DEF TypeOK, Known

\* The frames below the innermost one are frames of the stack.
LEMMA FramesPopped ==
  ASSUME TypeOK, calls # << >>
  PROVE  /\ Tail(calls) \in Seq(DestroyFrame \cup DestroyAllFrame)
         /\ \A n \in DOMAIN Tail(calls) :
              Tail(calls)[n].op = "Destroy" =>
                IdIndex(Tail(calls)[n].id) \in Vectors
         /\ Head(calls) \in DestroyFrame \cup DestroyAllFrame
         /\ Head(calls).op = "Destroy" =>
              /\ Head(calls).id \in RawIds
              /\ IdIndex(Head(calls).id) \in Vectors
         /\ Head(calls).op = "DestroyAll" => Head(calls) \in DestroyAllFrame
<1>1. calls \in Seq(DestroyFrame \cup DestroyAllFrame)
  BY DEF TypeOK
<1>2. /\ Tail(calls) \in Seq(DestroyFrame \cup DestroyAllFrame)
      /\ Head(calls) \in DestroyFrame \cup DestroyAllFrame
      /\ 1 \in DOMAIN calls
      /\ Head(calls) = calls[1]
      /\ \A n \in DOMAIN Tail(calls) :
            n + 1 \in DOMAIN calls /\ Tail(calls)[n] = calls[n + 1]
  BY <1>1, Popped
<1>. QED  BY <1>2 DEF TypeOK, DestroyFrame, DestroyAllFrame

\* A frame of Destroy pushed on a stack of frames.
LEMMA FramePushed ==
  ASSUME TypeOK, NEW e \in RawIds, IdIndex(e) \in Vectors,
         NEW s \in Seq(DestroyFrame \cup DestroyAllFrame),
         \A n \in DOMAIN s : s[n].op = "Destroy" => IdIndex(s[n].id) \in Vectors,
         NEW t, t = <<[op |-> "Destroy", id |-> e]>> \o s
  PROVE  /\ t \in Seq(DestroyFrame \cup DestroyAllFrame)
         /\ \A n \in DOMAIN t :
              t[n].op = "Destroy" => IdIndex(t[n].id) \in Vectors
<1> DEFINE f == [op |-> "Destroy", id |-> e]
<1>1. f \in DestroyFrame \cup DestroyAllFrame /\ f.id = e
  BY DEF DestroyFrame
<1>2. /\ t \in Seq(DestroyFrame \cup DestroyAllFrame)
      /\ \A n \in DOMAIN t :
            \/ n = 1 /\ t[n] = f
            \/ n - 1 \in DOMAIN s /\ t[n] = s[n - 1]
  <2>1. t = <<f>> \o s
    OBVIOUS
  <2>. HIDE DEF f
  <2>. QED  BY <1>1, <2>1, Pushed
<1>. QED  BY <1>1, <1>2

\* The stack of a loop that goes on.
LEMMA FramesAdvanced ==
  ASSUME TypeOK, InLoop
  PROVE  /\ Advanced \in Seq(DestroyFrame \cup DestroyAllFrame)
         /\ \A n \in DOMAIN Advanced :
              Advanced[n].op = "Destroy" =>
                IdIndex(Advanced[n].id) \in Vectors
         /\ LoopIndex \in Nat \ {0}
         /\ \A n \in DOMAIN Advanced :
              Advanced[n].op = "Destroy" =>
                n \in DOMAIN calls /\ Advanced[n] = calls[n]
<1> DEFINE f == [Head(calls) EXCEPT !.next = @ + 1]
<1>1. calls # << >> /\ Head(calls) \in DestroyAllFrame
  BY FramesPopped DEF InLoop
<1>2. f \in DestroyAllFrame /\ f.op = "DestroyAll" /\ LoopIndex \in Nat \ {0}
  BY <1>1 DEF DestroyAllFrame, LoopIndex
<1>3. /\ Tail(calls) \in Seq(DestroyFrame \cup DestroyAllFrame)
      /\ \A n \in DOMAIN Tail(calls) :
            n + 1 \in DOMAIN calls /\ Tail(calls)[n] = calls[n + 1]
  BY <1>1, Popped DEF TypeOK
<1>4. /\ Advanced \in Seq(DestroyFrame \cup DestroyAllFrame)
      /\ \A n \in DOMAIN Advanced :
            \/ n = 1 /\ Advanced[n] = f
            \/ n - 1 \in DOMAIN Tail(calls) /\ Advanced[n] = Tail(calls)[n - 1]
  <2>1. Advanced = <<f>> \o Tail(calls)
    BY DEF Advanced
  <2>2. f \in DestroyFrame \cup DestroyAllFrame
    BY <1>2
  <2>. HIDE DEF f
  <2>. QED  BY <1>3, <2>1, <2>2, Pushed
<1>5. \A n \in DOMAIN Advanced :
        Advanced[n].op = "Destroy" =>
          n \in DOMAIN calls /\ Advanced[n] = calls[n]
  <2>1. DOMAIN Advanced \subseteq Int
    BY <1>4
  <2>. HIDE DEF f
  <2>. QED  BY <1>2, <1>3, <1>4, <2>1
<1>. QED  BY <1>2, <1>4, <1>5 DEF TypeOK

LEMMA TypeInvInit == Init => TypeOK
<1>1. SUFFICES ASSUME Init PROVE TypeOK
  OBVIOUS
<1>2. {0} = 0 .. 1 - 1 /\ 1 \in 1 .. MaxEntities /\ 0 \in Generations
  BY SpanAssumption, ManagerAssumption DEF Generations
<1>3. /\ entIndexToGen \in [0 .. 1 - 1 -> Generations]
      /\ indexIsAlive \in [0 .. 1 - 1 -> BOOLEAN]
      /\ entCompMasks \in [0 .. 1 - 1 -> SUBSET CompTypes]
  BY <1>1, <1>2 DEF Init
<1>. QED  BY <1>1, <1>2, <1>3 DEF Init, TypeOK, Known

\* A recycled id has an index of the vectors.
LEMMA RecycledFacts ==
  ASSUME TypeOK, Recycles
  PROVE  /\ NextIndex \in Vectors
         /\ NextIndex \in Indexes
         /\ NextId \in RawIds
         /\ IdIndex(NextId) = NextIndex
<1>1. NextIndex \in Vectors /\ NextIndex \in Indexes
  BY NextFacts, VectorFacts
<1>2. NextIndex < IndexSpan
  BY <1>1, SpanAssumption DEF Indexes
<1>. QED  BY <1>1, <1>2, NextFacts

LEMMA TypeRecycle == TypeOK /\ RecycleEntity => TypeOK' /\ Vectors' = Vectors
<1>1. SUFFICES ASSUME TypeOK, RecycleEntity PROVE TypeOK' /\ Vectors' = Vectors
  OBVIOUS
<1>2. Recycles
  BY <1>1 DEF RecycleEntity
<1>3. freeEntityIndexes' \in Seq(Vectors)
  BY <1>1, <1>2, NextFacts, Popped DEF RecycleEntity, QueuePopped, TypeOK
<1>4. indexIsAlive' \in [Vectors -> BOOLEAN]
  BY <1>1, VectorFacts DEF RecycleEntity
<1>5. NextId \in RawIds /\ IdIndex(NextId) \in Vectors
  BY <1>1, <1>2, RecycledFacts
<1>6. /\ entIndexToGen' \in [Vectors -> Generations]
      /\ entCompMasks' \in [Vectors -> SUBSET CompTypes]
  BY <1>1, VectorFacts DEF RecycleEntity
<1>7. /\ issued' \subseteq {e \in RawIds : IdIndex(e) \in Vectors}
      /\ living' \subseteq issued'
      /\ entityEventSignals' \subseteq issued' \cup {NULL_ID}
  BY <1>1, <1>5 DEF RecycleEntity, Returns, TypeOK, Known
<1>. QED
  BY <1>1, <1>3, <1>4, <1>6, <1>7, SameLengthType DEF RecycleEntity, Returns, TypeOK

\* What AppendEntity does to the vectors.
LEMMA AppendFacts ==
  ASSUME TypeOK, AppendEntity
  PROVE  /\ VectorSize + 1 \in 1 .. MaxEntities
         /\ Vectors' = 0 .. VectorSize
         /\ Vectors' = Vectors \cup {VectorSize}
         /\ VectorSize \notin Vectors
         /\ VectorSize \in Indexes
         /\ IdIndex(NextId) = VectorSize
         /\ NextId = Pack(VectorSize, 0)
         /\ NextId \in RawIds
         /\ entIndexToGen' \in [0 .. VectorSize -> Generations]
         /\ indexIsAlive' \in [0 .. VectorSize -> BOOLEAN]
         /\ entCompMasks' \in [0 .. VectorSize -> SUBSET CompTypes]
         /\ entIndexToGen'[VectorSize] = 0
         /\ indexIsAlive'[VectorSize] = TRUE
         /\ \A i \in Vectors : /\ entIndexToGen'[i] = entIndexToGen[i]
                              /\ indexIsAlive'[i] = indexIsAlive[i]
                              /\ entCompMasks'[i] = entCompMasks[i]
<1>1. /\ VectorSize \in Nat
      /\ VectorSize < MaxEntities
      /\ VectorSize < IndexSpan
      /\ MaxEntities \in Nat
  BY VectorFacts, ManagerAssumption, SpanAssumption DEF AppendEntity
<1>2. Vectors = 0 .. VectorSize - 1
  BY VectorFacts
<1>3. /\ NextId = Pack(VectorSize, 0)
      /\ IdIndex(NextId) = VectorSize
      /\ NextId \in RawIds
      /\ VectorSize \in Indexes
  BY <1>1, NextFacts DEF AppendEntity, NextId
<1>4. 0 \in Generations
  BY SpanAssumption DEF Generations
<1>5. /\ entIndexToGen' \in [0 .. VectorSize -> Generations]
      /\ entIndexToGen'[VectorSize] = 0
      /\ \A i \in Vectors : entIndexToGen'[i] = entIndexToGen[i]
  BY <1>1, <1>2, <1>4, VectorFacts DEF AppendEntity, PushBack
<1>6. /\ indexIsAlive' \in [0 .. VectorSize -> BOOLEAN]
      /\ indexIsAlive'[VectorSize] = TRUE
      /\ \A i \in Vectors : indexIsAlive'[i] = indexIsAlive[i]
  <2>1. /\ \A k \in 0 .. VectorSize : k = VectorSize \/ k \in Vectors
        /\ \A k \in Vectors : k # VectorSize /\ k \in 0 .. VectorSize
        /\ VectorSize \in 0 .. VectorSize
    BY <1>1, <1>2
  <2>2. \A k \in Vectors : indexIsAlive[k] \in BOOLEAN
    BY VectorFacts
  <2>3. indexIsAlive' = [k \in 0 .. VectorSize |->
                           IF k = VectorSize THEN TRUE ELSE indexIsAlive[k]]
    BY Zenon DEF AppendEntity, PushBack
  <2>. QED  BY <2>1, <2>2, <2>3, Zenon
<1>7. /\ entCompMasks' \in [0 .. VectorSize -> SUBSET CompTypes]
      /\ \A i \in Vectors : entCompMasks'[i] = entCompMasks[i]
  BY <1>1, <1>2, VectorFacts DEF AppendEntity, PushBack
<1>8. Vectors' = 0 .. VectorSize
  BY <1>5 DEF Vectors
<1>. QED  BY <1>1, <1>2, <1>3, <1>5, <1>6, <1>7, <1>8

LEMMA TypeAppend == TypeOK /\ AppendEntity => TypeOK'
<1>1. SUFFICES ASSUME TypeOK, AppendEntity PROVE TypeOK'
  OBVIOUS
<1>2. \E n \in 1 .. MaxEntities :
         /\ entIndexToGen' \in [0 .. n - 1 -> Generations]
         /\ indexIsAlive' \in [0 .. n - 1 -> BOOLEAN]
         /\ entCompMasks' \in [0 .. n - 1 -> SUBSET CompTypes]
  <2>1. VectorSize + 1 \in 1 .. MaxEntities /\ 0 .. VectorSize = 0 .. (VectorSize + 1) - 1
    BY <1>1, AppendFacts, VectorFacts, ManagerAssumption
  <2>. QED  BY <1>1, <2>1, AppendFacts
<1>3. Vectors \subseteq Vectors'
  BY <1>1, AppendFacts
<1>4. freeEntityIndexes' \in Seq(Vectors')
  BY <1>1, <1>3 DEF AppendEntity, TypeOK
<1>5. /\ issued' \subseteq {e \in RawIds : IdIndex(e) \in Vectors'}
      /\ living' \subseteq issued'
      /\ entityEventSignals' \subseteq issued' \cup {NULL_ID}
  BY <1>1, <1>3, AppendFacts DEF AppendEntity, Returns, TypeOK, Known
<1>6. /\ calls' \in Seq(DestroyFrame \cup DestroyAllFrame)
      /\ \A n \in DOMAIN calls' :
            calls'[n].op = "Destroy" => IdIndex(calls'[n].id) \in Vectors'
  BY <1>1, <1>3 DEF AppendEntity, Returns, TypeOK
<1>7. trapped' \in BOOLEAN /\ taint' \subseteq Taints
  BY <1>1 DEF AppendEntity, Returns, TypeOK
<1>. QED  BY <1>2, <1>4, <1>5, <1>6, <1>7 DEF TypeOK, Known

\* What a step that changes only the stack of calls has to keep.
LEMMA SameStateType ==
  ASSUME TypeOK, UNCHANGED <<state, issued, living>>,
         calls' \in Seq(DestroyFrame \cup DestroyAllFrame),
         \A n \in DOMAIN calls' :
           calls'[n].op = "Destroy" => IdIndex(calls'[n].id) \in Vectors,
         trapped' \in BOOLEAN,
         taint' \subseteq Taints
  PROVE  TypeOK' /\ Vectors' = Vectors
<1>1. /\ entIndexToGen' \in [Vectors -> Generations]
      /\ indexIsAlive' \in [Vectors -> BOOLEAN]
      /\ entCompMasks' \in [Vectors -> SUBSET CompTypes]
  BY VectorFacts DEF state
<1>2. /\ freeEntityIndexes' \in Seq(Vectors)
      /\ issued' \subseteq {e \in RawIds : IdIndex(e) \in Vectors}
      /\ living' \subseteq issued'
      /\ entityEventSignals' \subseteq issued' \cup {NULL_ID}
  BY DEF TypeOK, state, Known
<1>. QED  BY <1>1, <1>2, SameLengthType

LEMMA TypeTrap ==
  ASSUME TypeOK, Trap, taint' \subseteq Taints
  PROVE  TypeOK' /\ Vectors' = Vectors
  BY SameStateType DEF Trap, TypeOK

\* What a step of the client that only changes masks or signals has to keep.
LEMMA TypeClient ==
  ASSUME TypeOK,
         UNCHANGED <<entIndexToGen, freeEntityIndexes, indexIsAlive, calls,
                     trapped, issued, living>>,
         entCompMasks' \in [Vectors -> SUBSET CompTypes],
         entityEventSignals' \subseteq Known,
         taint' \subseteq Taints
  PROVE  TypeOK' /\ Vectors' = Vectors
<1>1. /\ entIndexToGen' \in [Vectors -> Generations]
      /\ indexIsAlive' \in [Vectors -> BOOLEAN]
  BY VectorFacts
<1>2. /\ freeEntityIndexes' \in Seq(Vectors)
      /\ calls' \in Seq(DestroyFrame \cup DestroyAllFrame)
      /\ \A n \in DOMAIN calls' :
           calls'[n].op = "Destroy" => IdIndex(calls'[n].id) \in Vectors
      /\ trapped' \in BOOLEAN
      /\ issued' \subseteq {e \in RawIds : IdIndex(e) \in Vectors}
      /\ living' \subseteq issued'
  BY DEF TypeOK
<1>. QED  BY <1>1, <1>2, SameLengthType DEF Known

\* A call of Destroy is begun.
LEMMA TypeEmits ==
  ASSUME TypeOK, NEW e \in RawIds, IdIndex(e) \in Vectors,
         NEW s \in Seq(DestroyFrame \cup DestroyAllFrame),
         \A n \in DOMAIN s : s[n].op = "Destroy" => IdIndex(s[n].id) \in Vectors,
         Emits(e, s)
  PROVE  TypeOK' /\ Vectors' = Vectors
<1>1. /\ calls' \in Seq(DestroyFrame \cup DestroyAllFrame)
      /\ \A n \in DOMAIN calls' :
           calls'[n].op = "Destroy" => IdIndex(calls'[n].id) \in Vectors
  BY FramePushed DEF Emits
<1>2. taint' \subseteq Taints
  BY DEF Emits, Taint, NullDestroyed, Taints, TypeOK
<1>. QED  BY <1>1, <1>2, SameStateType DEF Emits, TypeOK

LEMMA TypeFinish == TypeOK /\ FinishDestroy => TypeOK' /\ Vectors' = Vectors
<1>1. SUFFICES ASSUME TypeOK, FinishDestroy PROVE TypeOK' /\ Vectors' = Vectors
  OBVIOUS
<1> DEFINE e == Head(calls).id
           i == IdIndex(e)
<1>2. calls # << >> /\ Head(calls).op = "Destroy"
  BY <1>1, FramesPopped DEF FinishDestroy, ClientRuns, InLoop, DestroyFrame, DestroyAllFrame
<1>3. e \in RawIds /\ i \in Vectors
  BY <1>1, <1>2, FramesPopped
<1>4. GenAfter(i) \in Generations
  <2>1. entIndexToGen[i] \in Nat
    BY <1>1, <1>3, VectorFacts DEF Generations
  <2>. HIDE DEF e, i
  <2>2. entIndexToGen[i] + 1 \in Nat /\ GenSpan \in Nat \ {0}
    BY <2>1, SpanAssumption
  <2>3. (entIndexToGen[i] + 1) % GenSpan \in 0 .. GenSpan - 1
    BY <2>2, Division, Zenon
  <2>. QED  BY <2>3 DEF GenAfter, Generations
<1>5. /\ entIndexToGen' = [entIndexToGen EXCEPT ![i] = GenAfter(i)]
      /\ entCompMasks' = [entCompMasks EXCEPT ![i] = {}]
      /\ indexIsAlive' = [indexIsAlive EXCEPT ![i] = FALSE]
      /\ freeEntityIndexes' = Append(freeEntityIndexes, i)
      /\ entityEventSignals' = entityEventSignals \ {e}
      /\ living' = living \ {e}
      /\ taint' = taint \cup Exhaustion(entIndexToGen[i])
      /\ calls' = Tail(calls)
      /\ UNCHANGED <<trapped, issued>>
  BY <1>1 DEF FinishDestroy, SignalsWithout, MasksWithout, QueueWith, Taint
<1>6. taint' \subseteq Taints
  BY <1>1, <1>5 DEF Exhaustion, Taints, TypeOK
<1>7. /\ calls' \in Seq(DestroyFrame \cup DestroyAllFrame)
      /\ \A n \in DOMAIN calls' :
           calls'[n].op = "Destroy" => IdIndex(calls'[n].id) \in Vectors
  BY <1>1, <1>2, <1>5, FramesPopped
<1>. HIDE DEF e, i
<1>8. /\ entIndexToGen' \in [Vectors -> Generations]
      /\ indexIsAlive' \in [Vectors -> BOOLEAN]
      /\ entCompMasks' \in [Vectors -> SUBSET CompTypes]
  BY <1>1, <1>3, <1>4, <1>5, VectorFacts
<1>9. freeEntityIndexes' \in Seq(Vectors)
  BY <1>1, <1>3, <1>5 DEF TypeOK
<1>10. /\ issued' \subseteq {f \in RawIds : IdIndex(f) \in Vectors}
       /\ living' \subseteq issued'
       /\ entityEventSignals' \subseteq issued' \cup {NULL_ID}
       /\ trapped' \in BOOLEAN
  BY <1>1, <1>5 DEF TypeOK, Known
<1>. QED  BY <1>1, <1>6, <1>7, <1>8, <1>9, <1>10, SameLengthType

\* The frames left after an exception are the lower ones of the stack.
LEMMA FramesThrown ==
  ASSUME TypeOK, Unwinds
  PROVE  /\ calls' \in Seq(DestroyFrame \cup DestroyAllFrame)
         /\ \E d \in {1, 2} :
              \A n \in DOMAIN calls' :
                n + d \in DOMAIN calls /\ calls'[n] = calls[n + d]
<1> DEFINE S == DestroyFrame \cup DestroyAllFrame
<1>1. calls # << >> /\ calls \in Seq(S)
  BY DEF Unwinds, TypeOK
<1> HIDE DEF S
<1>2. /\ Tail(calls) \in Seq(S)
      /\ Len(Tail(calls)) = Len(calls) - 1
      /\ \A n \in DOMAIN Tail(calls) :
           n + 1 \in DOMAIN calls /\ Tail(calls)[n] = calls[n + 1]
  BY <1>1, Popped
<1>3. CASE calls' = Tail(calls)
  BY <1>2, <1>3 DEF S
<1>4. CASE Len(calls) > 1 /\ calls' = Tail(Tail(calls))
  <2>1. Tail(calls) # << >>
    <3>1. Len(Tail(calls)) > 0
      BY <1>1, <1>2, <1>4
    <3>2. Len(<< >>) = 0
      OBVIOUS
    <3>. QED  BY <3>1, <3>2
  <2>2. /\ calls' \in Seq(S)
        /\ \A n \in DOMAIN calls' :
             n + 1 \in DOMAIN Tail(calls) /\ calls'[n] = Tail(calls)[n + 1]
    BY <1>2, <1>4, <2>1, Popped
  <2>3. \A n \in DOMAIN calls' : n \in Int /\ (n + 1) + 1 = n + 2
    BY <2>2
  <2>4. \A n \in DOMAIN calls' :
          n + 2 \in DOMAIN calls /\ calls'[n] = calls[n + 2]
    BY <1>2, <2>2, <2>3
  <2>. QED  BY <2>2, <2>4 DEF S
<1>. QED  BY <1>3, <1>4 DEF Unwinds

LEMMA TypeThrows ==
  TypeOK /\ (CallbackThrows \/ RemovalThrows) => TypeOK' /\ Vectors' = Vectors
<1>1. SUFFICES ASSUME TypeOK, CallbackThrows \/ RemovalThrows
               PROVE  TypeOK' /\ Vectors' = Vectors
  OBVIOUS
<1>2. Unwinds
  BY <1>1 DEF CallbackThrows, RemovalThrows
<1>3. /\ calls' \in Seq(DestroyFrame \cup DestroyAllFrame)
      /\ \A n \in DOMAIN calls' :
           calls'[n].op = "Destroy" => IdIndex(calls'[n].id) \in Vectors
  BY <1>1, <1>2, FramesThrown DEF TypeOK
<1>4. entityEventSignals' \subseteq entityEventSignals
  BY <1>1 DEF CallbackThrows, RemovalThrows, SignalsWithout
<1>5. entCompMasks' \in [Vectors -> SUBSET CompTypes]
  <2>1. entCompMasks \in [Vectors -> SUBSET CompTypes]
    BY <1>1, VectorFacts
  <2>2. CASE CallbackThrows
    BY <2>1, <2>2 DEF CallbackThrows
  <2>3. CASE RemovalThrows
    <3>1. PICK i : \E kept \in SUBSET entCompMasks[i] :
                     entCompMasks' = [entCompMasks EXCEPT ![i] = kept]
      BY <2>3 DEF RemovalThrows
    <3>2. CASE i \in Vectors
      BY <2>1, <3>1, <3>2
    <3>3. CASE i \notin Vectors
      BY <2>1, <3>1, <3>3
    <3>. QED  BY <3>2, <3>3
  <2>. QED  BY <1>1, <2>2, <2>3
<1>6. /\ entIndexToGen' \in [Vectors -> Generations]
      /\ indexIsAlive' \in [Vectors -> BOOLEAN]
  BY <1>1, <1>2, VectorFacts DEF Unwinds
<1>7. /\ freeEntityIndexes' \in Seq(Vectors)
      /\ issued' \subseteq {e \in RawIds : IdIndex(e) \in Vectors}
      /\ living' \subseteq issued'
      /\ entityEventSignals' \subseteq issued' \cup {NULL_ID}
      /\ trapped' \in BOOLEAN /\ taint' \subseteq Taints
  BY <1>1, <1>2, <1>4 DEF Unwinds, TypeOK, Known
<1>. QED  BY <1>1, <1>3, <1>5, <1>6, <1>7, SameLengthType

\* The frame of DestroyAll pushed on the stack.
LEMMA FramesOfDestroyAll ==
  ASSUME TypeOK, DestroyAll
  PROVE  /\ calls' \in Seq(DestroyFrame \cup DestroyAllFrame)
         /\ \A n \in DOMAIN calls' :
              \/ calls'[n].op = "DestroyAll"
              \/ n - 1 \in DOMAIN calls /\ calls'[n] = calls[n - 1]
<1> DEFINE f == [op |-> "DestroyAll", next |-> 1, before |-> living]
           S == DestroyFrame \cup DestroyAllFrame
<1>1. f \in S /\ f.op = "DestroyAll" /\ calls \in Seq(S)
  BY DEF TypeOK, DestroyAllFrame
<1>2. calls' = <<f>> \o calls
  BY DEF DestroyAll
<1>3. /\ calls' \in Seq(S)
      /\ \A n \in DOMAIN calls' :
           \/ n = 1 /\ calls'[n] = f
           \/ n - 1 \in DOMAIN calls /\ calls'[n] = calls[n - 1]
  <2>. HIDE DEF f, S
  <2>. QED  BY <1>1, <1>2, Pushed
<1>. QED  BY <1>1, <1>3

LEMMA TypeDestroyAll == TypeOK /\ DestroyAll => TypeOK' /\ Vectors' = Vectors
<1>1. SUFFICES ASSUME TypeOK, DestroyAll PROVE TypeOK' /\ Vectors' = Vectors
  OBVIOUS
<1>2. /\ calls' \in Seq(DestroyFrame \cup DestroyAllFrame)
      /\ \A n \in DOMAIN calls' :
           calls'[n].op = "Destroy" => IdIndex(calls'[n].id) \in Vectors
  BY <1>1, FramesOfDestroyAll DEF TypeOK
<1>. QED  BY <1>1, <1>2, SameStateType DEF DestroyAll, TypeOK

\* A step of the loop of DestroyAll that calls nothing.
LEMMA TypeLoop ==
  ASSUME TypeOK, InLoop, UNCHANGED <<state, trapped, issued, living, taint>>,
         calls' \in {Advanced, Tail(calls)}
  PROVE  TypeOK' /\ Vectors' = Vectors
<1>1. /\ calls' \in Seq(DestroyFrame \cup DestroyAllFrame)
      /\ \A n \in DOMAIN calls' :
           calls'[n].op = "Destroy" => IdIndex(calls'[n].id) \in Vectors
  BY FramesAdvanced, FramesPopped DEF InLoop
<1>. QED  BY <1>1, SameStateType DEF TypeOK

\* The entity that DestroyAll destroys has the index of the loop.
LEMMA LoopFacts ==
  ASSUME TypeOK, InLoop, LoopIndex < VectorSize
  PROVE  /\ LoopIndex \in Vectors \ {0}
         /\ LoopIndex \in Indexes
         /\ LoopId \in RawIds
         /\ IdIndex(LoopId) = LoopIndex
<1>1. LoopIndex \in Vectors \ {0} /\ LoopIndex \in Indexes
  BY FramesAdvanced, VectorFacts
<1>2. LoopIndex \in Nat /\ entIndexToGen[LoopIndex] \in Nat
  BY <1>1, FramesAdvanced, VectorFacts DEF Generations
<1>. QED  BY <1>1, <1>2, PackedParts, PackInRange DEF LoopId

LEMMA TypeDestroyIndex ==
  TypeOK /\ DestroyIndex => TypeOK' /\ Vectors' = Vectors
  BY LoopFacts, FramesAdvanced, TypeEmits DEF DestroyIndex

LEMMA TypeInvNext == TypeOK /\ [Next]_vars => TypeOK'
<1>1. SUFFICES ASSUME TypeOK, [Next]_vars PROVE TypeOK'
  OBVIOUS
<1>2. CASE RecycleEntity
  BY <1>1, <1>2, TypeRecycle
<1>3. CASE AppendEntity
  BY <1>1, <1>3, TypeAppend
<1>4. CASE NewEntityTraps
  BY <1>1, <1>4, TypeTrap DEF NewEntityTraps, TypeOK
<1>5. ASSUME NEW e \in Known, NEW c \in CompTypes, Assign(e, c) PROVE TypeOK'
  <2>1. IdIndex(e) \in Vectors
    BY <1>1, KnownFacts
  <2>2. entCompMasks' \in [Vectors -> SUBSET CompTypes]
    BY <1>1, <1>5, <2>1, VectorFacts DEF Assign
  <2>3. taint' \subseteq Taints
    BY <1>1, <1>5 DEF Assign, Taint, Taints, TypeOK
  <2>. QED  BY <1>1, <1>5, <2>2, <2>3, TypeClient DEF Assign, TypeOK
<1>6. ASSUME NEW e \in Known, NEW c \in CompTypes, RemoveComponent(e, c)
      PROVE  TypeOK'
  <2>1. IdIndex(e) \in Vectors
    BY <1>1, KnownFacts
  <2>2. entCompMasks' \in [Vectors -> SUBSET CompTypes]
    BY <1>1, <1>6, <2>1, VectorFacts DEF RemoveComponent
  <2>. QED  BY <1>1, <1>6, <2>2, TypeClient DEF RemoveComponent, TypeOK
<1>7. ASSUME NEW e \in Known, RemoveAllComponents(e) PROVE TypeOK'
  <2>1. IdIndex(e) \in Vectors
    BY <1>1, KnownFacts
  <2>2. entCompMasks' \in [Vectors -> SUBSET CompTypes]
    BY <1>1, <1>7, <2>1, VectorFacts DEF RemoveAllComponents, MasksWithout
  <2>. QED  BY <1>1, <1>7, <2>2, TypeClient DEF RemoveAllComponents, TypeOK
<1>8. ASSUME NEW e \in Known, Subscribe(e) PROVE TypeOK'
  <2>1. entCompMasks' \in [Vectors -> SUBSET CompTypes]
    BY <1>1, <1>8, VectorFacts DEF Subscribe
  <2>2. taint' \subseteq Taints /\ entityEventSignals' \subseteq Known
    BY <1>1, <1>8 DEF Subscribe, Taint, Taints, TypeOK
  <2>. QED  BY <1>1, <1>8, <2>1, <2>2, TypeClient DEF Subscribe
<1>9. ASSUME NEW e \in Known, Destroy(e) PROVE TypeOK'
  BY <1>1, <1>9, KnownFacts, TypeEmits DEF Destroy, TypeOK
<1>10. ASSUME NEW e \in Known, DestroyTraps(e) PROVE TypeOK'
  <2>1. taint' \subseteq Taints
    BY <1>1, <1>10 DEF DestroyTraps, Taint, NullDestroyed, Taints, TypeOK
  <2>. QED  BY <1>1, <1>10, <2>1, TypeTrap DEF DestroyTraps
<1>11. CASE FinishDestroy
  BY <1>1, <1>11, TypeFinish
<1>12. CASE CallbackThrows \/ RemovalThrows
  BY <1>1, <1>12, TypeThrows
<1>13. CASE DestroyAll
  BY <1>1, <1>13, TypeDestroyAll
<1>14. CASE SkipIndex \/ DestroyIndexThrows \/ DestroyAllReturns
  BY <1>1, <1>14, TypeLoop DEF SkipIndex, DestroyIndexThrows, DestroyAllReturns
<1>15. CASE DestroyIndex
  BY <1>1, <1>15, TypeDestroyIndex
<1>16. CASE UNCHANGED vars
  BY <1>1, <1>16 DEF vars, state, TypeOK, Vectors, Known
<1>. QED
  BY <1>1, <1>2, <1>3, <1>4, <1>5, <1>6, <1>7, <1>8, <1>9, <1>10, <1>11,
     <1>12, <1>13, <1>14, <1>15, <1>16 DEF Next

(***************************************************************************)
(* The vectors stay of one length, and every index in the queue, in an id  *)
(* or on the stack is one of theirs, whatever the client does: no at() of  *)
(* the entity manager can throw.                                           *)
(***************************************************************************)
THEOREM TypeCorrect == Spec => []TypeOK
<1>1. Init => TypeOK
  BY TypeInvInit
<1>2. TypeOK /\ [Next]_vars => TypeOK'
  BY TypeInvNext
<1>. QED  BY <1>1, <1>2, PTL DEF Spec

-----------------------------------------------------------------------------
(* The bookkeeping of indexes and ids: the invariant. *)

(***************************************************************************)
(* No id has a generation its index has not reached, and an index that is  *)
(* not alive is past all of them.  No mistake of the client breaks it.     *)
(***************************************************************************)
GensGrow ==
  "wrapped" \notin taint =>
    \A e \in issued :
      /\ IdGeneration(e) <= entIndexToGen[IdIndex(e)]
      /\ Alive(IdIndex(e)) \/ IdGeneration(e) < entIndexToGen[IdIndex(e)]

Sound == ~Misused /\ ~(NDEBUG /\ "wrapped" \in taint)

QueueIsDead ==
  /\ \A n \in DOMAIN freeEntityIndexes :
       freeEntityIndexes[n] # 0 /\ ~Alive(freeEntityIndexes[n])
  /\ \A i \in Vectors \ {0} :
       Alive(i) \/ \E n \in DOMAIN freeEntityIndexes : freeEntityIndexes[n] = i
  /\ \A m, n \in DOMAIN freeEntityIndexes :
       freeEntityIndexes[m] = freeEntityIndexes[n] => m = n

\* The null entity is not alive, and no id but its own has its index.
NullApart ==
  /\ ~Alive(0)
  /\ \A e \in issued : IdIndex(e) # 0

\* The calls of Destroy under way are for different entities, all alive.
FramesAlive ==
  /\ \A n \in DOMAIN calls :
       calls[n].op = "Destroy" => Alive(IdIndex(calls[n].id))
  /\ \A m, n \in DOMAIN calls :
       /\ calls[m].op = "Destroy"
       /\ calls[n].op = "Destroy"
       /\ IdIndex(calls[m].id) = IdIndex(calls[n].id)
       => m = n

\* The entities alive can be read off the vectors.
LivingExact == living = {Pack(i, entIndexToGen[i]) : i \in {k \in Vectors : Alive(k)}}

GensFit == \A i \in Vectors : entIndexToGen[i] < IdGenSpan

FramesValid ==
  \A n \in DOMAIN calls : calls[n].op = "Destroy" => Valid(calls[n].id)

Bookkeeping ==
  /\ GensGrow
  /\ Sound => QueueIsDead /\ NullApart /\ FramesAlive
  /\ ~Misused /\ ~Exhausted => LivingExact /\ GensFit /\ FramesValid

-----------------------------------------------------------------------------
(* The bookkeeping of indexes and ids: its proof. *)

\* What is not tainted after a step was not tainted before it.
LEMMA TaintGrows ==
  ASSUME taint \subseteq taint'
  PROVE  /\ "wrapped" \notin taint' => "wrapped" \notin taint
         /\ Sound' => Sound
         /\ ~Misused' /\ ~Exhausted' => ~Misused /\ ~Exhausted
  BY DEF Sound, Misused, Exhausted

LEMMA BookInit == Init => Bookkeeping
<1>1. SUFFICES ASSUME Init PROVE Bookkeeping
  OBVIOUS
<1>2. Vectors = {0} /\ entIndexToGen[0] = 0 /\ indexIsAlive[0] = FALSE
  BY <1>1 DEF Init, Vectors
<1>3. issued = {} /\ living = {} /\ DOMAIN calls = {} /\ DOMAIN freeEntityIndexes = {}
  BY <1>1 DEF Init
<1>4. GensGrow /\ QueueIsDead /\ NullApart /\ FramesAlive /\ FramesValid
  BY <1>2, <1>3 DEF GensGrow, QueueIsDead, NullApart, FramesAlive, FramesValid, Alive
<1>5. LivingExact
  BY <1>2, <1>3 DEF LivingExact, Alive
<1>6. GensFit
  BY <1>2, SpanAssumption DEF GensFit
<1>. QED  BY <1>4, <1>5, <1>6 DEF Bookkeeping

\* The frames of Destroy on the new stack are on the old one, d places away.
FramesFrom(d) ==
  \A n \in DOMAIN calls' :
    calls'[n].op = "Destroy" => n + d \in DOMAIN calls /\ calls'[n] = calls[n + d]

\* Steps that change no index and no id, and begin no call of Destroy.
LEMMA BookUnchanged ==
  ASSUME TypeOK, TypeOK', Bookkeeping, taint \subseteq taint',
         UNCHANGED <<entIndexToGen, freeEntityIndexes, indexIsAlive, issued, living>>,
         NEW d \in Int, FramesFrom(d)
  PROVE  Bookkeeping'
<1>1. Vectors' = Vectors /\ (\A i : Alive(i)' = Alive(i)) /\ (\A e : Valid(e)' = Valid(e))
  BY DEF Vectors, Alive, Valid
<1>2. GensGrow'
  BY TaintGrows, <1>1 DEF GensGrow, Bookkeeping
<1>3. ASSUME Sound' PROVE QueueIsDead' /\ NullApart' /\ FramesAlive'
  <2>1. QueueIsDead /\ NullApart /\ FramesAlive
    BY <1>3, TaintGrows DEF Bookkeeping
  <2>2. QueueIsDead' /\ NullApart'
    BY <2>1, <1>1 DEF QueueIsDead, NullApart
  <2>3. \A n \in DOMAIN calls' : n \in Int
    BY DEF TypeOK
  <2>4. \A n \in DOMAIN calls' :
          calls'[n].op = "Destroy" => Alive(IdIndex(calls'[n].id))
    BY <2>1 DEF FramesAlive, FramesFrom
  <2>5. ASSUME NEW m \in DOMAIN calls', NEW n \in DOMAIN calls',
               calls'[m].op = "Destroy", calls'[n].op = "Destroy",
               IdIndex(calls'[m].id) = IdIndex(calls'[n].id)
        PROVE  m = n
    <3>1. /\ m + d \in DOMAIN calls /\ calls'[m] = calls[m + d]
          /\ n + d \in DOMAIN calls /\ calls'[n] = calls[n + d]
      BY <2>5 DEF FramesFrom
    <3>2. m + d = n + d
      BY <2>1, <2>5, <3>1 DEF FramesAlive
    <3>3. m \in Int /\ n \in Int
      BY <2>3, <2>5
    <3>. QED  BY <3>2, <3>3
  <2>6. FramesAlive'
    BY <1>1, <2>4, <2>5 DEF FramesAlive
  <2>. QED  BY <2>2, <2>6
<1>4. ASSUME ~Misused', ~Exhausted'
      PROVE  LivingExact' /\ GensFit' /\ FramesValid'
  <2>1. LivingExact /\ GensFit /\ FramesValid
    BY <1>4, TaintGrows DEF Bookkeeping
  <2>2. LivingExact' /\ GensFit'
    BY <2>1, <1>1 DEF LivingExact, GensFit
  <2>3. FramesValid'
    BY <2>1, <1>1 DEF FramesValid, FramesFrom
  <2>. QED  BY <2>2, <2>3
<1>. QED  BY <1>2, <1>3, <1>4 DEF Bookkeeping

\* A call of Destroy is begun for an entity that lives, and is not already
\* being destroyed.
LEMMA BookEmits ==
  ASSUME TypeOK, TypeOK', Bookkeeping, NEW e \in RawIds,
         NEW s \in Seq(DestroyFrame \cup DestroyAllFrame),
         \A n \in DOMAIN s :
           s[n].op = "Destroy" => n \in DOMAIN calls /\ s[n] = calls[n],
         Sound' => Alive(IdIndex(e)),
         ~Misused' /\ ~Exhausted' => Valid(e),
         Emits(e, s)
  PROVE  Bookkeeping'
<1> DEFINE f == [op |-> "Destroy", id |-> e]
<1>1. /\ UNCHANGED <<entIndexToGen, freeEntityIndexes, indexIsAlive, issued, living>>
      /\ taint \subseteq taint'
      /\ Destroying(IdIndex(e)) => "reentered" \in taint'
      /\ calls' = <<f>> \o s
  BY DEF Emits, Taint, state
<1>2. Vectors' = Vectors /\ (\A i : Alive(i)' = Alive(i)) /\ (\A g : Valid(g)' = Valid(g))
  BY <1>1 DEF Vectors, Alive, Valid
<1>3. f.op = "Destroy" /\ f.id = e /\ f \in DestroyFrame \cup DestroyAllFrame
  BY DEF DestroyFrame
<1>. HIDE DEF f
<1>4. \A n \in DOMAIN calls' :
        calls'[n].op = "Destroy" =>
          \/ n = 1 /\ calls'[n].id = e
          \/ n # 1 /\ n - 1 \in DOMAIN calls /\ calls'[n] = calls[n - 1]
  BY <1>1, <1>3, Pushed
<1>5. \A n \in DOMAIN calls' : n \in Int
  BY DEF TypeOK
<1>6. GensGrow'
  BY <1>1, <1>2, TaintGrows DEF GensGrow, Bookkeeping
<1>7. ASSUME Sound' PROVE QueueIsDead' /\ NullApart' /\ FramesAlive'
  <2>1. QueueIsDead /\ NullApart /\ FramesAlive
    BY <1>1, <1>7, TaintGrows DEF Bookkeeping
  <2>2. QueueIsDead' /\ NullApart'
    BY <2>1, <1>1, <1>2 DEF QueueIsDead, NullApart
  <2>3. ~Destroying(IdIndex(e))
    BY <1>1, <1>7 DEF Sound, Misused
  <2>4. \A n \in DOMAIN calls' :
          calls'[n].op = "Destroy" => Alive(IdIndex(calls'[n].id))
    BY <1>4, <1>7, <2>1 DEF FramesAlive
  <2>5. ASSUME NEW m \in DOMAIN calls', NEW n \in DOMAIN calls',
               calls'[m].op = "Destroy", calls'[n].op = "Destroy",
               IdIndex(calls'[m].id) = IdIndex(calls'[n].id)
        PROVE  m = n
    <3>1. CASE m = 1 /\ n = 1
      BY <3>1
    <3>2. CASE m # 1 /\ n # 1
      BY <1>4, <1>5, <2>1, <2>5, <3>2 DEF FramesAlive
    <3>3. CASE m = 1 /\ n # 1
      <4>1. calls'[m].id = e
        BY <1>4, <2>5, <3>3
      <4>2. n - 1 \in DOMAIN calls /\ calls'[n] = calls[n - 1]
        BY <1>4, <2>5, <3>3
      <4>. QED  BY <2>3, <2>5, <4>1, <4>2 DEF Destroying
    <3>4. CASE m # 1 /\ n = 1
      <4>1. calls'[n].id = e
        BY <1>4, <2>5, <3>4
      <4>2. m - 1 \in DOMAIN calls /\ calls'[m] = calls[m - 1]
        BY <1>4, <2>5, <3>4
      <4>. QED  BY <2>3, <2>5, <4>1, <4>2 DEF Destroying
    <3>. QED  BY <3>1, <3>2, <3>3, <3>4
  <2>6. FramesAlive'
    BY <1>2, <2>4, <2>5 DEF FramesAlive
  <2>. QED  BY <2>2, <2>6
<1>8. ASSUME ~Misused', ~Exhausted'
      PROVE  LivingExact' /\ GensFit' /\ FramesValid'
  <2>1. LivingExact /\ GensFit /\ FramesValid
    BY <1>1, <1>8, TaintGrows DEF Bookkeeping
  <2>2. LivingExact' /\ GensFit'
    BY <2>1, <1>1, <1>2 DEF LivingExact, GensFit
  <2>3. FramesValid'
    BY <2>1, <1>2, <1>4, <1>8 DEF FramesValid
  <2>. QED  BY <2>2, <2>3
<1>. QED  BY <1>6, <1>7, <1>8 DEF Bookkeeping

\* Indexes are told apart by the ids made of them.
LEMMA PackInjective ==
  ASSUME NEW i \in Indexes, NEW j \in Indexes, NEW g \in Nat, NEW h \in Nat,
         Pack(i, g) = Pack(j, h)
  PROVE  i = j
  BY PackedParts

LEMMA BookFinish == TypeOK /\ TypeOK' /\ Bookkeeping /\ FinishDestroy => Bookkeeping'
<1>1. SUFFICES ASSUME TypeOK, TypeOK', Bookkeeping, FinishDestroy PROVE Bookkeeping'
  OBVIOUS
<1> DEFINE e == Head(calls).id
           i == IdIndex(e)
           gen == entIndexToGen[i]
<1>2. calls # << >> /\ Head(calls).op = "Destroy"
  BY <1>1, FramesPopped DEF FinishDestroy, ClientRuns, InLoop, DestroyFrame, DestroyAllFrame
<1>3. e \in RawIds /\ i \in Vectors /\ gen \in Generations
  BY <1>1, <1>2, FramesPopped, VectorFacts
<1>4. /\ entIndexToGen' = [entIndexToGen EXCEPT ![i] = GenAfter(i)]
      /\ indexIsAlive' = [indexIsAlive EXCEPT ![i] = FALSE]
      /\ freeEntityIndexes' = Append(freeEntityIndexes, i)
      /\ living' = living \ {e}
      /\ taint' = taint \cup Exhaustion(gen)
      /\ calls' = Tail(calls)
      /\ issued' = issued
  BY <1>1 DEF FinishDestroy, QueueWith, Taint
<1>5. /\ 1 \in DOMAIN calls
      /\ Head(calls) = calls[1]
      /\ \A n \in DOMAIN calls' :
           n \in Int /\ n + 1 \in DOMAIN calls /\ n + 1 # 1 /\ calls'[n] = calls[n + 1]
  BY <1>1, <1>2, <1>4, Popped DEF TypeOK
<1>6. calls[1].op = "Destroy" /\ calls[1].id = e
  BY <1>2, <1>5
<1>7. Vectors' = Vectors /\ taint \subseteq taint'
  BY <1>1, <1>4, TypeFinish
<1>8. /\ \A k \in Vectors : Alive(k)' <=> k # i /\ Alive(k)
      /\ \A k \in Vectors : k # i => entIndexToGen'[k] = entIndexToGen[k]
      /\ entIndexToGen'[i] = GenAfter(i)
  <2>. HIDE DEF e, i, gen
  <2>1. i \in DOMAIN entIndexToGen /\ i \in DOMAIN indexIsAlive
        /\ DOMAIN indexIsAlive = Vectors /\ DOMAIN entIndexToGen = Vectors
    BY <1>1, <1>3, VectorFacts
  <2>. QED  BY <1>4, <2>1, Zenon DEF Alive
<1>9. "wrapped" \notin taint' => GenAfter(i) = gen + 1
  <2>1. "wrapped" \notin taint' => gen + 1 # GenSpan
    BY <1>4 DEF Exhaustion
  <2>. HIDE DEF e, i
  <2>2. gen \in Nat /\ gen < GenSpan
    BY <1>3, SpanAssumption DEF Generations
  <2>3. gen + 1 # GenSpan => gen + 1 \in 0 .. GenSpan - 1
    BY <2>2, SpanAssumption
  <2>4. gen + 1 # GenSpan => (gen + 1) % GenSpan = gen + 1
    BY <2>3, SmallRemainder, SpanAssumption
  <2>. QED  BY <2>1, <2>4 DEF GenAfter
<1>10. ~Exhausted' => GenAfter(i) < IdGenSpan
  <2>1. ~Exhausted' => /\ GenAfter(i) = gen + 1
                       /\ gen + 1 # GenSpan
                       /\ gen + 1 \notin IdGenSpan .. GenSpan - 1
    BY <1>4, <1>9 DEF Exhausted, Exhaustion
  <2>2. gen \in Nat /\ gen < GenSpan
    BY <1>3, SpanAssumption DEF Generations
  <2>. HIDE DEF e, i, gen
  <2>. QED  BY <2>1, <2>2, SpanAssumption
<1>11. GensGrow'
  <2>1. SUFFICES ASSUME "wrapped" \notin taint', NEW f \in issued
                 PROVE  /\ IdGeneration(f) <= entIndexToGen'[IdIndex(f)]
                        /\ \/ Alive(IdIndex(f))'
                           \/ IdGeneration(f) < entIndexToGen'[IdIndex(f)]
    BY <1>4 DEF GensGrow, Alive
  <2>2. f \in RawIds /\ IdIndex(f) \in Vectors
    BY <1>1, <2>1 DEF TypeOK
  <2>3. /\ IdGeneration(f) <= entIndexToGen[IdIndex(f)]
        /\ Alive(IdIndex(f)) \/ IdGeneration(f) < entIndexToGen[IdIndex(f)]
    BY <1>1, <1>7, <2>1 DEF Bookkeeping, GensGrow
  <2>4. IdGeneration(f) \in Nat /\ entIndexToGen[IdIndex(f)] \in Nat
    BY <1>1, <2>2, IdParts, VectorFacts DEF Generations
  <2>5. CASE IdIndex(f) = i
    <3>1. entIndexToGen'[IdIndex(f)] = entIndexToGen[IdIndex(f)] + 1
      BY <1>8, <1>9, <2>1, <2>5
    <3>. QED  BY <2>3, <2>4, <3>1
  <2>6. CASE IdIndex(f) # i
    BY <1>8, <2>2, <2>3, <2>6
  <2>. QED  BY <2>5, <2>6
<1>. HIDE DEF e, i, gen
<1>12. ASSUME Sound' PROVE QueueIsDead' /\ NullApart' /\ FramesAlive'
  <2>1. QueueIsDead /\ NullApart /\ FramesAlive
    BY <1>1, <1>7, <1>12, TaintGrows DEF Bookkeeping
  <2>2. Alive(i) /\ i # 0
    BY <1>5, <1>6, <2>1 DEF FramesAlive, NullApart, i
  <2>3. NullApart'
    BY <1>1, <1>4, <1>8, <2>1, VectorFacts DEF NullApart
  <2>4. \A n \in DOMAIN calls' :
          calls'[n].op = "Destroy" =>
            /\ IdIndex(calls'[n].id) # i
            /\ IdIndex(calls'[n].id) \in Vectors
            /\ Alive(IdIndex(calls'[n].id))
    BY <1>1, <1>5, <1>6, <2>1 DEF FramesAlive, TypeOK, i
  <2>5. ASSUME NEW m \in DOMAIN calls', NEW n \in DOMAIN calls',
               calls'[m].op = "Destroy", calls'[n].op = "Destroy",
               IdIndex(calls'[m].id) = IdIndex(calls'[n].id)
        PROVE  m = n
    <3>1. m + 1 = n + 1
      BY <1>5, <2>1, <2>5 DEF FramesAlive
    <3>2. m \in Int /\ n \in Int
      BY <1>5, <2>5
    <3>. QED  BY <3>1, <3>2
  <2>6. FramesAlive'
    BY <1>8, <2>4, <2>5 DEF FramesAlive
  <2>7. /\ \A n \in DOMAIN freeEntityIndexes' :
             \/ /\ n = Len(freeEntityIndexes) + 1
                /\ freeEntityIndexes'[n] = i
             \/ /\ n \in DOMAIN freeEntityIndexes
                /\ freeEntityIndexes'[n] = freeEntityIndexes[n]
        /\ \A n \in DOMAIN freeEntityIndexes :
             /\ n \in DOMAIN freeEntityIndexes'
             /\ freeEntityIndexes'[n] = freeEntityIndexes[n]
        /\ Len(freeEntityIndexes) + 1 \in DOMAIN freeEntityIndexes'
        /\ freeEntityIndexes'[Len(freeEntityIndexes) + 1] = i
    <3>1. freeEntityIndexes \in Seq(Vectors)
      BY <1>1 DEF TypeOK
    <3>. QED  BY <1>3, <1>4, <3>1, Queued
  <2>8. \A n \in DOMAIN freeEntityIndexes :
          /\ freeEntityIndexes[n] \in Vectors
          /\ freeEntityIndexes[n] # i
          /\ freeEntityIndexes[n] # 0
          /\ ~Alive(freeEntityIndexes[n])
    BY <1>1, <2>1, <2>2 DEF QueueIsDead, TypeOK
  <2>9. \A n \in DOMAIN freeEntityIndexes' :
          freeEntityIndexes'[n] # 0 /\ ~indexIsAlive'[freeEntityIndexes'[n]]
    BY <1>3, <1>8, <2>2, <2>7, <2>8 DEF Alive
  <2>10. \A k \in Vectors \ {0} :
           Alive(k)' \/ \E n \in DOMAIN freeEntityIndexes' : freeEntityIndexes'[n] = k
    BY <1>8, <2>1, <2>7 DEF QueueIsDead
  <2>11. \A m, n \in DOMAIN freeEntityIndexes' :
           freeEntityIndexes'[m] = freeEntityIndexes'[n] => m = n
    BY <2>1, <2>7, <2>8 DEF QueueIsDead
  <2>12. QueueIsDead'
    BY <1>7, <2>9, <2>10, <2>11 DEF QueueIsDead, Alive
  <2>. QED  BY <2>3, <2>6, <2>12
<1>13. ASSUME ~Misused', ~Exhausted'
       PROVE  LivingExact' /\ GensFit' /\ FramesValid'
  <2>1. LivingExact /\ GensFit /\ FramesValid
    BY <1>1, <1>7, <1>13, TaintGrows DEF Bookkeeping
  <2>2. FramesAlive
    BY <1>1, <1>7, <1>13, TaintGrows DEF Bookkeeping, Sound, Exhausted
  <2>3. Valid(e)
    BY <1>5, <1>6, <2>1 DEF FramesValid
  <2>4. e = Pack(i, entIndexToGen[i])
    BY <1>3, <2>3, IdParts DEF Valid, i
  <2>5. GensFit'
    BY <1>7, <1>8, <1>10, <1>13, <2>1 DEF GensFit
  <2>6. FramesValid'
    <3>1. \A n \in DOMAIN calls' :
            calls'[n].op = "Destroy" =>
              /\ IdIndex(calls'[n].id) # i
              /\ IdIndex(calls'[n].id) \in Vectors
              /\ Valid(calls'[n].id)
      BY <1>1, <1>5, <1>6, <2>1, <2>2 DEF FramesAlive, FramesValid, TypeOK, i
    <3>. QED  BY <1>8, <3>1 DEF FramesValid, Valid
  <2>7. \A k \in Vectors : k \in Indexes /\ entIndexToGen[k] \in Nat
    BY <1>1, VectorFacts DEF Generations
  <2>8. \A k \in Vectors : Pack(k, entIndexToGen[k]) = e <=> k = i
    BY <1>3, <2>4, <2>7, PackInjective
  <2>9. living' = {Pack(k, entIndexToGen'[k]) : k \in {j \in Vectors : Alive(j)'}}
    BY <1>4, <1>8, <2>1, <2>8 DEF LivingExact
  <2>. QED  BY <1>7, <2>5, <2>6, <2>9 DEF LivingExact, Alive
<1>. QED  BY <1>11, <1>12, <1>13 DEF Bookkeeping

LEMMA BookRecycle == TypeOK /\ TypeOK' /\ Bookkeeping /\ RecycleEntity => Bookkeeping'
<1>1. SUFFICES ASSUME TypeOK, TypeOK', Bookkeeping, RecycleEntity PROVE Bookkeeping'
  OBVIOUS
<1> DEFINE i == NextIndex
           gen == entIndexToGen[i]
           e == NextId
<1>2. Recycles
  BY <1>1 DEF RecycleEntity
<1>3. /\ i \in Vectors /\ i \in Indexes /\ gen \in Nat
      /\ e \in RawIds /\ IdIndex(e) = i /\ e = Pack(i, gen)
  BY <1>1, <1>2, RecycledFacts, NextFacts, VectorFacts DEF Generations, NextId
<1>4. IdGeneration(e) <= gen /\ IdGeneration(e) \in Nat
  BY <1>3, PackedParts, IdParts DEF Generations
<1>5. /\ indexIsAlive' = [indexIsAlive EXCEPT ![i] = TRUE]
      /\ freeEntityIndexes' = Tail(freeEntityIndexes)
      /\ issued' = issued \cup {e}
      /\ living' = living \cup {e}
      /\ UNCHANGED <<entIndexToGen, calls, taint>>
  BY <1>1 DEF RecycleEntity, QueuePopped, Returns
<1>6. Vectors' = Vectors /\ (\A f : Valid(f)' = Valid(f))
  BY <1>5 DEF Vectors, Valid
<1>7. \A k \in Vectors : Alive(k)' <=> k = i \/ Alive(k)
  <2>. HIDE DEF i
  <2>1. i \in DOMAIN indexIsAlive /\ DOMAIN indexIsAlive = Vectors
    BY <1>1, <1>3, VectorFacts
  <2>. QED  BY <1>5, <2>1, Zenon DEF Alive
<1>8. /\ i = freeEntityIndexes[1]
      /\ 1 \in DOMAIN freeEntityIndexes
      /\ \A n \in DOMAIN freeEntityIndexes' :
           /\ n \in Int /\ n + 1 \in DOMAIN freeEntityIndexes /\ n + 1 # 1
           /\ freeEntityIndexes'[n] = freeEntityIndexes[n + 1]
      /\ \A n \in DOMAIN freeEntityIndexes :
           \/ n = 1
           \/ /\ n - 1 \in DOMAIN freeEntityIndexes'
              /\ freeEntityIndexes'[n - 1] = freeEntityIndexes[n]
  <2>1. freeEntityIndexes \in Seq(Vectors) /\ freeEntityIndexes # << >>
    BY <1>1, <1>2, NextFacts DEF TypeOK
  <2>2. i = Head(freeEntityIndexes)
    BY <1>2 DEF NextIndex
  <2>. QED  BY <1>5, <2>1, <2>2, Popped
<1>. HIDE DEF i, e, gen
<1>9. GensGrow'
  <2>1. SUFFICES ASSUME "wrapped" \notin taint, NEW f \in issued'
                 PROVE  /\ IdGeneration(f) <= entIndexToGen'[IdIndex(f)]
                        /\ \/ Alive(IdIndex(f))'
                           \/ IdGeneration(f) < entIndexToGen'[IdIndex(f)]
    BY <1>5 DEF GensGrow, Alive
  <2>2. CASE f = e
    BY <1>3, <1>4, <1>5, <1>7, <2>2 DEF gen
  <2>3. CASE f \in issued
    <3>1. IdIndex(f) \in Vectors
      BY <1>1, <2>3 DEF TypeOK
    <3>2. /\ IdGeneration(f) <= entIndexToGen[IdIndex(f)]
          /\ Alive(IdIndex(f)) \/ IdGeneration(f) < entIndexToGen[IdIndex(f)]
      BY <1>1, <2>1, <2>3 DEF Bookkeeping, GensGrow
    <3>. QED  BY <1>5, <1>7, <3>1, <3>2
  <2>. QED  BY <1>5, <2>1, <2>2, <2>3
<1>10. ASSUME Sound' PROVE QueueIsDead' /\ NullApart' /\ FramesAlive'
  <2>1. QueueIsDead /\ NullApart /\ FramesAlive
    BY <1>1, <1>5, <1>10, TaintGrows DEF Bookkeeping
  <2>2. i # 0
    BY <1>8, <2>1 DEF QueueIsDead
  <2>3. NullApart'
    BY <1>1, <1>3, <1>5, <1>7, <2>1, <2>2, VectorFacts DEF NullApart
  <2>4. FramesAlive'
    <3>1. \A n \in DOMAIN calls :
            calls[n].op = "Destroy" => /\ IdIndex(calls[n].id) \in Vectors
                                       /\ Alive(IdIndex(calls[n].id))
      BY <1>1, <2>1 DEF FramesAlive, TypeOK
    <3>2. \A n \in DOMAIN calls :
            calls[n].op = "Destroy" => indexIsAlive'[IdIndex(calls[n].id)]
      BY <1>7, <3>1 DEF Alive
    <3>. QED  BY <1>5, <2>1, <3>2 DEF FramesAlive, Alive
  <2>5. \A n \in DOMAIN freeEntityIndexes :
          /\ freeEntityIndexes[n] \in Vectors
          /\ freeEntityIndexes[n] # 0
          /\ ~Alive(freeEntityIndexes[n])
          /\ n # 1 => freeEntityIndexes[n] # i
    BY <1>1, <1>8, <2>1 DEF QueueIsDead, TypeOK
  <2>6. \A n \in DOMAIN freeEntityIndexes' :
          freeEntityIndexes'[n] # 0 /\ ~indexIsAlive'[freeEntityIndexes'[n]]
    BY <1>7, <1>8, <2>5 DEF Alive
  <2>7. \A k \in Vectors \ {0} :
          Alive(k)' \/ \E n \in DOMAIN freeEntityIndexes' : freeEntityIndexes'[n] = k
    <3>1. SUFFICES ASSUME NEW k \in Vectors \ {0}, k # i, ~Alive(k)
                   PROVE  \E n \in DOMAIN freeEntityIndexes' : freeEntityIndexes'[n] = k
      BY <1>7
    <3>2. PICK n \in DOMAIN freeEntityIndexes : freeEntityIndexes[n] = k
      BY <2>1, <3>1 DEF QueueIsDead
    <3>3. n # 1
      BY <1>8, <3>1, <3>2
    <3>. QED  BY <1>8, <3>2, <3>3
  <2>8. ASSUME NEW m \in DOMAIN freeEntityIndexes',
               NEW n \in DOMAIN freeEntityIndexes',
               freeEntityIndexes'[m] = freeEntityIndexes'[n]
        PROVE  m = n
    <3>1. m + 1 = n + 1
      BY <1>8, <2>1, <2>8 DEF QueueIsDead
    <3>2. m \in Int /\ n \in Int
      BY <1>8, <2>8
    <3>. QED  BY <3>1, <3>2
  <2>9. QueueIsDead'
    BY <1>6, <2>6, <2>7, <2>8 DEF QueueIsDead, Alive
  <2>. QED  BY <2>3, <2>4, <2>9
<1>11. ASSUME ~Misused', ~Exhausted'
       PROVE  LivingExact' /\ GensFit' /\ FramesValid'
  <2>1. LivingExact /\ GensFit /\ FramesValid
    BY <1>1, <1>5, <1>11, TaintGrows DEF Bookkeeping
  <2>2. GensFit' /\ FramesValid'
    BY <1>5, <1>6, <2>1 DEF GensFit, FramesValid
  <2>3. living' = {Pack(k, entIndexToGen[k]) : k \in {j \in Vectors : Alive(j)'}}
    BY <1>3, <1>5, <1>7, <2>1 DEF LivingExact, gen
  <2>. QED  BY <1>5, <1>6, <2>2, <2>3 DEF LivingExact, Alive
<1>. QED  BY <1>9, <1>10, <1>11 DEF Bookkeeping

LEMMA BookAppend == TypeOK /\ TypeOK' /\ Bookkeeping /\ AppendEntity => Bookkeeping'
<1>1. SUFFICES ASSUME TypeOK, TypeOK', Bookkeeping, AppendEntity PROVE Bookkeeping'
  OBVIOUS
<1> DEFINE i == VectorSize
           e == NextId
<1>2. /\ Vectors' = Vectors \cup {i}
      /\ i \notin Vectors
      /\ i \in Indexes
      /\ IdIndex(e) = i /\ e = Pack(i, 0) /\ e \in RawIds
      /\ entIndexToGen'[i] = 0
      /\ \A k \in Vectors : entIndexToGen'[k] = entIndexToGen[k]
      /\ indexIsAlive'[i]
      /\ \A k \in Vectors : Alive(k)' <=> Alive(k)
  <2>1. /\ Vectors' = Vectors \cup {i}
        /\ i \notin Vectors
        /\ i \in Indexes
        /\ IdIndex(e) = i /\ e = Pack(i, 0) /\ e \in RawIds
        /\ entIndexToGen'[i] = 0
        /\ \A k \in Vectors : entIndexToGen'[k] = entIndexToGen[k]
    BY <1>1, AppendFacts
  <2>2. /\ indexIsAlive'[i] = TRUE
        /\ \A k \in Vectors : indexIsAlive'[k] = indexIsAlive[k]
    BY <1>1, AppendFacts, Zenon
  <2>. HIDE DEF i, e
  <2>. QED  BY <2>1, <2>2, Zenon DEF Alive
<1>3. IdGeneration(e) <= 0
  BY <1>2, PackedParts
<1>4. /\ issued' = issued \cup {e}
      /\ living' = living \cup {e}
      /\ UNCHANGED <<freeEntityIndexes, calls, taint>>
  BY <1>1 DEF AppendEntity, Returns
<1>5. i # 0 /\ 0 \in Vectors
  BY <1>1, <1>2, VectorFacts
<1>. HIDE DEF i, e
<1>6. /\ \A f \in issued : IdIndex(f) \in Vectors
      /\ \A n \in DOMAIN calls :
           calls[n].op = "Destroy" => IdIndex(calls[n].id) \in Vectors
      /\ \A n \in DOMAIN freeEntityIndexes : freeEntityIndexes[n] \in Vectors
  BY <1>1 DEF TypeOK
<1>7. GensGrow'
  <2>1. SUFFICES ASSUME "wrapped" \notin taint, NEW f \in issued'
                 PROVE  /\ IdGeneration(f) <= entIndexToGen'[IdIndex(f)]
                        /\ \/ Alive(IdIndex(f))'
                           \/ IdGeneration(f) < entIndexToGen'[IdIndex(f)]
    BY <1>4 DEF GensGrow, Alive
  <2>2. CASE f = e
    <3>1. IdIndex(f) = i /\ indexIsAlive'[i] /\ entIndexToGen'[i] = 0 /\ IdGeneration(f) <= 0
      BY <1>2, <1>3, <2>2
    <3>. QED  BY <3>1 DEF Alive
  <2>3. CASE f \in issued
    <3>1. /\ IdGeneration(f) <= entIndexToGen[IdIndex(f)]
          /\ Alive(IdIndex(f)) \/ IdGeneration(f) < entIndexToGen[IdIndex(f)]
      BY <1>1, <2>1, <2>3 DEF Bookkeeping, GensGrow
    <3>. QED  BY <1>2, <1>6, <2>3, <3>1
  <2>. QED  BY <1>4, <2>1, <2>2, <2>3
<1>8. ASSUME Sound' PROVE QueueIsDead' /\ NullApart' /\ FramesAlive'
  <2>1. QueueIsDead /\ NullApart /\ FramesAlive
    BY <1>1, <1>4, <1>8, TaintGrows DEF Bookkeeping
  <2>2. NullApart'
    BY <1>2, <1>4, <1>5, <2>1 DEF NullApart
  <2>3. \A n \in DOMAIN calls :
          calls[n].op = "Destroy" => indexIsAlive'[IdIndex(calls[n].id)]
    BY <1>2, <1>6, <2>1 DEF FramesAlive, Alive
  <2>4. FramesAlive'
    BY <1>4, <2>1, <2>3 DEF FramesAlive, Alive
  <2>5. \A n \in DOMAIN freeEntityIndexes : ~indexIsAlive'[freeEntityIndexes[n]]
    BY <1>2, <1>6, <2>1 DEF QueueIsDead, Alive
  <2>6. \A k \in Vectors' \ {0} :
          indexIsAlive'[k] \/ \E n \in DOMAIN freeEntityIndexes : freeEntityIndexes[n] = k
    <3>1. \A k \in Vectors' \ {0} : k = i \/ k \in Vectors \ {0}
      BY <1>2
    <3>2. \A k \in Vectors \ {0} :
            Alive(k) \/ \E n \in DOMAIN freeEntityIndexes : freeEntityIndexes[n] = k
      BY <2>1 DEF QueueIsDead
    <3>. QED  BY <1>2, <3>1, <3>2, Zenon DEF Alive
  <2>7. QueueIsDead'
    BY <1>4, <2>1, <2>5, <2>6 DEF QueueIsDead, Alive
  <2>. QED  BY <2>2, <2>4, <2>7
<1>9. ASSUME ~Misused', ~Exhausted'
      PROVE  LivingExact' /\ GensFit' /\ FramesValid'
  <2>1. LivingExact /\ GensFit /\ FramesValid
    BY <1>1, <1>4, <1>9, TaintGrows DEF Bookkeeping
  <2>2. GensFit'
    BY <1>2, <2>1, SpanAssumption DEF GensFit
  <2>3. FramesValid'
    BY <1>2, <1>4, <1>6, <2>1 DEF FramesValid, Valid
  <2>4. living' = {Pack(k, entIndexToGen'[k]) : k \in {j \in Vectors' : Alive(j)'}}
    <3>1. \A k : k \in Vectors' /\ Alive(k)' <=> k = i \/ (k \in Vectors /\ Alive(k))
      BY <1>2, Zenon DEF Alive
    <3>2. /\ Pack(i, entIndexToGen'[i]) = e
          /\ \A k \in Vectors :
               Pack(k, entIndexToGen'[k]) = Pack(k, entIndexToGen[k])
      BY <1>2
    <3>. QED  BY <1>4, <2>1, <3>1, <3>2 DEF LivingExact
  <2>. QED  BY <2>2, <2>3, <2>4 DEF LivingExact, Alive
<1>. QED  BY <1>7, <1>8, <1>9 DEF Bookkeeping

LEMMA BookNext == TypeOK /\ Bookkeeping /\ [Next]_vars => Bookkeeping'
<1>1. SUFFICES ASSUME TypeOK, Bookkeeping, [Next]_vars PROVE Bookkeeping'
  OBVIOUS
<1>2. TypeOK'
  BY <1>1, TypeInvNext
<1>3. ASSUME UNCHANGED <<entIndexToGen, freeEntityIndexes, indexIsAlive, issued,
                         living>>,
             taint \subseteq taint', calls' = calls
      PROVE  Bookkeeping'
  <2>1. FramesFrom(0)
    BY <1>1, <1>3 DEF FramesFrom, TypeOK
  <2>. QED  BY <1>1, <1>2, <1>3, <2>1, BookUnchanged
<1>4. CASE \/ NewEntityTraps
           \/ \E e \in Known, c \in CompTypes : Assign(e, c) \/ RemoveComponent(e, c)
           \/ \E e \in Known : RemoveAllComponents(e) \/ Subscribe(e)
           \/ \E e \in Known : DestroyTraps(e)
           \/ UNCHANGED vars
  BY <1>3, <1>4 DEF NewEntityTraps, Trap, Assign, RemoveComponent,
     RemoveAllComponents, Subscribe, DestroyTraps, Taint, vars, state
<1>5. ASSUME NEW e \in Known, Destroy(e) PROVE Bookkeeping'
  <2>1. e \in RawIds /\ Valid(e) /\ (NDEBUG \/ Alive(IdIndex(e))) /\ Emits(e, calls)
    BY <1>1, <1>5, KnownFacts DEF Destroy
  <2>2. calls \in Seq(DestroyFrame \cup DestroyAllFrame)
    BY <1>1 DEF TypeOK
  <2>3. IdIndex(e) = 0 => "nullDestroyed" \in taint'
    BY <2>1 DEF Emits, Taint, NullDestroyed
  <2>4. ASSUME Sound' PROVE Alive(IdIndex(e))
    <3>1. CASE ~NDEBUG
      BY <2>1, <3>1
    <3>2. CASE NDEBUG
      <4>1. "wrapped" \notin taint /\ IdIndex(e) # 0
        BY <2>1, <2>3, <2>4, <3>2 DEF Sound, Misused, Emits, Taint
      <4>2. IdIndex(NULL_ID) = 0
        BY SmallRemainder, SpanAssumption DEF IdIndex, NULL_ID
      <4>3. e \in issued
        BY <1>5, <4>1, <4>2 DEF Known
      <4>4. \/ Alive(IdIndex(e))
            \/ IdGeneration(e) < entIndexToGen[IdIndex(e)]
        BY <1>1, <4>1, <4>3 DEF Bookkeeping, GensGrow
      <4>5. IdGeneration(e) \in Nat
        BY <2>1, IdParts DEF Generations
      <4>. QED  BY <2>1, <4>4, <4>5 DEF Valid
    <3>. QED  BY <3>1, <3>2, ManagerAssumption
  <2>. QED  BY <1>1, <1>2, <2>1, <2>2, <2>4, BookEmits
<1>6. CASE DestroyIndex
  <2>1. /\ InLoop /\ LoopIndex < VectorSize
        /\ Alive(LoopIndex) /\ Valid(LoopId) /\ Emits(LoopId, Advanced)
    BY <1>6 DEF DestroyIndex
  <2>2. LoopId \in RawIds /\ IdIndex(LoopId) = LoopIndex
    BY <1>1, <2>1, LoopFacts
  <2>3. /\ Advanced \in Seq(DestroyFrame \cup DestroyAllFrame)
        /\ \A n \in DOMAIN Advanced :
             Advanced[n].op = "Destroy" =>
               n \in DOMAIN calls /\ Advanced[n] = calls[n]
    BY <1>1, <2>1, FramesAdvanced
  <2>. QED  BY <1>1, <1>2, <2>1, <2>2, <2>3, BookEmits
<1>7. CASE Unwinds
  <2>1. PICK d \in {1, 2} : FramesFrom(d)
    BY <1>1, <1>7, FramesThrown DEF FramesFrom
  <2>. QED  BY <1>1, <1>2, <1>7, <2>1, BookUnchanged DEF Unwinds
<1>8. CASE DestroyAll
  <2>1. FramesFrom(-1)
    <3>1. \A n \in DOMAIN calls' :
            calls'[n].op = "Destroy" =>
              n - 1 \in DOMAIN calls /\ calls'[n] = calls[n - 1]
      BY <1>1, <1>8, FramesOfDestroyAll
    <3>2. \A n \in DOMAIN calls' : n + (-1) = n - 1
      BY <1>2 DEF TypeOK
    <3>. QED  BY <3>1, <3>2 DEF FramesFrom
  <2>. QED  BY <1>1, <1>2, <1>8, <2>1, BookUnchanged DEF DestroyAll, state
<1>9. CASE SkipIndex
  <2>1. FramesFrom(0)
    <3>1. calls' = Advanced /\ InLoop
      BY <1>9 DEF SkipIndex
    <3>2. \A n \in DOMAIN calls' : n + 0 = n
      BY <1>2 DEF TypeOK
    <3>. QED  BY <1>1, <3>1, <3>2, FramesAdvanced DEF FramesFrom
  <2>. QED  BY <1>1, <1>2, <1>9, <2>1, BookUnchanged DEF SkipIndex, state
<1>10. CASE DestroyIndexThrows \/ DestroyAllReturns
  <2>1. calls' = Tail(calls) /\ calls # << >>
    BY <1>10 DEF DestroyIndexThrows, DestroyAllReturns, InLoop
  <2>2. FramesFrom(1)
    BY <1>1, <2>1, Popped DEF FramesFrom, TypeOK
  <2>. QED
    BY <1>1, <1>2, <1>10, <2>2, BookUnchanged
       DEF DestroyIndexThrows, DestroyAllReturns, state
<1>. QED
  BY <1>1, <1>2, <1>4, <1>5, <1>6, <1>7, <1>8, <1>9, <1>10,
     BookFinish, BookRecycle, BookAppend DEF Next, CallbackThrows, RemovalThrows

-----------------------------------------------------------------------------
(* What the bookkeeping promises the callers. *)

(***************************************************************************)
(* The bookkeeping is right in every reachable state.                      *)
(***************************************************************************)
THEOREM BookkeepingKept == Spec => []Bookkeeping
<1>1. Init => Bookkeeping
  BY BookInit
<1>2. TypeOK /\ Bookkeeping /\ [Next]_vars => Bookkeeping'
  BY BookNext
<1>. QED  BY <1>1, <1>2, TypeCorrect, PTL DEF Spec

LEMMA QueueAccounts == TypeOK /\ Bookkeeping => IndexesAccountedFor
<1>1. SUFFICES ASSUME TypeOK, Bookkeeping, Sound PROVE
        /\ {freeEntityIndexes[n] : n \in DOMAIN freeEntityIndexes}
             = {i \in Vectors \ {0} : ~Alive(i)}
        /\ \A m, n \in DOMAIN freeEntityIndexes :
             freeEntityIndexes[m] = freeEntityIndexes[n] => m = n
  BY DEF IndexesAccountedFor, Sound
<1>2. QueueIsDead
  BY <1>1 DEF Bookkeeping
<1>3. \A n \in DOMAIN freeEntityIndexes : freeEntityIndexes[n] \in Vectors
  BY <1>1 DEF TypeOK
<1>. QED  BY <1>2, <1>3 DEF QueueIsDead

(***************************************************************************)
(* Destroy and NewEntity lose no index and hand none out twice.            *)
(***************************************************************************)
THEOREM IndexesNeverLost == Spec => []IndexesAccountedFor
<1>. QED  BY QueueAccounts, TypeCorrect, BookkeepingKept, PTL

LEMMA LivingAreTheValid == TypeOK /\ Bookkeeping => ValidIffLiving
<1>1. SUFFICES ASSUME TypeOK, Bookkeeping, ~Misused, ~Exhausted, NEW e \in issued
               PROVE  Valid(e) <=> e \in living
  BY DEF ValidIffLiving
<1> DEFINE i == IdIndex(e)
<1>2. /\ LivingExact /\ GensFit
      /\ "wrapped" \notin taint
  BY <1>1 DEF Bookkeeping, Exhausted
<1>3. e \in RawIds /\ i \in Vectors
  BY <1>1 DEF TypeOK
<1>4. e = Pack(i, IdGeneration(e)) /\ IdGeneration(e) \in Nat
  BY <1>3, IdParts DEF Generations
<1>5. Alive(i) \/ IdGeneration(e) < entIndexToGen[i]
  BY <1>1, <1>2 DEF Bookkeeping, GensGrow
<1>6. ASSUME Valid(e) PROVE e \in living
  <2>1. IdGeneration(e) = entIndexToGen[i]
    BY <1>6 DEF Valid
  <2>2. Alive(i)
    BY <1>4, <1>5, <2>1
  <2>. QED  BY <1>2, <1>3, <1>4, <2>1, <2>2 DEF LivingExact
<1>7. ASSUME e \in living PROVE Valid(e)
  <2>1. PICK k \in Vectors : Alive(k) /\ e = Pack(k, entIndexToGen[k])
    BY <1>2, <1>7 DEF LivingExact
  <2>2. k \in Indexes /\ entIndexToGen[k] \in 0 .. IdGenSpan - 1
    BY <1>1, <1>2, VectorFacts, SpanAssumption DEF GensFit, Generations
  <2>. QED  BY <2>1, <2>2, PackRoundTrips DEF Valid, RoundTrips
<1>. QED  BY <1>6, <1>7

(***************************************************************************)
(* Valid tells the entities of the system from those that have been.       *)
(***************************************************************************)
THEOREM ValidTellsLiving == Spec => []ValidIffLiving
<1>. QED  BY LivingAreTheValid, TypeCorrect, BookkeepingKept, PTL

LEMMA NewIdFresh == TypeOK /\ Bookkeeping => NextIdIsNew
<1>1. SUFFICES ASSUME TypeOK, Bookkeeping, ~Misused, ~Exhausted, NextId \in issued
               PROVE  FALSE
  BY DEF NextIdIsNew
<1>2. /\ QueueIsDead /\ NullApart /\ GensFit
      /\ "wrapped" \notin taint
  BY <1>1 DEF Bookkeeping, Sound, Exhausted
<1>3. CASE Recycles
  <2>1. NextIndex \in Vectors /\ NextIndex \in Indexes /\ IdIndex(NextId) = NextIndex
    BY <1>1, <1>3, RecycledFacts
  <2>2. NextGen = entIndexToGen[NextIndex] /\ entIndexToGen[NextIndex] \in 0 .. IdGenSpan - 1
    BY <1>1, <1>2, <1>3, <2>1, NextFacts, VectorFacts, SpanAssumption
       DEF GensFit, Generations
  <2>3. IdGeneration(NextId) = entIndexToGen[NextIndex]
    BY <2>1, <2>2, PackRoundTrips DEF NextId
  <2>4. ~Alive(NextIndex)
    <3>1. 1 \in DOMAIN freeEntityIndexes /\ NextIndex = freeEntityIndexes[1]
      BY <1>1, <1>3, NextFacts, Popped DEF TypeOK, NextIndex
    <3>. QED  BY <1>2, <3>1 DEF QueueIsDead
  <2>5. IdGeneration(NextId) < entIndexToGen[NextIndex]
    BY <1>1, <1>2, <2>1, <2>4 DEF Bookkeeping, GensGrow
  <2>. QED  BY <2>2, <2>3, <2>5
<1>4. CASE ~Recycles
  <2>1. NextIndex = VectorSize /\ VectorSize \in Nat /\ VectorSize <= IndexSpan
    BY <1>1, <1>4, NextFacts, VectorFacts, ManagerAssumption, SpanAssumption
  <2>2. CASE VectorSize < IndexSpan
    <3>1. IdIndex(NextId) = VectorSize
      BY <1>1, <2>1, <2>2, NextFacts
    <3>2. VectorSize \notin Vectors
      BY <1>1, VectorFacts
    <3>. QED  BY <1>1, <3>1, <3>2 DEF TypeOK
  <2>3. CASE VectorSize = IndexSpan
    <3>1. NextId = Pack(IndexSpan, 0)
      BY <1>1, <1>4, <2>1, <2>3, NextFacts DEF NextId
    <3>2. IndexSpan % IndexSpan = 0 /\ 0 % IdGenSpan = 0 /\ 0 % IndexSpan = 0
      <4>1. (1 * IndexSpan + 0) % IndexSpan = 0
        BY DivideSum, SpanAssumption
      <4>2. 1 * IndexSpan + 0 = IndexSpan
        BY SpanAssumption
      <4>. QED  BY <4>1, <4>2, SmallRemainder, SpanAssumption
    <3>3. NextId = 0 /\ IdIndex(NextId) = 0
      BY <3>1, <3>2, SpanAssumption DEF Pack, IdIndex
    <3>. QED  BY <1>1, <1>2, <3>3 DEF NullApart
  <2>. QED  BY <2>1, <2>2, <2>3, SpanAssumption
<1>. QED  BY <1>3, <1>4

(***************************************************************************)
(* NewEntity never returns an id for the second time, recycled or not.     *)
(***************************************************************************)
THEOREM IdsNeverRepeat == Spec => []NextIdIsNew
<1>. QED  BY NewIdFresh, TypeCorrect, BookkeepingKept, PTL

-----------------------------------------------------------------------------
(* What a destroyed entity leaves behind: signals, components, assertions. *)

LEMMA SignalsNext == NoLeakedSignals /\ [Next]_vars => NoLeakedSignals'
<1>1. SUFFICES ASSUME NoLeakedSignals, [Next]_vars, "deadSubscribe" \notin taint'
               PROVE  entityEventSignals' \subseteq living'
  BY DEF NoLeakedSignals
<1>2. ASSUME taint \subseteq taint', entityEventSignals' = entityEventSignals,
             living \subseteq living'
      PROVE  entityEventSignals' \subseteq living'
  BY <1>1, <1>2 DEF NoLeakedSignals
<1>3. CASE RecycleEntity \/ AppendEntity
  BY <1>2, <1>3 DEF RecycleEntity, AppendEntity, Returns
<1>4. CASE \/ \E e \in Known, c \in CompTypes : Assign(e, c) \/ RemoveComponent(e, c)
           \/ \E e \in Known : RemoveAllComponents(e)
           \/ UNCHANGED vars
  BY <1>2, <1>4 DEF Assign, RemoveComponent, RemoveAllComponents, Taint, vars, state
<1>5. ASSUME NEW e \in Known, Subscribe(e)
      PROVE  entityEventSignals' \subseteq living'
  <2>1. /\ entityEventSignals' = entityEventSignals \cup {e}
        /\ living' = living
        /\ taint' = taint \cup (IF e \in living THEN {} ELSE {"deadSubscribe"})
    BY <1>5 DEF Subscribe, Taint
  <2>2. e \in living /\ "deadSubscribe" \notin taint
    BY <1>1, <2>1
  <2>. QED  BY <1>1, <2>1, <2>2 DEF NoLeakedSignals
<1>6. CASE FinishDestroy
  <2>1. PICK e : /\ entityEventSignals' = entityEventSignals \ {e}
                 /\ living' = living \ {e}
                 /\ taint \subseteq taint'
    BY <1>6 DEF FinishDestroy, SignalsWithout, Taint
  <2>. QED  BY <1>1, <2>1 DEF NoLeakedSignals
<1>7. CASE \/ NewEntityTraps
           \/ \E e \in Known : Destroy(e) \/ DestroyTraps(e)
           \/ CallbackThrows \/ DestroyAll
           \/ SkipIndex \/ DestroyIndex \/ DestroyIndexThrows \/ DestroyAllReturns
  BY <1>2, <1>7 DEF NewEntityTraps, Trap, Destroy, DestroyTraps, CallbackThrows,
     Unwinds, DestroyAll, SkipIndex, DestroyIndex, DestroyIndexThrows,
     DestroyAllReturns, Emits, Taint, state
<1>8. CASE RemovalThrows
  BY <1>1, <1>8 DEF RemovalThrows, Unwinds, SignalsWithout, NoLeakedSignals
<1>. QED  BY <1>1, <1>3, <1>4, <1>5, <1>6, <1>7, <1>8 DEF Next

(***************************************************************************)
(* Destroy leaves no entry in the map of signals, whatever the callbacks   *)
(* of the destruction subscribe to, as long as it is to a living entity.   *)
(***************************************************************************)
THEOREM SignalsNeverLeak == Spec => []NoLeakedSignals
<1>1. Init => NoLeakedSignals
  BY DEF Init, NoLeakedSignals
<1>. QED  BY <1>1, SignalsNext, PTL DEF Spec

\* An index that is not alive has no components left on it.
DeadAreBare ==
  "deadAssign" \notin taint => \A i \in Vectors : Alive(i) \/ entCompMasks[i] = {}

LEMMA BareNext == TypeOK /\ DeadAreBare /\ [Next]_vars => DeadAreBare'
<1>1. SUFFICES ASSUME TypeOK, DeadAreBare, [Next]_vars, "deadAssign" \notin taint',
                      NEW i \in Vectors'
               PROVE  indexIsAlive'[i] \/ entCompMasks'[i] = {}
  BY DEF DeadAreBare, Alive
<1>2. /\ DOMAIN entIndexToGen = Vectors
      /\ indexIsAlive \in [Vectors -> BOOLEAN]
      /\ entCompMasks \in [Vectors -> SUBSET CompTypes]
  BY <1>1, VectorFacts
<1>3. ASSUME taint \subseteq taint', entIndexToGen' = entIndexToGen,
             \A k \in Vectors : indexIsAlive[k] => indexIsAlive'[k],
             \A k \in Vectors : entCompMasks[k] = {} => entCompMasks'[k] = {}
      PROVE  indexIsAlive'[i] \/ entCompMasks'[i] = {}
  BY <1>1, <1>3 DEF DeadAreBare, Alive, Vectors
<1>4. CASE RecycleEntity
  <2>1. /\ indexIsAlive' = [indexIsAlive EXCEPT ![NextIndex] = TRUE]
        /\ UNCHANGED <<entIndexToGen, entCompMasks, taint>>
    BY <1>4 DEF RecycleEntity, Returns
  <2>2. \A k \in Vectors : indexIsAlive[k] => indexIsAlive'[k]
    BY <1>2, <2>1, Zenon
  <2>. QED  BY <1>3, <2>1, <2>2
<1>5. CASE AppendEntity
  <2>1. i = VectorSize \/ i \in Vectors
    BY <1>1, <1>5, AppendFacts
  <2>2. /\ indexIsAlive'[VectorSize] = TRUE
        /\ i \in Vectors => /\ indexIsAlive'[i] = indexIsAlive[i]
                            /\ entCompMasks'[i] = entCompMasks[i]
    BY <1>1, <1>5, AppendFacts
  <2>3. taint' = taint
    BY <1>5 DEF AppendEntity, Returns
  <2>4. CASE i \in Vectors
    <3>1. indexIsAlive[i] \/ entCompMasks[i] = {}
      BY <1>1, <2>3, <2>4 DEF DeadAreBare, Alive
    <3>. QED  BY <2>2, <2>4, <3>1, Zenon
  <2>5. CASE i = VectorSize
    BY <2>2, <2>5, Zenon
  <2>. QED  BY <2>1, <2>4, <2>5
<1>6. ASSUME NEW e \in Known, NEW c \in CompTypes, Assign(e, c)
      PROVE  indexIsAlive'[i] \/ entCompMasks'[i] = {}
  <2>1. /\ UNCHANGED <<entIndexToGen, indexIsAlive>>
        /\ entCompMasks' = [entCompMasks EXCEPT ![IdIndex(e)] = @ \cup {c}]
        /\ taint' = taint \cup (IF Alive(IdIndex(e)) THEN {} ELSE {"deadAssign"})
    BY <1>6 DEF Assign, Taint
  <2>2. Alive(IdIndex(e)) /\ "deadAssign" \notin taint
    BY <1>1, <2>1
  <2>3. i \in Vectors
    BY <1>1, <2>1 DEF Vectors
  <2>4. CASE i = IdIndex(e)
    BY <2>1, <2>2, <2>4 DEF Alive
  <2>5. CASE i # IdIndex(e)
    BY <1>1, <1>2, <2>1, <2>2, <2>3, <2>5 DEF DeadAreBare, Alive
  <2>. QED  BY <2>4, <2>5
<1>7. CASE \/ \E e \in Known, c \in CompTypes : RemoveComponent(e, c)
           \/ \E e \in Known : RemoveAllComponents(e)
  BY <1>1, <1>2, <1>3, <1>7, KnownFacts
     DEF RemoveComponent, RemoveAllComponents, MasksWithout
<1>8. CASE FinishDestroy
  <2> DEFINE k == IdIndex(Head(calls).id)
  <2>1. /\ entIndexToGen' = [entIndexToGen EXCEPT ![k] = GenAfter(k)]
        /\ indexIsAlive' = [indexIsAlive EXCEPT ![k] = FALSE]
        /\ entCompMasks' = [entCompMasks EXCEPT ![k] = {}]
        /\ taint \subseteq taint'
    BY <1>8 DEF FinishDestroy, MasksWithout, Taint
  <2>2. i \in Vectors
    BY <1>1, <2>1 DEF Vectors
  <2>. HIDE DEF k
  <2>. QED  BY <1>1, <1>2, <2>1, <2>2 DEF DeadAreBare, Alive
<1>9. CASE \/ NewEntityTraps
           \/ \E e \in Known : Subscribe(e) \/ Destroy(e) \/ DestroyTraps(e)
           \/ CallbackThrows \/ DestroyAll
           \/ SkipIndex \/ DestroyIndex \/ DestroyIndexThrows \/ DestroyAllReturns
           \/ UNCHANGED vars
  BY <1>3, <1>9 DEF NewEntityTraps, Trap, Subscribe, Destroy, DestroyTraps,
     CallbackThrows, Unwinds, DestroyAll, SkipIndex, DestroyIndex,
     DestroyIndexThrows, DestroyAllReturns, Emits, Taint, vars, state
<1>10. CASE RemovalThrows
  <2>1. PICK x : \E kept \in SUBSET entCompMasks[x] :
                   entCompMasks' = [entCompMasks EXCEPT ![x] = kept]
    BY <1>10 DEF RemovalThrows
  <2>2. UNCHANGED <<entIndexToGen, indexIsAlive, taint>>
    BY <1>10 DEF RemovalThrows, Unwinds
  <2>3. \A k \in Vectors : entCompMasks[k] = {} => entCompMasks'[k] = {}
    BY <1>2, <2>1
  <2>. QED  BY <1>3, <2>2, <2>3
<1>. QED  BY <1>1, <1>4, <1>5, <1>6, <1>7, <1>8, <1>9, <1>10 DEF Next

LEMMA DeadStayBare == Spec => []DeadAreBare
<1>1. Init => DeadAreBare
  BY DEF Init, DeadAreBare, Vectors, Alive
<1>. QED  BY <1>1, BareNext, TypeCorrect, PTL DEF Spec

LEMMA RecycledIsBare ==
  TypeOK /\ Bookkeeping /\ DeadAreBare => NewEntityIsBare
<1>1. SUFFICES ASSUME TypeOK, Bookkeeping, DeadAreBare, Recycles, ~Misused,
                      ~Exhausted, "deadAssign" \notin taint
               PROVE  entCompMasks[NextIndex] = {} /\ ~Destroying(NextIndex)
  BY DEF NewEntityIsBare
<1>2. QueueIsDead /\ FramesAlive
  BY <1>1 DEF Bookkeeping, Sound, Exhausted
<1>3. 1 \in DOMAIN freeEntityIndexes /\ NextIndex = freeEntityIndexes[1]
  BY <1>1, NextFacts, Popped DEF TypeOK, NextIndex
<1>4. NextIndex \in Vectors /\ ~Alive(NextIndex)
  BY <1>1, <1>2, <1>3, NextFacts DEF QueueIsDead
<1>. QED  BY <1>1, <1>2, <1>4 DEF DeadAreBare, FramesAlive, Destroying

(***************************************************************************)
(* An entity that takes over an index takes over no component with it, and *)
(* no destruction under way that would remove its own.                     *)
(***************************************************************************)
THEOREM NewEntitiesAreBare == Spec => []NewEntityIsBare
<1>. QED  BY RecycledIsBare, TypeCorrect, BookkeepingKept, DeadStayBare, PTL

LEMMA TrapsNext ==
  TypeOK /\ Bookkeeping /\ DeadAreBare /\ NeverTraps /\ [Next]_vars => NeverTraps'
<1>1. SUFFICES ASSUME TypeOK, Bookkeeping, DeadAreBare, NeverTraps, [Next]_vars,
                      taint' = {}
               PROVE  ~trapped'
  BY DEF NeverTraps
<1>2. ASSUME taint \subseteq taint', trapped' = trapped PROVE ~trapped'
  BY <1>1, <1>2 DEF NeverTraps
<1>3. ASSUME NewEntityTraps PROVE FALSE
  <2>1. Recycles /\ ~NewEntityAsserts /\ taint = {}
    BY <1>1, <1>3 DEF NewEntityTraps
  <2>2. ~Misused /\ ~Exhausted
    BY <2>1 DEF Misused, Exhausted
  <2>3. entCompMasks[NextIndex] = {}
    BY <1>1, <2>1, <2>2, RecycledIsBare DEF NewEntityIsBare
  <2>4. NextIndex \in Vectors /\ NextIndex \in Indexes
        /\ NextGen = entIndexToGen[NextIndex]
    BY <1>1, <2>1, RecycledFacts, NextFacts
  <2>5. NextGen \in 0 .. IdGenSpan - 1
    BY <1>1, <2>2, <2>4, VectorFacts, SpanAssumption
       DEF Bookkeeping, GensFit, Generations
  <2>. QED  BY <2>1, <2>3, <2>4, <2>5, PackRoundTrips DEF NewEntityAsserts
<1>4. ASSUME NEW e \in Known, DestroyTraps(e) PROVE FALSE
  <2>1. Valid(e) /\ ~Alive(IdIndex(e)) /\ taint' = taint \cup NullDestroyed(e)
    BY <1>4 DEF DestroyTraps
  <2>2. taint = {} /\ IdIndex(e) # 0
    BY <1>1, <2>1 DEF NullDestroyed
  <2>3. IdIndex(NULL_ID) = 0
    BY SmallRemainder, SpanAssumption DEF IdIndex, NULL_ID
  <2>4. e \in issued
    BY <1>4, <2>2, <2>3 DEF Known
  <2>5. IdGeneration(e) < entIndexToGen[IdIndex(e)]
    BY <1>1, <2>1, <2>2, <2>4 DEF Bookkeeping, GensGrow
  <2>6. IdGeneration(e) \in Nat
    BY <1>1, <1>4, KnownFacts, IdParts DEF Generations
  <2>. QED  BY <2>1, <2>5, <2>6 DEF Valid
<1>5. CASE \/ RecycleEntity \/ AppendEntity
           \/ \E e \in Known, c \in CompTypes : Assign(e, c) \/ RemoveComponent(e, c)
           \/ \E e \in Known : RemoveAllComponents(e) \/ Subscribe(e) \/ Destroy(e)
           \/ FinishDestroy \/ UNCHANGED vars
  BY <1>2, <1>5 DEF RecycleEntity, AppendEntity, Returns, Assign, RemoveComponent,
     RemoveAllComponents, Subscribe, Destroy, Emits, FinishDestroy, Taint, vars
<1>6. CASE \/ Unwinds \/ DestroyAll \/ SkipIndex \/ DestroyIndex
           \/ DestroyIndexThrows \/ DestroyAllReturns
  BY <1>2, <1>6 DEF Unwinds, DestroyAll, SkipIndex, DestroyIndex,
     DestroyIndexThrows, DestroyAllReturns, Emits, Taint
<1>. QED
  BY <1>1, <1>3, <1>4, <1>5, <1>6 DEF Next, CallbackThrows, RemovalThrows

(***************************************************************************)
(* No assertion of NewEntity or Destroy fails for a client that destroys   *)
(* nothing twice and touches nothing destroyed, until generations run out. *)
(***************************************************************************)
THEOREM AssertionsHold == Spec => []NeverTraps
<1>1. Init => NeverTraps
  BY DEF Init, NeverTraps
<1>. QED
  BY <1>1, TrapsNext, TypeCorrect, BookkeepingKept, DeadStayBare, PTL DEF Spec
=============================================================================
