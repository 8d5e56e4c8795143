------------------------------ MODULE EcsProofs ------------------------------
(***************************************************************************)
(* Proofs about the component manager and the loops over EntitiesWith(),   *)
(* for every set of ids, types and values and every bound.                 *)
(***************************************************************************)
EXTENDS Ecs, ComponentStorageProofs

-----------------------------------------------------------------------------
(* Numbers. *)

\* Induction, for a set of natural numbers.
LEMMA AllNaturals ==
  ASSUME NEW T, 0 \in T, \A m \in Nat : m \in T => m + 1 \in T, NEW n \in Nat
  PROVE  n \in T
<1> DEFINE U == {m \in 0 .. n : m \in T}
           next == [m \in U |-> m + 1]
<1>1. SUFFICES ASSUME n \notin T PROVE FALSE
  OBVIOUS
<1>2. IsFiniteSet(U)
  <2>1. IsFiniteSet(0 .. n)
    BY FS_Interval
  <2> QED
    BY <2>1, FS_Subset
<1>3. ASSUME NEW m \in U PROVE m + 1 \in U
  BY <1>1, m # n
<1>4. next \in Injection(U, U)
  BY <1>3 DEF Injection, IsInjective
<1>5. next \in Surjection(U, U)
  <2> HIDE DEF U, next
  <2> QED
    BY <1>2, <1>4, FS_Injection
<1>6. 0 \in U
  OBVIOUS
<1>7. \A m \in U : next[m] # 0
  OBVIOUS
<1> HIDE DEF U, next
<1> QED
  BY <1>5, <1>6, <1>7 DEF Surjection

LEMMA LeastNatural ==
  ASSUME NEW S \in SUBSET Nat, S # {}
  PROVE  \E k \in S : \A j \in S : k <= j
<1> DEFINE T == {m \in Nat : \A j \in S : m <= j}
<1>1. SUFFICES ASSUME \A k \in S : \E j \in S : ~(k <= j) PROVE FALSE
  OBVIOUS
<1>2. 0 \in T
  OBVIOUS
<1>3. ASSUME NEW m \in Nat, m \in T PROVE m + 1 \in T
  <2>1. m \notin S
    BY <1>1, <1>3
  <2> QED
    BY <1>3, <2>1
<1>4. PICK j \in S : TRUE
  OBVIOUS
<1> HIDE DEF T
<1>5. j + 1 \in T
  BY <1>2, <1>3, AllNaturals
<1> QED
  BY <1>5 DEF T

-----------------------------------------------------------------------------
(* The rounds of the loop in toggleSoftRemove(false). *)

\* f has the pools after 0, 1, ... n rounds.
IsRounds(f, p, n) ==
  f = [k \in 0 .. n |-> IF k = 0 THEN p ELSE DrainOne(f[k - 1])]

LEMMA RoundsExist ==
  ASSUME NEW p, NEW n \in Nat
  PROVE  \E f : IsRounds(f, p, n)
<1> DEFINE T == {m \in Nat : \E f : IsRounds(f, p, m)}
<1>1. 0 \in T
  <2>1. IsRounds([k \in 0 .. 0 |-> p], p, 0)
    BY DEF IsRounds
  <2> QED
    BY <2>1
<1>2. ASSUME NEW m \in Nat, m \in T PROVE m + 1 \in T
  <2>1. PICK f : IsRounds(f, p, m)
    BY <1>2
  <2> DEFINE g == [k \in 0 .. m + 1 |-> IF k = 0 THEN p ELSE DrainOne(f[k - 1])]
  <2>2. \A k \in 0 .. m : g[k] = f[k]
    BY <2>1 DEF IsRounds
  <2>3. \A k \in 0 .. m + 1 : k # 0 => k - 1 \in 0 .. m
    OBVIOUS
  <2>4. g = [k \in 0 .. m + 1 |-> IF k = 0 THEN p ELSE DrainOne(g[k - 1])]
    BY <2>2, <2>3
  <2> HIDE DEF g
  <2>5. IsRounds(g, p, m + 1)
    BY <2>4 DEF IsRounds
  <2> QED
    BY <2>5
<1> HIDE DEF T
<1>3. n \in T
  BY <1>1, <1>2, AllNaturals
<1> QED
  BY <1>3 DEF T

LEMMA RoundsAgree ==
  ASSUME NEW p, NEW n \in Nat, NEW f, IsRounds(f, p, n),
         NEW g, IsRounds(g, p, n + 1), NEW k \in 0 .. n
  PROVE  f[k] = g[k]
<1> DEFINE T == {m \in Nat : m <= n => f[m] = g[m]}
<1>1. 0 \in T
  BY DEF IsRounds
<1>2. ASSUME NEW m \in Nat, m \in T PROVE m + 1 \in T
  <2>1. SUFFICES ASSUME m + 1 <= n PROVE f[m + 1] = g[m + 1]
    OBVIOUS
  <2>2. f[m] = g[m]
    BY <1>2, <2>1
  <2>3. m + 1 \in 0 .. n /\ m + 1 \in 0 .. n + 1 /\ m + 1 # 0 /\ (m + 1) - 1 = m
    BY <2>1
  <2>4. f[m + 1] = DrainOne(f[m]) /\ g[m + 1] = DrainOne(g[m])
    BY <2>3 DEF IsRounds
  <2> QED
    BY <2>2, <2>4
<1> HIDE DEF T
<1>3. k \in T
  BY <1>1, <1>2, AllNaturals
<1> QED
  BY <1>3 DEF T

LEMMA AfterRoundsIs ==
  ASSUME NEW p, NEW n \in Nat
  PROVE  \E f : IsRounds(f, p, n) /\ AfterRounds(p, n) = f[n]
<1> DEFINE f == CHOOSE g : IsRounds(g, p, n)
<1>1. IsRounds(f, p, n)
  BY RoundsExist
<1>2. AfterRounds(p, n) = f[n]
  BY DEF AfterRounds, IsRounds
<1> QED
  BY <1>1, <1>2

\* What the recursion says.
LEMMA AfterRoundsStep ==
  ASSUME NEW p
  PROVE  /\ AfterRounds(p, 0) = p
         /\ \A n \in Nat : AfterRounds(p, n + 1) = DrainOne(AfterRounds(p, n))
<1>1. AfterRounds(p, 0) = p
  <2>1. PICK f : IsRounds(f, p, 0) /\ AfterRounds(p, 0) = f[0]
    BY AfterRoundsIs
  <2> QED
    BY <2>1 DEF IsRounds
<1>2. ASSUME NEW n \in Nat PROVE AfterRounds(p, n + 1) = DrainOne(AfterRounds(p, n))
  <2>1. PICK f : IsRounds(f, p, n) /\ AfterRounds(p, n) = f[n]
    BY AfterRoundsIs
  <2>2. n + 1 \in Nat
    OBVIOUS
  <2>3. PICK g : IsRounds(g, p, n + 1) /\ AfterRounds(p, n + 1) = g[n + 1]
    BY <2>2, AfterRoundsIs
  <2>4. f[n] = g[n]
    BY <2>1, <2>3, RoundsAgree
  <2>5. g[n + 1] = DrainOne(g[n])
    BY <2>3 DEF IsRounds
  <2> QED
    BY <2>1, <2>3, <2>4, <2>5
<1> QED
  BY <1>1, <1>2

LEMMA RoundsLoose ==
  ASSUME NEW p, Loose(p), NEW n \in Nat, n <= Len(p.softRemoveCompIndexes)
  PROVE  LET q == AfterRounds(p, n)
         IN  /\ Loose(q)
             /\ q.softRemoveMode = p.softRemoveMode
             /\ Len(q.softRemoveCompIndexes) = Len(p.softRemoveCompIndexes) - n
<1> DEFINE len == Len(p.softRemoveCompIndexes)
           Good(m) == LET q == AfterRounds(p, m)
                      IN  /\ Loose(q)
                          /\ q.softRemoveMode = p.softRemoveMode
                          /\ Len(q.softRemoveCompIndexes) = len - m
           T == {m \in Nat : m <= len => Good(m)}
<1>0. len \in Nat
  BY LooseFacts, LenProperties
<1> HIDE DEF len
<1>1. 0 \in T
  BY <1>0, AfterRoundsStep DEF len
<1>2. ASSUME NEW m \in Nat, m \in T PROVE m + 1 \in T
  <2>1. SUFFICES ASSUME m + 1 <= len PROVE Good(m + 1)
    OBVIOUS
  <2>2. PICK q : q = AfterRounds(p, m)
    OBVIOUS
  <2>3. PICK r : r = AfterRounds(p, m + 1)
    OBVIOUS
  <2>4. /\ Loose(q)
        /\ q.softRemoveMode = p.softRemoveMode
        /\ Len(q.softRemoveCompIndexes) = len - m
    BY <1>0, <1>2, <2>1, <2>2
  <2>5. r = DrainOne(q)
    BY <2>2, <2>3, AfterRoundsStep
  <2>6. q.softRemoveCompIndexes \in Seq(DOMAIN q.components)
        /\ q.softRemoveCompIndexes # << >>
    BY <1>0, <2>1, <2>4, LooseFacts, LenProperties
  <2>7. /\ Loose(r)
        /\ r.softRemoveMode = q.softRemoveMode
        /\ r.softRemoveCompIndexes = Tail(q.softRemoveCompIndexes)
    BY <2>4, <2>5, <2>6, DrainOneLoose
  <2>8. Len(r.softRemoveCompIndexes) = len - (m + 1)
    BY <1>0, <2>4, <2>6, <2>7, HeadTailProperties
  <2> QED
    BY <2>3, <2>4, <2>7, <2>8
<1> HIDE DEF T
<1>3. n \in T
  BY <1>1, <1>2, AllNaturals
<1> QED
  BY <1>3 DEF T, len

\* All rounds together empty the queue.
LEMMA DrainedLoose ==
  ASSUME NEW p, Loose(p),
         NEW q, q = DisableSoftRemove(AfterRounds(p, Len(p.softRemoveCompIndexes)))
  PROVE  /\ Loose(q)
         /\ ~q.softRemoveMode
         /\ q.softRemoveCompIndexes = << >>
<1>1. PICK r : r = AfterRounds(p, Len(p.softRemoveCompIndexes))
  OBVIOUS
<1>2. Len(p.softRemoveCompIndexes) \in Nat
  BY LooseFacts, LenProperties
<1>3. Loose(r) /\ Len(r.softRemoveCompIndexes) = 0
  BY <1>1, <1>2, RoundsLoose
<1>4. r.softRemoveCompIndexes = << >>
  BY <1>3, LooseFacts, EmptySeq
<1>5. q = [r EXCEPT !.softRemoveMode = FALSE]
  BY <1>1 DEF DisableSoftRemove
<1>6. /\ Loose(q)
      /\ q.softRemoveMode = FALSE
      /\ q.softRemoveCompIndexes = r.softRemoveCompIndexes
  BY <1>3, <1>5, ToggleLoose
<1> QED
  BY <1>4, <1>6

-----------------------------------------------------------------------------
(* The type invariant. *)

RegistryType ==
  /\ \E k \in Nat : Numbers = 0 .. k - 1
  /\ DOMAIN compTypeToCompIndex \subseteq CompTypes
  /\ {compTypeToCompIndex[c] : c \in DOMAIN compTypeToCompIndex} = Numbers
  /\ IsFiniteSet(DOMAIN compTypeToCompIndex)
  /\ Cardinality(DOMAIN compTypeToCompIndex) = ComponentTypeCount

PoolsType == \A n \in Numbers : Loose(componentPools[n])

MasksType ==
  /\ DOMAIN entCompMasks = DOMAIN entIndexToGen \cup {NullId.index}
  /\ \A i \in DOMAIN entCompMasks :
       entCompMasks[i] \subseteq {n \in Numbers : HasBit(n)}
  /\ entCompMasks[NullId.index] = {}

EntitiesType ==
  /\ DOMAIN entIndexToGen \subseteq {e.index : e \in Ids}
  /\ DOMAIN indexIsAlive = DOMAIN entIndexToGen
  /\ \A i \in DOMAIN entIndexToGen :
       entIndexToGen[i] \in Nat /\ indexIsAlive[i] \in BOOLEAN

LoopRecord == [mask : SUBSET Nat, pool : Nat, pos : Nat, end : Nat,
               kept : SUBSET Ids, visited : SUBSET Ids]

LoopsType ==
  \A loop \in loops :
    loop \in LoopRecord /\ LoopType(loop) /\ loop.pool \in loop.mask

TypeInv ==
  /\ RegistryType
  /\ PoolsType
  /\ MasksType
  /\ EntitiesType
  /\ LoopsType
  /\ LocksMatchLoops
  /\ taint \subseteq Taints

LEMMA CountOfNumbers ==
  ASSUME NEW k \in Nat, Numbers = 0 .. k - 1
  PROVE  ComponentTypeCount = k
<1>1. 0 \in Int /\ k - 1 \in Int
  OBVIOUS
<1>2. Cardinality(0 .. k - 1) = IF 0 > k - 1 THEN 0 ELSE (k - 1) - 0 + 1
  BY <1>1, FS_Interval, Zenon
<1> QED
  BY <1>2 DEF ComponentTypeCount, Numbers

LEMMA TypeInvTypeOK == TypeInv => TypeOK
<1> SUFFICES ASSUME TypeInv PROVE TypeOK
  OBVIOUS
<1>1. PICK k \in Nat : Numbers = 0 .. k - 1
  BY DEF TypeInv, RegistryType
<1>2. Numbers = 0 .. ComponentTypeCount - 1
  BY <1>1, CountOfNumbers
<1> QED
  BY <1>2 DEF TypeInv, TypeOK, RegistryType, MasksType, EntitiesType, LoopsType

LEMMA TypeInvInit == Init => TypeInv
<1> SUFFICES ASSUME Init PROVE TypeInv
  OBVIOUS
<1>1. /\ Numbers = {} /\ DOMAIN compTypeToCompIndex = {}
      /\ DOMAIN entCompMasks = {NullId.index}
      /\ entCompMasks[NullId.index] = {}
      /\ DOMAIN entIndexToGen = {} /\ DOMAIN indexIsAlive = {}
      /\ loops = {} /\ taint = {}
  BY DEF Init, CompMgrInit, Numbers
<1>2. Numbers = 0 .. 0 - 1
  BY <1>1
<1>3. RegistryType
  BY <1>1, <1>2, CountOfNumbers, FS_EmptySet DEF RegistryType
<1> QED
  BY <1>1, <1>3
  DEF TypeInv, PoolsType, MasksType, EntitiesType, LoopsType, LocksMatchLoops

-----------------------------------------------------------------------------
(* How the steps change the pools. *)

\* What any operation but the end of a loop does to the pool p.
GoesOn(p, q) ==
  /\ Loose(q)
  /\ q.softRemoveMode = p.softRemoveMode
  /\ p.softRemoveMode => q.lastCompIndex >= p.lastCompIndex
  /\ ~p.softRemoveMode => q.softRemoveCompIndexes = p.softRemoveCompIndexes

PoolsGoOn ==
  /\ Numbers \subseteq Numbers'
  /\ \A n \in Numbers : GoesOn(componentPools[n], componentPools'[n])
  /\ \A n \in Numbers' \ Numbers :
       /\ Loose(componentPools'[n])
       /\ ~componentPools'[n].softRemoveMode
       /\ componentPools'[n].softRemoveCompIndexes = << >>

LEMMA StaysAsItIs ==
  ASSUME NEW p, Loose(p)
  PROVE  GoesOn(p, p)
  BY LooseFacts DEF GoesOn

LEMMA NewComponentGoesOn ==
  ASSUME NEW p, Loose(p), NEW e \in Ids, NEW v \in Values, NEW q,
         q = NewComponent(p, e, v) \/ q = NewComponentThrows(p)
  PROVE  GoesOn(p, q)
<1>1. /\ Loose(q)
      /\ q.lastCompIndex = p.lastCompIndex + 1
      /\ q.softRemoveMode = p.softRemoveMode
      /\ q.softRemoveCompIndexes = p.softRemoveCompIndexes
  BY NewComponentLoose, NewComponentThrowsLoose
<1> QED
  BY <1>1, LooseFacts DEF GoesOn

LEMMA AfterRemoveGoesOn ==
  ASSUME NEW p, Loose(p), NEW e \in Ids, NEW q, q = AfterRemove(p, e)
  PROVE  GoesOn(p, q)
<1>1. /\ Loose(q)
      /\ q.softRemoveMode = p.softRemoveMode
      /\ p.softRemoveMode => q.lastCompIndex = p.lastCompIndex
      /\ ~p.softRemoveMode => q.softRemoveCompIndexes = p.softRemoveCompIndexes
  BY AfterRemoveLoose
<1> QED
  BY <1>1, LooseFacts DEF GoesOn

\* The pools of the loops are in soft remove mode, which lets none shrink.
LEMMA LoopsKeepType ==
  ASSUME TypeInv, PoolsGoOn,
         \A next \in loops' : \E loop \in loops :
           /\ next \in LoopRecord
           /\ next.mask = loop.mask /\ next.pool = loop.pool
           /\ next.end = loop.end
           /\ next.pos \in 0 .. next.end
  PROVE  LoopsType'
<1> SUFFICES ASSUME NEW next \in loops'
             PROVE  /\ next \in LoopRecord
                    /\ next.mask \subseteq Numbers'
                    /\ next.pool \in Numbers'
                    /\ next.pos \in 0 .. next.end
                    /\ next.end <= Size(componentPools'[next.pool])
                    /\ next.kept \cup next.visited \subseteq Ids
                    /\ next.pool \in next.mask
  BY DEF LoopsType, LoopType
<1>1. PICK loop \in loops :
        /\ next \in LoopRecord
        /\ next.mask = loop.mask /\ next.pool = loop.pool
        /\ next.end = loop.end
        /\ next.pos \in 0 .. next.end
  OBVIOUS
<1>2. /\ loop \in LoopRecord /\ loop.pool \in loop.mask
      /\ loop.mask \subseteq Numbers /\ loop.pool \in Numbers
      /\ loop.end <= Size(componentPools[loop.pool])
  BY DEF TypeInv, LoopsType, LoopType
<1> DEFINE p == componentPools[loop.pool]
           q == componentPools'[loop.pool]
<1>3. p.softRemoveMode
  BY <1>2 DEF TypeInv, LocksMatchLoops
<1>4. Loose(p) /\ Loose(q) /\ q.lastCompIndex >= p.lastCompIndex
  BY <1>2, <1>3 DEF TypeInv, PoolsType, PoolsGoOn, GoesOn
<1> HIDE DEF p, q
<1>5. Size(q) >= Size(p) /\ Size(p) \in Nat /\ Size(q) \in Nat
  <2>1. p.lastCompIndex \in Int /\ q.lastCompIndex \in Int
    BY <1>4, LooseFacts
  <2> QED
    BY <1>4, <2>1, LooseFacts DEF Size
<1>6. next.end <= Size(q)
  <2>1. next.end \in Nat /\ next.end <= Size(p)
    BY <1>1, <1>2 DEF LoopRecord, p
  <2> QED
    BY <1>5, <2>1
<1>7. next.kept \cup next.visited \subseteq Ids
  BY <1>1 DEF LoopRecord
<1>8. Numbers \subseteq Numbers'
  BY DEF PoolsGoOn
<1> QED
  BY <1>1, <1>2, <1>6, <1>7, <1>8 DEF q

LEMMA LocksKept ==
  ASSUME TypeInv, PoolsGoOn, ~terminated,
         \A next \in loops' : \E loop \in loops : next.pool = loop.pool,
         \A loop \in loops : \E next \in loops' : next.pool = loop.pool,
         \A one, other \in loops' : one.pool = other.pool => one = other
  PROVE  LocksMatchLoops'
<1> SUFFICES
      /\ \A n \in Numbers' :
           componentPools'[n].softRemoveMode <=> \E loop \in loops' : loop.pool = n
      /\ \A n \in Numbers' :
           ~componentPools'[n].softRemoveMode =>
             componentPools'[n].softRemoveCompIndexes = << >>
  BY DEF LocksMatchLoops
<1>1. ASSUME NEW n \in Numbers
      PROVE  /\ componentPools'[n].softRemoveMode <=> \E loop \in loops' : loop.pool = n
             /\ ~componentPools'[n].softRemoveMode =>
                  componentPools'[n].softRemoveCompIndexes = << >>
  <2>1. /\ componentPools[n].softRemoveMode <=> \E loop \in loops : loop.pool = n
        /\ ~componentPools[n].softRemoveMode =>
             componentPools[n].softRemoveCompIndexes = << >>
    BY DEF TypeInv, LocksMatchLoops
  <2>2. /\ componentPools'[n].softRemoveMode = componentPools[n].softRemoveMode
        /\ ~componentPools[n].softRemoveMode =>
             componentPools'[n].softRemoveCompIndexes =
               componentPools[n].softRemoveCompIndexes
    BY DEF PoolsGoOn, GoesOn
  <2>3. (\E loop \in loops : loop.pool = n) <=> (\E loop \in loops' : loop.pool = n)
    OBVIOUS
  <2> QED
    BY <2>1, <2>2, <2>3
<1>2. ASSUME NEW n \in Numbers' \ Numbers
      PROVE  /\ componentPools'[n].softRemoveMode <=> \E loop \in loops' : loop.pool = n
             /\ ~componentPools'[n].softRemoveMode =>
                  componentPools'[n].softRemoveCompIndexes = << >>
  <2>1. /\ ~componentPools'[n].softRemoveMode
        /\ componentPools'[n].softRemoveCompIndexes = << >>
    BY DEF PoolsGoOn
  <2>2. \A loop \in loops : loop.pool # n
    BY DEF TypeInv, LoopsType, LoopType
  <2> QED
    BY <2>1, <2>2
<1> QED
  BY <1>1, <1>2

LEMMA PoolsKept ==
  ASSUME PoolsGoOn
  PROVE  PoolsType'
  BY DEF PoolsGoOn, PoolsType, GoesOn

\* The loops themselves stay as they are, but for their history.
LEMMA LoopsGoOnKeep ==
  ASSUME TypeInv, PoolsGoOn, ~terminated, LoopsGoOn \/ UNCHANGED loops
  PROVE  PoolsType' /\ LoopsType' /\ LocksMatchLoops'
<1>0. \A loop \in loops : loop \in LoopRecord /\ LoopType(loop)
  BY DEF TypeInv, LoopsType
<1>u. \A one, other \in loops : one.pool = other.pool => one = other
  BY DEF TypeInv, LocksMatchLoops
<1>1. CASE UNCHANGED loops
  <2>1. \A next \in loops' : \E loop \in loops :
          /\ next \in LoopRecord
          /\ next.mask = loop.mask /\ next.pool = loop.pool
          /\ next.end = loop.end
          /\ next.pos \in 0 .. next.end
    BY <1>0, <1>1 DEF LoopType
  <2> QED
    BY <1>1, <1>u, <2>1, LoopsKeepType, LocksKept, PoolsKept
<1>2. CASE LoopsGoOn
  <2>1. loops' = {StillKept(loop) : loop \in loops}
    BY <1>2 DEF LoopsGoOn
  <2>2. ASSUME NEW loop \in loops
        PROVE  LET next == StillKept(loop)
               IN  /\ next \in LoopRecord
                   /\ next.mask = loop.mask /\ next.pool = loop.pool
                   /\ next.end = loop.end
                   /\ next.pos \in 0 .. next.end
    <3>1. {e \in loop.kept : loop.mask \subseteq entCompMasks'[e.index]} \in SUBSET Ids
      BY <1>0 DEF LoopRecord
    <3> QED
      BY <1>0, <3>1 DEF StillKept, LoopRecord, LoopType
  <2>3. \A one, other \in loops' : one.pool = other.pool => one = other
    BY <1>u, <2>1, <2>2
  <2>4. LoopsType'
    BY <2>1, <2>2, LoopsKeepType
  <2>5. LocksMatchLoops'
    BY <2>1, <2>2, <2>3, LocksKept
  <2> QED
    BY <2>4, <2>5, PoolsKept
<1> QED
  BY <1>1, <1>2

-----------------------------------------------------------------------------
(* The steps of the component manager. *)

LEMMA KnownFacts ==
  ASSUME TypeInv, NEW e \in Known
  PROVE  /\ e \in Ids
         /\ e.index \in DOMAIN entIndexToGen
         /\ e.index \in DOMAIN entCompMasks
         /\ e.index # NullId.index
         /\ e.index \in Nat
  BY EcsAssumption, StorageAssumption DEF Known, TypeInv, MasksType

\* The pools once c is registered, and the place of its own.
LEMMA PoolsWithFacts ==
  ASSUME TypeInv, NEW c \in CompTypes
  PROVE  /\ Registered(c) <=> CompIndex(c) \in Numbers
         /\ DOMAIN PoolsWith(c) = Numbers \cup {CompIndex(c)}
         /\ \A n \in Numbers : PoolsWith(c)[n] = componentPools[n]
         /\ ~Registered(c) => PoolOf(c) = EmptyPool
         /\ Loose(PoolOf(c))
         /\ \E k \in Nat : Numbers \cup {CompIndex(c)} = 0 .. k - 1
<1>1. PICK k \in Nat : Numbers = 0 .. k - 1
  BY DEF TypeInv, RegistryType
<1>2. ComponentTypeCount = k
  BY <1>1, CountOfNumbers
<1>3. CASE Registered(c)
  <2>1. CompIndex(c) \in Numbers /\ PoolsWith(c) = componentPools
    BY <1>3 DEF CompIndex, PoolsWith, Registered, TypeInv, RegistryType
  <2>2. Loose(PoolOf(c))
    BY <2>1 DEF PoolOf, TypeInv, PoolsType
  <2>3. Numbers \cup {CompIndex(c)} = 0 .. k - 1
    BY <1>1, <2>1
  <2> QED
    BY <1>3, <2>1, <2>2, <2>3 DEF Numbers
<1>4. CASE ~Registered(c)
  <2>1. CompIndex(c) = k /\ PoolsWith(c) = Put(componentPools, k, EmptyPool)
    BY <1>2, <1>4 DEF CompIndex, PoolsWith
  <2>2. k \notin Numbers /\ Numbers \cup {k} = 0 .. (k + 1) - 1
    BY <1>1
  <2>3. /\ DOMAIN PoolsWith(c) = Numbers \cup {k}
        /\ \A n \in Numbers : PoolsWith(c)[n] = componentPools[n]
        /\ PoolsWith(c)[k] = EmptyPool
    BY <2>1, <2>2 DEF Put, Numbers
  <2>4. PoolOf(c) = EmptyPool
    BY <2>1, <2>3 DEF PoolOf
  <2> QED
    BY <1>4, <2>1, <2>2, <2>3, <2>4, EmptyPoolLoose
<1> QED
  BY <1>3, <1>4

(***************************************************************************)
(* Register and Assign: c is numbered, if it was not yet, and its pool     *)
(* becomes q.                                                              *)
(***************************************************************************)
PoolBecomes(c, q) ==
  /\ compTypeToCompIndex' = Put(compTypeToCompIndex, c, CompIndex(c))
  /\ componentPools' = [PoolsWith(c) EXCEPT ![CompIndex(c)] = q]

LEMMA PoolBecomesFacts ==
  ASSUME TypeInv, NEW c \in CompTypes, NEW q, PoolBecomes(c, q)
  PROVE  /\ Numbers' = Numbers \cup {CompIndex(c)}
         /\ componentPools'[CompIndex(c)] = q
         /\ \A n \in Numbers \ {CompIndex(c)} : componentPools'[n] = componentPools[n]
         /\ RegistryType'
<1> DEFINE k == CompIndex(c)
<1>1. /\ Registered(c) <=> k \in Numbers
      /\ DOMAIN PoolsWith(c) = Numbers \cup {k}
      /\ \A n \in Numbers : PoolsWith(c)[n] = componentPools[n]
      /\ \E m \in Nat : Numbers \cup {k} = 0 .. m - 1
  BY PoolsWithFacts
<1> HIDE DEF k
<1>2. componentPools' = [PoolsWith(c) EXCEPT ![k] = q]
  BY DEF PoolBecomes, k
<1>3. Numbers' = Numbers \cup {k}
  BY <1>1, <1>2 DEF Numbers
<1>4. componentPools'[k] = q
  BY <1>1, <1>2
<1>5. \A n \in Numbers \ {k} : componentPools'[n] = componentPools[n]
  BY <1>1, <1>2
<1>6. PICK m \in Nat : Numbers \cup {k} = 0 .. m - 1
  BY <1>1
<1>7. /\ compTypeToCompIndex' = Put(compTypeToCompIndex, c, k)
      /\ DOMAIN compTypeToCompIndex' = DOMAIN compTypeToCompIndex \cup {c}
  BY DEF PoolBecomes, Put, k
<1>8. {compTypeToCompIndex'[d] : d \in DOMAIN compTypeToCompIndex'} = Numbers \cup {k}
  <2>1. {compTypeToCompIndex[d] : d \in DOMAIN compTypeToCompIndex} = Numbers
    BY DEF TypeInv, RegistryType
  <2>2. Registered(c) => compTypeToCompIndex[c] = k
    BY DEF CompIndex, k
  <2>3. compTypeToCompIndex'[c] = k
        /\ \A d \in DOMAIN compTypeToCompIndex :
             compTypeToCompIndex'[d] = compTypeToCompIndex[d]
    BY <1>7, <2>2 DEF Put, Registered
  <2> QED
    BY <1>7, <2>1, <2>3
<1>9. /\ IsFiniteSet(DOMAIN compTypeToCompIndex')
      /\ Cardinality(DOMAIN compTypeToCompIndex') = Cardinality(DOMAIN componentPools')
  <2>1. /\ IsFiniteSet(DOMAIN compTypeToCompIndex)
        /\ Cardinality(DOMAIN compTypeToCompIndex) = Cardinality(Numbers)
    BY DEF TypeInv, RegistryType, ComponentTypeCount, Numbers
  <2>2. PICK j \in Nat : Numbers = 0 .. j - 1
    BY DEF TypeInv, RegistryType
  <2>3. IsFiniteSet(Numbers)
    BY <2>2, FS_Interval
  <2>4. c \in DOMAIN compTypeToCompIndex <=> k \in Numbers
    BY <1>1 DEF Registered
  <2>5. DOMAIN componentPools' = Numbers \cup {k}
    BY <1>3 DEF Numbers
  <2>6. CASE k \in Numbers
    <3>1. DOMAIN compTypeToCompIndex \cup {c} = DOMAIN compTypeToCompIndex
          /\ Numbers \cup {k} = Numbers
      BY <2>4, <2>6
    <3> QED
      BY <1>7, <2>1, <2>5, <3>1, Zenon
  <2>7. CASE k \notin Numbers
    <3>1. PICK S : S = DOMAIN compTypeToCompIndex
      OBVIOUS
    <3>2. /\ IsFiniteSet(S \cup {c})
          /\ Cardinality(S \cup {c}) = Cardinality(S) + 1
      BY <2>1, <2>4, <2>7, <3>1, FS_AddElement
    <3>3. PICK T : T = Numbers
      OBVIOUS
    <3>4. Cardinality(T \cup {k}) = Cardinality(T) + 1
      BY <2>3, <2>7, <3>3, FS_AddElement
    <3>5. Cardinality(S) = Cardinality(T)
      BY <2>1, <3>1, <3>3
    <3> QED
      BY <1>7, <2>5, <3>1, <3>2, <3>3, <3>4, <3>5, Zenon
  <2> QED
    BY <2>6, <2>7
<1>10. DOMAIN compTypeToCompIndex' \subseteq CompTypes
  BY <1>7 DEF TypeInv, RegistryType
<1>11. RegistryType'
  BY <1>3, <1>6, <1>8, <1>9, <1>10 DEF RegistryType, ComponentTypeCount
<1> QED
  BY <1>3, <1>4, <1>5, <1>11 DEF k

LEMMA PoolBecomesGoesOn ==
  ASSUME TypeInv, NEW c \in CompTypes, NEW q, PoolBecomes(c, q),
         GoesOn(PoolOf(c), q)
  PROVE  PoolsGoOn
<1> DEFINE k == CompIndex(c)
<1>1. /\ Numbers' = Numbers \cup {k}
      /\ componentPools'[k] = q
      /\ \A n \in Numbers \ {k} : componentPools'[n] = componentPools[n]
  BY PoolBecomesFacts
<1>2. /\ Registered(c) <=> k \in Numbers
      /\ \A n \in Numbers : PoolsWith(c)[n] = componentPools[n]
      /\ ~Registered(c) => PoolOf(c) = EmptyPool
  BY PoolsWithFacts
<1>3. PoolOf(c) = PoolsWith(c)[k]
  BY DEF PoolOf
<1> HIDE DEF k
<1>4. ASSUME NEW n \in Numbers PROVE GoesOn(componentPools[n], componentPools'[n])
  <2>1. CASE n = k
    BY <1>1, <1>2, <1>3, <2>1
  <2>2. CASE n # k
    <3>1. Loose(componentPools[n])
      BY DEF TypeInv, PoolsType
    <3> QED
      BY <1>1, <2>2, <3>1, StaysAsItIs
  <2> QED
    BY <2>1, <2>2
<1>5. ASSUME NEW n \in Numbers' \ Numbers
      PROVE  /\ Loose(componentPools'[n])
             /\ ~componentPools'[n].softRemoveMode
             /\ componentPools'[n].softRemoveCompIndexes = << >>
  <2>1. n = k /\ GoesOn(EmptyPool, q)
    BY <1>1, <1>2, <1>5
  <2> QED
    BY <1>1, <2>1, EmptyPoolLoose DEF GoesOn
<1> QED
  BY <1>1, <1>4, <1>5 DEF PoolsGoOn

LEMMA RegisterStep ==
  ASSUME TypeInv, NEW c \in CompTypes, RegisterComponentType(c)
  PROVE  /\ PoolBecomes(c, PoolOf(c))
         /\ PoolsGoOn
         /\ RegistryType'
<1>1. CompIndex(c) \in DOMAIN PoolsWith(c) /\ Loose(PoolOf(c))
  BY PoolsWithFacts
<1>2. PICK p : p = PoolOf(c)
  OBVIOUS
<1>3. componentPools' = [PoolsWith(c) EXCEPT ![CompIndex(c)] = p]
  <2>1. \E f, S : PoolsWith(c) = [n \in S |-> f[n]]
    BY DEF PoolsWith, Put, RegisterComponentType
  <2> QED
    BY <1>1, <1>2, <2>1 DEF RegisterComponentType, PoolOf
<1>4. PoolBecomes(c, p)
  BY <1>3 DEF RegisterComponentType, PoolBecomes
<1>5. GoesOn(p, p)
  BY <1>1, <1>2, StaysAsItIs
<1>6. PoolsGoOn /\ RegistryType'
  BY <1>2, <1>4, <1>5, PoolBecomesGoesOn, PoolBecomesFacts
<1> QED
  BY <1>2, <1>4, <1>6

LEMMA RegistryStays ==
  ASSUME TypeInv, Numbers' = Numbers, UNCHANGED compTypeToCompIndex
  PROVE  RegistryType'
  BY DEF TypeInv, RegistryType, Numbers, ComponentTypeCount

LEMMA RemoveFromPoolStep ==
  ASSUME TypeInv, NEW e \in Known, NEW c \in CompTypes, RemoveFromPool(e, c),
         UNCHANGED entIndexToGen
  PROVE  /\ PoolsGoOn
         /\ RegistryType'
         /\ MasksType'
<1> DEFINE n == compTypeToCompIndex[c]
<1>1. /\ e \in Ids /\ e.index \in DOMAIN entCompMasks /\ e.index # NullId.index
  BY KnownFacts
<1>2. n \in Numbers
  BY DEF RemoveFromPool, Has, Registered, TypeInv, RegistryType
<1>3. /\ componentPools' = [componentPools EXCEPT ![n] = AfterRemove(@, e)]
      /\ \/ entCompMasks' = entCompMasks
         \/ entCompMasks' = [entCompMasks EXCEPT ![e.index] = @ \ {n}]
      /\ UNCHANGED compTypeToCompIndex
  BY DEF RemoveFromPool
<1> HIDE DEF n
<1>4. /\ Numbers' = Numbers
      /\ componentPools'[n] = AfterRemove(componentPools[n], e)
      /\ \A k \in Numbers \ {n} : componentPools'[k] = componentPools[k]
  BY <1>2, <1>3 DEF Numbers
<1>5. ASSUME NEW k \in Numbers PROVE GoesOn(componentPools[k], componentPools'[k])
  <2>1. PICK p : p = componentPools[k]
    OBVIOUS
  <2>2. PICK q : q = componentPools'[k]
    OBVIOUS
  <2>3. Loose(p)
    BY <2>1 DEF TypeInv, PoolsType
  <2>4. q = AfterRemove(p, e) \/ q = p
    BY <1>4, <2>1, <2>2
  <2>5. GoesOn(p, q)
    BY <1>1, <2>3, <2>4, AfterRemoveGoesOn, StaysAsItIs
  <2> QED
    BY <2>1, <2>2, <2>5
<1>6. PoolsGoOn
  BY <1>4, <1>5 DEF PoolsGoOn
<1>7. MasksType'
  <2>1. MasksType
    BY DEF TypeInv
  <2>2. DOMAIN entCompMasks' = DOMAIN entCompMasks
        /\ \A i \in DOMAIN entCompMasks : entCompMasks'[i] \subseteq entCompMasks[i]
    BY <1>1, <1>3
  <2> QED
    BY <1>4, <2>1, <2>2 DEF MasksType
<1> QED
  BY <1>3, <1>4, <1>6, <1>7, RegistryStays

LEMMA RemoveAllStep ==
  ASSUME TypeInv, NEW e \in Known, RemoveAll(e),
         DOMAIN entIndexToGen' = DOMAIN entIndexToGen
  PROVE  /\ PoolsGoOn
         /\ RegistryType'
         /\ MasksType'
<1>1. /\ e \in Ids /\ e.index \in DOMAIN entCompMasks /\ e.index # NullId.index
  BY KnownFacts
<1>2. /\ Numbers' = Numbers
      /\ UNCHANGED compTypeToCompIndex
      /\ \A k \in Numbers : \/ componentPools'[k] = AfterRemove(componentPools[k], e)
                            \/ componentPools'[k] = componentPools[k]
  BY DEF RemoveAll, Numbers
<1>3. ASSUME NEW k \in Numbers PROVE GoesOn(componentPools[k], componentPools'[k])
  <2>1. PICK p : p = componentPools[k]
    OBVIOUS
  <2>2. PICK q : q = componentPools'[k]
    OBVIOUS
  <2>3. Loose(p)
    BY <2>1 DEF TypeInv, PoolsType
  <2>4. q = AfterRemove(p, e) \/ q = p
    BY <1>2, <2>1, <2>2
  <2>5. GoesOn(p, q)
    BY <1>1, <2>3, <2>4, AfterRemoveGoesOn, StaysAsItIs
  <2> QED
    BY <2>1, <2>2, <2>5
<1>4. PoolsGoOn
  BY <1>2, <1>3 DEF PoolsGoOn
<1>5. MasksType'
  <2>1. MasksType
    BY DEF TypeInv
  <2>2. DOMAIN entCompMasks' = DOMAIN entCompMasks
        /\ \A i \in DOMAIN entCompMasks : entCompMasks'[i] \subseteq entCompMasks[i]
    BY <1>1 DEF RemoveAll
  <2> QED
    BY <1>2, <2>1, <2>2 DEF MasksType
<1> QED
  BY <1>2, <1>4, <1>5, RegistryStays

LEMMA AssignStep ==
  ASSUME TypeInv, NEW e \in Known, NEW c \in CompTypes, UNCHANGED entIndexToGen,
         AssignMakes(e, c) \/ AssignThrows(e, c) \/ AssignRefused(e, c)
  PROVE  /\ PoolsGoOn
         /\ RegistryType'
         /\ MasksType'
<1>1. /\ e \in Ids /\ e.index \in DOMAIN entCompMasks /\ e.index # NullId.index
  BY KnownFacts
<1>2. MasksType
  BY DEF TypeInv
<1>3. PICK p : p = PoolOf(c)
  OBVIOUS
<1>4. Loose(p)
  BY <1>3, PoolsWithFacts
<1>5. CASE AssignMakes(e, c) \/ AssignThrows(e, c)
  <2>1. PICK q : /\ AssignBy(e, c, q)
                 /\ \/ \E v \in Values : q = NewComponent(p, e, v)
                    \/ q = NewComponentThrows(p)
    BY <1>3, <1>5 DEF AssignMakes, AssignThrows
  <2>2. GoesOn(p, q)
    <3>1. CASE q = NewComponentThrows(p)
      <4>1. /\ Loose(q)
            /\ q.lastCompIndex = p.lastCompIndex + 1
            /\ q.softRemoveMode = p.softRemoveMode
            /\ q.softRemoveCompIndexes = p.softRemoveCompIndexes
        BY <1>4, <3>1, NewComponentThrowsLoose
      <4> QED
        BY <1>4, <4>1, LooseFacts DEF GoesOn
    <3>2. CASE \E v \in Values : q = NewComponent(p, e, v)
      BY <1>1, <1>4, <3>2, NewComponentGoesOn
    <3> QED
      BY <2>1, <3>1, <3>2
  <2>3. PoolBecomes(c, q)
    BY <2>1 DEF AssignBy, PoolBecomes
  <2>4. PoolsGoOn
    BY <1>3, <2>2, <2>3, PoolBecomesGoesOn
  <2>5. RegistryType' /\ Numbers' = Numbers \cup {CompIndex(c)}
    BY <2>3, PoolBecomesFacts
  <2>6. MasksType'
    <3>1. /\ HasBit(CompIndex(c))
          /\ entCompMasks' = [entCompMasks EXCEPT ![e.index] = @ \cup {CompIndex(c)}]
      BY <2>1 DEF AssignBy
    <3>2. /\ DOMAIN entCompMasks' = DOMAIN entCompMasks
          /\ \A i \in DOMAIN entCompMasks :
               entCompMasks'[i] \subseteq entCompMasks[i] \cup {CompIndex(c)}
          /\ entCompMasks'[NullId.index] = entCompMasks[NullId.index]
      BY <1>1, <3>1
    <3> QED
      BY <1>2, <2>5, <3>1, <3>2 DEF MasksType
  <2> QED
    BY <2>4, <2>5, <2>6
<1>6. CASE AssignRefused(e, c)
  <2>1. PoolsGoOn /\ RegistryType'
    BY <1>6, RegisterStep DEF AssignRefused
  <2>2. UNCHANGED entCompMasks /\ Numbers \subseteq Numbers'
    BY <1>6, <2>1 DEF AssignRefused, RegisterComponentType, PoolsGoOn
  <2> QED
    BY <1>2, <2>1, <2>2 DEF MasksType
<1> QED
  BY <1>5, <1>6

-----------------------------------------------------------------------------
(* The steps of the loops. *)

LEMMA SmallestPoolOfMask ==
  ASSUME TypeInv, NEW mask, mask \subseteq Numbers, mask # {}
  PROVE  SmallestPool(mask) \in mask
<1> DEFINE size == [n \in mask |-> Size(componentPools[n])]
           Least == {n \in mask : \A k \in mask : size[n] <= size[k]}
<1>1. \A n \in mask : n \in Nat /\ size[n] \in Nat
  <2>1. Numbers \subseteq Nat
    BY DEF TypeInv, RegistryType
  <2> QED
    BY <2>1, LooseFacts DEF TypeInv, PoolsType
<1>2. Least # {}
  <2>1. PICK S : S = {size[n] : n \in mask}
    OBVIOUS
  <2> HIDE DEF size
  <2>2. S \in SUBSET Nat /\ S # {}
    BY <1>1, <2>1
  <2>3. PICK s \in S : \A j \in S : s <= j
    BY <2>2, LeastNatural
  <2> QED
    BY <2>1, <2>3
<1>3. Least \in SUBSET Nat
  BY <1>1
<1>4. PICK n \in Least : \A k \in Least : n <= k
  BY <1>2, <1>3, LeastNatural
<1>5. \A k \in mask \ {n} : \/ size[n] < size[k]
                            \/ size[n] = size[k] /\ n < k
  <2> SUFFICES ASSUME NEW k \in mask \ {n}
               PROVE  \/ size[n] < size[k]
                      \/ size[n] = size[k] /\ n < k
    OBVIOUS
  <2> HIDE DEF size
  <2>1. size[n] <= size[k] /\ size[n] \in Nat /\ size[k] \in Nat
    BY <1>1, <1>4
  <2>2. CASE size[n] = size[k]
    <3>1. k \in Least
      BY <1>4, <2>2
    <3> QED
      BY <1>1, <1>4, <2>2, <3>1
  <2> QED
    BY <2>1, <2>2
<1>6. n \in mask
  BY <1>4
<1>7. \A k \in mask \ {n} :
        \/ Size(componentPools[n]) < Size(componentPools[k])
        \/ Size(componentPools[n]) = Size(componentPools[k]) /\ n < k
  BY <1>5, <1>6
<1> QED
  BY <1>6, <1>7 DEF SmallestPool

LEMMA EntitiesWithStep ==
  ASSUME TypeInv, NEW types \in SUBSET CompTypes, EntitiesWith(types)
  PROVE  TypeInv'
<1> DEFINE mask == {compTypeToCompIndex[c] : c \in types}
           n == SmallestPool(mask)
           new == [mask |-> mask, pool |-> n, pos |-> 0,
                   end |-> Size(componentPools[n]),
                   kept |-> {e \in Living : Matches(mask, e)}, visited |-> {}]
<1>0. PICK loop : loop = new
  OBVIOUS
<1>1. mask \subseteq Numbers /\ mask # {}
  BY DEF EntitiesWith, Searchable, Registered, TypeInv, RegistryType
<1>2. /\ ~componentPools[n].softRemoveMode
      /\ componentPools' = [componentPools EXCEPT ![n] = EnableSoftRemove(@)]
      /\ loops' = loops \cup {loop}
      /\ UNCHANGED <<compTypeToCompIndex, entCompMasks, entIndexToGen,
                     indexIsAlive, terminated, taint>>
      /\ ~terminated
  BY <1>0 DEF EntitiesWith, PoolIsFree
<1>3. n \in mask /\ n \in Numbers
  BY <1>1, SmallestPoolOfMask
<1>4. loop.mask = mask /\ loop.pool = n /\ loop.pos = 0
      /\ loop.end = Size(componentPools[n])
      /\ loop.kept \subseteq Ids /\ loop.visited = {}
  BY <1>0 DEF Living
<1>5. loop \in [mask : {mask}, pool : {n}, pos : {0}, end : {Size(componentPools[n])},
                kept : SUBSET Ids, visited : SUBSET Ids]
  BY <1>0 DEF Living
<1> HIDE DEF mask, n, new
<1>6. PICK p : p = componentPools[n]
  OBVIOUS
<1>7. PICK q : q = componentPools'[n]
  OBVIOUS
<1>8. Loose(p) /\ q = [p EXCEPT !.softRemoveMode = TRUE]
  BY <1>2, <1>3, <1>6, <1>7 DEF TypeInv, PoolsType, EnableSoftRemove, Numbers
<1>9. /\ Loose(q)
      /\ q.softRemoveMode
      /\ q.lastCompIndex = p.lastCompIndex
  BY <1>8, ToggleLoose
<1>10. Size(q) = Size(p) /\ Size(p) \in Nat
  BY <1>8, <1>9, LooseFacts DEF Size
<1>11. Numbers' = Numbers /\ \A k \in Numbers \ {n} : componentPools'[k] = componentPools[k]
  BY <1>2, <1>3 DEF Numbers
<1>12. Numbers \subseteq Nat
  BY DEF TypeInv, RegistryType
<1>13. loop \in LoopRecord
  <2>1. mask \in SUBSET Nat /\ n \in Nat /\ 0 \in Nat /\ Size(componentPools[n]) \in Nat
    BY <1>1, <1>3, <1>6, <1>10, <1>12
  <2> QED
    BY <1>5, <2>1 DEF LoopRecord
<1>14. LoopType(loop)'
  <2>1. loop.end = Size(q) /\ loop.pos \in 0 .. loop.end
    BY <1>4, <1>6, <1>10
  <2> QED
    BY <1>1, <1>3, <1>4, <1>7, <1>10, <1>11, <2>1 DEF LoopType
<1>15. PoolsType'
  <2>1. \A k \in Numbers : Loose(componentPools'[k])
    BY <1>7, <1>9, <1>11 DEF TypeInv, PoolsType
  <2> QED
    BY <1>11, <2>1 DEF PoolsType
<1>16. LoopsType'
  <2>1. ASSUME NEW l \in loops PROVE l \in LoopRecord /\ LoopType(l)' /\ l.pool \in l.mask
    <3>1. l \in LoopRecord /\ LoopType(l) /\ l.pool \in l.mask
      BY DEF TypeInv, LoopsType
    <3>2. l.pool # n
      BY <1>2, <1>3 DEF TypeInv, LocksMatchLoops
    <3> QED
      BY <1>11, <3>1, <3>2 DEF LoopType
  <2> QED
    BY <1>2, <1>3, <1>4, <1>13, <1>14, <2>1 DEF LoopsType
<1>17. LocksMatchLoops'
  <2>1. /\ \A k \in Numbers :
             componentPools[k].softRemoveMode <=> \E l \in loops : l.pool = k
        /\ \A one, other \in loops : one.pool = other.pool => one = other
        /\ \A k \in Numbers :
             ~componentPools[k].softRemoveMode =>
               componentPools[k].softRemoveCompIndexes = << >>
    BY <1>2 DEF TypeInv, LocksMatchLoops
  <2>2. \A k \in Numbers :
          componentPools'[k].softRemoveMode <=> \E l \in loops' : l.pool = k
    BY <1>2, <1>4, <1>7, <1>9, <1>11, <2>1
  <2>3. \A one, other \in loops' : one.pool = other.pool => one = other
    BY <1>2, <1>3, <1>4, <2>1
  <2>4. \A k \in Numbers :
          ~componentPools'[k].softRemoveMode =>
            componentPools'[k].softRemoveCompIndexes = << >>
    BY <1>7, <1>9, <1>11, <2>1
  <2> QED
    BY <1>11, <2>2, <2>3, <2>4 DEF LocksMatchLoops
<1>18. RegistryType'
  BY <1>2, <1>11, RegistryStays
<1>19. MasksType' /\ EntitiesType'
  BY <1>2, <1>11 DEF TypeInv, MasksType, EntitiesType
<1> QED
  BY <1>2, <1>15, <1>16, <1>17, <1>18, <1>19 DEF TypeInv

(***************************************************************************)
(* A slot to visit is owned by an entity, for the null id's mask is blank, *)
(* and Visit goes to the first one.                                        *)
(***************************************************************************)
LEMMA SlotsToVisitFacts ==
  ASSUME TypeInv, NEW loop \in loops, NEW k \in SlotsToVisit(loop)
  PROVE  LET p == componentPools[loop.pool]
         IN  /\ k \in Nat /\ loop.pos <= k /\ k < loop.end
             /\ k \in Slots(p)
             /\ k \in DOMAIN p.components
             /\ EntityAt(p, k) \in Ids
             /\ EntityAt(p, k) # NullId
             /\ Matches(loop.mask, EntityAt(p, k))
<1>1. /\ loop \in LoopRecord /\ loop.pool \in loop.mask
      /\ loop.pool \in Numbers /\ loop.end <= Size(componentPools[loop.pool])
  BY DEF TypeInv, LoopsType, LoopType
<1>2. PICK p : p = componentPools[loop.pool]
  OBVIOUS
<1>3. Loose(p) /\ Size(p) \in Nat /\ p.components \in [DOMAIN p.components -> Component]
      /\ p.lastCompIndex \in Int
  BY <1>1, <1>2, LooseFacts DEF TypeInv, PoolsType
<1>4. /\ k \in loop.pos .. loop.end - 1
      /\ k \in DOMAIN p.components
      /\ Matches(loop.mask, EntityAt(p, k))
  BY <1>2 DEF SlotsToVisit
<1>5. k \in Nat /\ loop.pos <= k /\ k < loop.end
  BY <1>1, <1>4 DEF LoopRecord
<1>6. k \in Slots(p)
  <2>1. loop.end \in Nat /\ loop.end <= p.lastCompIndex + 1
    BY <1>1, <1>2 DEF LoopRecord, Size
  <2> QED
    BY <1>3, <1>5, <2>1 DEF Slots
<1>7. EntityAt(p, k) \in Ids \cup {NullId}
  BY <1>3, <1>4 DEF EntityAt, Component
<1>8. EntityAt(p, k) # NullId
  BY <1>1, <1>4 DEF Matches, TypeInv, MasksType
<1> QED
  BY <1>2, <1>4, <1>5, <1>6, <1>7, <1>8

LEMMA VisitFacts ==
  ASSUME TypeInv, NEW loop \in loops, Visit(loop)
  PROVE  \E k \in SlotsToVisit(loop) :
           /\ \A j \in SlotsToVisit(loop) : k <= j
           /\ LoopBecomes(loop,
                [loop EXCEPT !.pos = k + 1,
                             !.visited = @ \cup {EntityAt(componentPools[loop.pool], k)}])
<1>1. SlotsToVisit(loop) \subseteq Nat /\ SlotsToVisit(loop) # {}
  BY SlotsToVisitFacts DEF Visit
<1>2. \E k \in SlotsToVisit(loop) : \A j \in SlotsToVisit(loop) : k <= j
  BY <1>1, LeastNatural
<1> DEFINE k == CHOOSE j \in SlotsToVisit(loop) :
                  \A l \in SlotsToVisit(loop) : j <= l
<1>3. k \in SlotsToVisit(loop) /\ \A j \in SlotsToVisit(loop) : k <= j
  BY <1>2
<1>4. LoopBecomes(loop,
        [loop EXCEPT !.pos = k + 1,
                     !.visited = @ \cup {EntityAt(componentPools[loop.pool], k)}])
  BY DEF Visit
<1> HIDE DEF k
<1> QED
  BY <1>3, <1>4

LEMMA LoopBecomesStep ==
  ASSUME TypeInv, NEW loop \in loops, NEW next \in LoopRecord,
         LoopBecomes(loop, next),
         next.mask = loop.mask, next.pool = loop.pool, next.end = loop.end,
         next.pos \in 0 .. next.end,
         UNCHANGED <<compMgr, entIndexToGen, indexIsAlive, terminated, taint>>
  PROVE  TypeInv'
<1>1. loops' = (loops \ {loop}) \cup {next}
  BY DEF LoopBecomes
<1>2. /\ UNCHANGED <<compTypeToCompIndex, componentPools, entCompMasks>>
      /\ UNCHANGED <<entIndexToGen, indexIsAlive, terminated, taint>>
      /\ Numbers' = Numbers
  BY DEF compMgr, Numbers
<1>3. RegistryType' /\ PoolsType' /\ MasksType' /\ EntitiesType'
  BY <1>2, RegistryStays DEF TypeInv, PoolsType, MasksType, EntitiesType
<1>4. PoolsGoOn
  BY <1>2, StaysAsItIs DEF PoolsGoOn, TypeInv, PoolsType
<1>5. \A l \in loops : l \in LoopRecord /\ l.pos \in 0 .. l.end
  BY DEF TypeInv, LoopsType, LoopType
<1>6. LoopsType'
  BY <1>1, <1>4, <1>5, LoopsKeepType
<1>7. LocksMatchLoops'
  <2>1. /\ \A n \in Numbers :
             componentPools[n].softRemoveMode <=> \E l \in loops : l.pool = n
        /\ \A one, other \in loops : one.pool = other.pool => one = other
        /\ \A n \in Numbers :
             ~componentPools[n].softRemoveMode /\ ~terminated =>
               componentPools[n].softRemoveCompIndexes = << >>
    BY DEF TypeInv, LocksMatchLoops
  <2>2. \A n : (\E l \in loops : l.pool = n) <=> (\E l \in loops' : l.pool = n)
    BY <1>1
  <2>3. \A one, other \in loops' : one.pool = other.pool => one = other
    BY <1>1, <2>1
  <2>4. \A n \in Numbers :
          componentPools[n].softRemoveMode <=> \E l \in loops' : l.pool = n
    BY <2>1, <2>2
  <2> QED
    BY <1>2, <2>1, <2>3, <2>4 DEF LocksMatchLoops
<1> QED
  BY <1>2, <1>3, <1>6, <1>7 DEF TypeInv

LEMMA VisitStep ==
  ASSUME TypeInv, NEW loop \in loops, Visit(loop)
  PROVE  TypeInv'
<1>1. PICK k \in SlotsToVisit(loop) :
        LoopBecomes(loop,
          [loop EXCEPT !.pos = k + 1,
                       !.visited = @ \cup {EntityAt(componentPools[loop.pool], k)}])
  BY VisitFacts
<1>2. loop \in LoopRecord
  BY DEF TypeInv, LoopsType
<1>3. /\ k \in Nat /\ k < loop.end
      /\ EntityAt(componentPools[loop.pool], k) \in Ids
  BY SlotsToVisitFacts
<1>4. PICK e \in Ids : e = EntityAt(componentPools[loop.pool], k)
  BY <1>3
<1>5. PICK next : next = [loop EXCEPT !.pos = k + 1, !.visited = loop.visited \cup {e}]
  OBVIOUS
<1>6. /\ next \in LoopRecord
      /\ next.mask = loop.mask /\ next.pool = loop.pool /\ next.end = loop.end
      /\ next.pos \in 0 .. next.end
  <2>1. loop.visited \cup {e} \in SUBSET Ids
    BY <1>2, <1>4 DEF LoopRecord
  <2>2. k + 1 \in Nat /\ loop.end \in Nat /\ k + 1 \in 0 .. loop.end
    BY <1>2, <1>3 DEF LoopRecord
  <2>3. /\ next.mask = loop.mask /\ next.pool = loop.pool /\ next.end = loop.end
        /\ next.pos = k + 1
    BY <1>2, <1>5 DEF LoopRecord
  <2>4. next \in LoopRecord
    BY <1>2, <1>5, <2>1, <2>2 DEF LoopRecord
  <2> QED
    BY <2>2, <2>3, <2>4
<1>7. LoopBecomes(loop, next)
  BY <1>1, <1>4, <1>5
<1>8. UNCHANGED <<compMgr, entIndexToGen, indexIsAlive, terminated, taint>>
  BY DEF Visit
<1> QED
  BY <1>6, <1>7, <1>8, LoopBecomesStep

LEMMA LoopAgainStep ==
  ASSUME TypeInv, NEW loop \in loops, LoopAgain(loop)
  PROVE  TypeInv'
<1>1. loop \in LoopRecord
  BY DEF TypeInv, LoopsType
<1> DEFINE next == [loop EXCEPT !.pos = 0, !.visited = {}]
<1>2. /\ next \in LoopRecord
      /\ next.mask = loop.mask /\ next.pool = loop.pool /\ next.end = loop.end
      /\ next.pos = 0
  BY <1>1 DEF LoopRecord
<1>3. /\ LoopBecomes(loop, next)
      /\ UNCHANGED <<compMgr, entIndexToGen, indexIsAlive, terminated, taint>>
  BY DEF LoopAgain
<1> HIDE DEF next
<1>4. next.pos \in 0 .. next.end
  <2>1. loop.end \in Nat
    BY <1>1 DEF LoopRecord
  <2> QED
    BY <1>2, <2>1
<1> QED
  BY <1>2, <1>3, <1>4, LoopBecomesStep

LEMMA EndLoopStep ==
  ASSUME TypeInv, NEW loop \in loops, EndLoop(loop)
  PROVE  TypeInv'
<1> DEFINE n == loop.pool
<1>1. n \in Numbers /\ loop \in LoopRecord
  BY DEF TypeInv, LoopsType, LoopType
<1>2. PICK p : p = componentPools[n]
  OBVIOUS
<1>3. PICK q : q = DisableSoftRemove(AfterRounds(p, Len(p.softRemoveCompIndexes)))
  OBVIOUS
<1>4. /\ componentPools' = [componentPools EXCEPT ![n] = q]
      /\ loops' = loops \ {loop}
      /\ UNCHANGED <<compTypeToCompIndex, entCompMasks, entIndexToGen, indexIsAlive>>
      /\ ~terminated
      /\ taint' \subseteq taint \cup {"tailSwap"}
  BY <1>2, <1>3 DEF EndLoop
<1>5. Loose(p)
  BY <1>1, <1>2 DEF TypeInv, PoolsType
<1>6. Loose(q) /\ ~q.softRemoveMode /\ q.softRemoveCompIndexes = << >>
  BY <1>3, <1>5, DrainedLoose
<1>7. /\ Numbers' = Numbers
      /\ componentPools'[n] = q
      /\ \A k \in Numbers \ {n} : componentPools'[k] = componentPools[k]
  BY <1>1, <1>4 DEF Numbers
<1> HIDE DEF n
<1>8. RegistryType' /\ MasksType' /\ EntitiesType'
  BY <1>4, <1>7, RegistryStays DEF TypeInv, MasksType, EntitiesType
<1>9. PoolsType'
  BY <1>6, <1>7 DEF TypeInv, PoolsType
<1>10. /\ \A k \in Numbers :
            componentPools[k].softRemoveMode <=> \E l \in loops : l.pool = k
       /\ \A one, other \in loops : one.pool = other.pool => one = other
       /\ \A k \in Numbers :
            ~componentPools[k].softRemoveMode =>
              componentPools[k].softRemoveCompIndexes = << >>
  BY <1>4 DEF TypeInv, LocksMatchLoops
<1>11. \A l \in loops' : l \in loops /\ l.pool # n
  BY <1>4, <1>10 DEF n
<1>12. LoopsType'
  <2>1. ASSUME NEW l \in loops' PROVE l \in LoopRecord /\ LoopType(l)' /\ l.pool \in l.mask
    <3>1. l \in LoopRecord /\ LoopType(l) /\ l.pool \in l.mask
      BY <1>11 DEF TypeInv, LoopsType
    <3> QED
      BY <1>7, <1>11, <3>1 DEF LoopType
  <2> QED
    BY <2>1 DEF LoopsType
<1>13. LocksMatchLoops'
  <2>1. ASSUME NEW k \in Numbers
        PROVE  /\ componentPools'[k].softRemoveMode <=> \E l \in loops' : l.pool = k
               /\ ~componentPools'[k].softRemoveMode =>
                    componentPools'[k].softRemoveCompIndexes = << >>
    <3>1. CASE k = n
      BY <1>6, <1>7, <1>11, <3>1
    <3>2. CASE k # n
      <4>1. (\E l \in loops : l.pool = k) <=> (\E l \in loops' : l.pool = k)
        BY <1>4, <3>2 DEF n
      <4> QED
        BY <1>7, <1>10, <3>2, <4>1
    <3> QED
      BY <3>1, <3>2
  <2>2. \A one, other \in loops' : one.pool = other.pool => one = other
    BY <1>10, <1>11
  <2> QED
    BY <1>7, <2>1, <2>2 DEF LocksMatchLoops
<1>14. (taint \subseteq Taints)'
  BY <1>4 DEF TypeInv, Taints
<1> QED
  BY <1>8, <1>9, <1>12, <1>13, <1>14 DEF TypeInv

-----------------------------------------------------------------------------
(* The theorems of the type invariant. *)

LEMMA NewEntityStep ==
  ASSUME TypeInv, NEW e \in Ids, NewEntity(e.index)
  PROVE  TypeInv'
<1>1. PICK i : i = e.index
  OBVIOUS
<1>2. PICK g : g = NextGen(i)
  OBVIOUS
<1>3. /\ entIndexToGen' = Put(entIndexToGen, i, g)
      /\ indexIsAlive' = Put(indexIsAlive, i, TRUE)
      /\ entCompMasks' = IF i \in DOMAIN entCompMasks THEN entCompMasks
                                                      ELSE Put(entCompMasks, i, {})
      /\ UNCHANGED <<compTypeToCompIndex, componentPools, loops, terminated, taint>>
      /\ ~terminated
  BY <1>1, <1>2 DEF NewEntity
<1>4. g \in Nat
  BY <1>2 DEF NextGen, TypeInv, EntitiesType
<1>5. i # NullId.index
  BY <1>1, EcsAssumption
<1>6. Numbers' = Numbers
  BY <1>3 DEF Numbers
<1>7. EntitiesType'
  BY <1>1, <1>3, <1>4 DEF TypeInv, EntitiesType, Put
<1>8. MasksType'
  BY <1>3, <1>5, <1>6 DEF TypeInv, MasksType, Put
<1>9. RegistryType'
  BY <1>3, <1>6, RegistryStays
<1>10. PoolsGoOn
  BY <1>3, <1>6, StaysAsItIs DEF PoolsGoOn, TypeInv, PoolsType
<1>11. PoolsType' /\ LoopsType' /\ LocksMatchLoops'
  BY <1>3, <1>10, LoopsGoOnKeep
<1> QED
  BY <1>3, <1>7, <1>8, <1>9, <1>11 DEF TypeInv

\* The steps that leave the loops to LoopsGoOn.
LEMMA TypeInvKept ==
  ASSUME TypeInv, PoolsGoOn, RegistryType', MasksType', EntitiesType',
         taint' \subseteq Taints, ~terminated, LoopsGoOn \/ UNCHANGED loops
  PROVE  TypeInv'
  BY LoopsGoOnKeep DEF TypeInv

LEMMA TypeInvNext == TypeInv /\ [Next]_vars => TypeInv'
<1> SUFFICES ASSUME TypeInv, [Next]_vars PROVE TypeInv'
  OBVIOUS
<1>1. ASSUME NEW e \in Ids, NewEntity(e.index) PROVE TypeInv'
  BY <1>1, NewEntityStep
<1>2. ASSUME NEW c \in CompTypes, Register(c) PROVE TypeInv'
  <2>1. /\ RegisterComponentType(c) /\ ~terminated
        /\ UNCHANGED <<entIndexToGen, indexIsAlive, loops, terminated, taint>>
    BY <1>2 DEF Register
  <2>2. PoolsGoOn /\ RegistryType'
    BY <2>1, RegisterStep
  <2>3. UNCHANGED entCompMasks /\ Numbers \subseteq Numbers'
    BY <2>1, <2>2 DEF RegisterComponentType, PoolsGoOn
  <2>4. MasksType' /\ EntitiesType' /\ taint' \subseteq Taints
    BY <2>1, <2>3 DEF TypeInv, MasksType, EntitiesType
  <2> QED
    BY <2>1, <2>2, <2>4, TypeInvKept
<1>3. ASSUME NEW e \in Known, NEW c \in CompTypes, Assign(e, c) PROVE TypeInv'
  <2>1. /\ AssignMakes(e, c) \/ AssignThrows(e, c) \/ AssignRefused(e, c)
        /\ ~terminated /\ LoopsGoOn
        /\ UNCHANGED <<entIndexToGen, indexIsAlive>>
    BY <1>3 DEF Assign
  <2>2. taint' \subseteq Taints
    BY <1>3 DEF Assign, Taint, AssignTaints, TypeInv, Taints
  <2>3. PoolsGoOn /\ RegistryType' /\ MasksType'
    BY <2>1, AssignStep
  <2>4. EntitiesType'
    BY <2>1 DEF TypeInv, EntitiesType
  <2> QED
    BY <2>1, <2>2, <2>3, <2>4, TypeInvKept
<1>4. ASSUME NEW e \in Known, NEW c \in CompTypes, RemoveComponent(e, c)
      PROVE  TypeInv'
  <2>1. /\ RemoveFromPool(e, c) /\ ~terminated /\ LoopsGoOn
        /\ UNCHANGED <<entIndexToGen, indexIsAlive, taint>>
    BY <1>4 DEF RemoveComponent
  <2>2. PoolsGoOn /\ RegistryType' /\ MasksType'
    BY <2>1, RemoveFromPoolStep
  <2>3. EntitiesType' /\ taint' \subseteq Taints
    BY <2>1 DEF TypeInv, EntitiesType
  <2> QED
    BY <2>1, <2>2, <2>3, TypeInvKept
<1>5. ASSUME NEW e \in Known, RemoveAllComponents(e) \/ DestroyThrows(e)
      PROVE  TypeInv'
  <2>1. /\ RemoveAll(e) /\ ~terminated /\ LoopsGoOn
        /\ UNCHANGED <<entIndexToGen, indexIsAlive, taint>>
    BY <1>5 DEF RemoveAllComponents, DestroyThrows
  <2>2. PoolsGoOn /\ RegistryType' /\ MasksType'
    BY <2>1, RemoveAllStep
  <2>3. EntitiesType' /\ taint' \subseteq Taints
    BY <2>1 DEF TypeInv, EntitiesType
  <2> QED
    BY <2>1, <2>2, <2>3, TypeInvKept
<1>6. ASSUME NEW e \in Known, Destroy(e) PROVE TypeInv'
  <2>1. /\ RemoveAll(e) /\ ~terminated /\ LoopsGoOn /\ UNCHANGED taint
        /\ entIndexToGen' = [entIndexToGen EXCEPT ![e.index] = @ + 1]
        /\ indexIsAlive' = [indexIsAlive EXCEPT ![e.index] = FALSE]
    BY <1>6 DEF Destroy
  <2>2. PoolsGoOn /\ RegistryType' /\ MasksType'
    BY <2>1, RemoveAllStep
  <2>3. EntitiesType'
    <3>1. EntitiesType /\ e.index \in DOMAIN entIndexToGen
      BY KnownFacts DEF TypeInv
    <3>2. /\ DOMAIN entIndexToGen' = DOMAIN entIndexToGen
          /\ DOMAIN indexIsAlive' = DOMAIN indexIsAlive
      BY <2>1
    <3>3. \A i \in DOMAIN entIndexToGen : entIndexToGen'[i] \in Nat
      BY <2>1, <3>1 DEF EntitiesType
    <3>4. \A i \in DOMAIN indexIsAlive :
            indexIsAlive'[i] = FALSE \/ indexIsAlive'[i] = indexIsAlive[i]
      BY <2>1, Zenon
    <3>5. \A i \in DOMAIN entIndexToGen : indexIsAlive'[i] \in BOOLEAN
      BY <3>1, <3>4, Zenon DEF EntitiesType
    <3> QED
      BY <3>1, <3>2, <3>3, <3>5 DEF EntitiesType
  <2>4. taint' \subseteq Taints
    BY <2>1 DEF TypeInv
  <2> QED
    BY <2>1, <2>2, <2>3, <2>4, TypeInvKept
<1>7. ASSUME NEW types \in SUBSET CompTypes, EntitiesWith(types) PROVE TypeInv'
  BY <1>7, EntitiesWithStep
<1>8. ASSUME NEW loop \in loops, Visit(loop) PROVE TypeInv'
  BY <1>8, VisitStep
<1>9. CASE \/ \E e \in Ids : NewEntityTraps(e.index)
           \/ \E loop \in loops : VisitTraps(loop)
  <2>1. /\ UNCHANGED <<compTypeToCompIndex, componentPools, entCompMasks>>
        /\ UNCHANGED <<entIndexToGen, indexIsAlive, loops, taint>>
        /\ ~terminated
    BY <1>9 DEF NewEntityTraps, VisitTraps, compMgr
  <2>2. Numbers' = Numbers
    BY <2>1 DEF Numbers
  <2>3. RegistryType' /\ MasksType' /\ EntitiesType'
    BY <2>1, <2>2, RegistryStays DEF TypeInv, MasksType, EntitiesType
  <2>4. PoolsGoOn
    BY <2>1, <2>2, StaysAsItIs DEF PoolsGoOn, TypeInv, PoolsType
  <2>5. taint' \subseteq Taints
    BY <2>1 DEF TypeInv
  <2> QED
    BY <2>1, <2>3, <2>4, <2>5, TypeInvKept
<1>10. ASSUME NEW loop \in loops, LoopAgain(loop) PROVE TypeInv'
  BY <1>10, LoopAgainStep
<1>11. ASSUME NEW loop \in loops, EndLoop(loop) PROVE TypeInv'
  BY <1>11, EndLoopStep
<1>12. CASE UNCHANGED vars
  BY <1>12
  DEF vars, compMgr, TypeInv, RegistryType, PoolsType, MasksType, EntitiesType,
      LoopsType, LoopType, LocksMatchLoops, Numbers, ComponentTypeCount
<1> QED
  BY <1>1, <1>2, <1>3, <1>4, <1>5, <1>6, <1>7, <1>8, <1>9, <1>10, <1>11, <1>12
  DEF Next

(***************************************************************************)
(* In every state: component types are numbered in the order in which they *)
(* are registered, once each; masks hold only numbers that have a pool and *)
(* a bit; no loop leaves its pool, though pools shrink while other loops   *)
(* end, and the slot counter may run ahead of the vector.                  *)
(***************************************************************************)
THEOREM EcsTypeCorrect == Spec => []TypeOK
<1>1. Spec => []TypeInv
  BY TypeInvInit, TypeInvNext, PTL DEF Spec
<1> QED
  BY <1>1, TypeInvTypeOK, PTL

(***************************************************************************)
(* In every state a pool is in soft remove mode exactly while one loop     *)
(* goes over it, no two loops share a pool, and, unless a destructor has   *)
(* thrown and stopped the program, a pool that no loop goes over has       *)
(* nothing left in its queue: however loops are nested, and whatever their *)
(* bodies assign, remove and destroy, with or without exceptions,          *)
(* EntitiesWith and the destructor of its collection pair up.              *)
(***************************************************************************)
THEOREM LocksFollowLoops == Spec => []LocksMatchLoops
<1>1. Spec => []TypeInv
  BY TypeInvInit, TypeInvNext, PTL DEF Spec
<1>2. TypeInv => LocksMatchLoops
  BY DEF TypeInv
<1> QED
  BY <1>1, <1>2, PTL

-----------------------------------------------------------------------------
(* Masks and pools. *)

\* Neither of the mistakes that leave masks and pools apart has been made.
Orderly == Untainted({"reassign", "threw"})

\* The indexes whose mask has the number n.
Owning(n) == {i \in DOMAIN entCompMasks : n \in entCompMasks[i]}

MasksExact ==
  \A n \in Numbers : /\ Sound(componentPools[n])
                     /\ Mapped(componentPools[n]) = Owning(n)

\* The pool that an operation finds: a number given just now has an empty one.
Found(n) == IF n \in Numbers THEN componentPools[n] ELSE EmptyPool

\* What an operation that is no mistake does to the pool p.
PoolChange(p, q) ==
  \/ q = p
  \/ \E e \in Known, v \in Values :
       /\ Untainted({"staleId"})' => e \in Living
       /\ ~HasComponent(p, e)
       /\ Size(p) < MaxSlots
       /\ q = NewComponent(p, e, v)
  \/ \E e \in Known : HasComponent(p, e) /\ q = Remove(p, e)

PoolsChange ==
  /\ Numbers \subseteq Numbers'
  /\ \A n \in Numbers' : /\ PoolChange(Found(n), componentPools'[n])
                         /\ Mapped(componentPools'[n]) = Owning(n)'

LEMMA PoolChangeSound ==
  ASSUME TypeInv, NEW p, Sound(p), NEW q, PoolChange(p, q)
  PROVE  Sound(q)
<1>1. CASE q = p
  BY <1>1
<1>2. ASSUME NEW e \in Known, NEW v \in Values, ~HasComponent(p, e),
             Size(p) < MaxSlots, q = NewComponent(p, e, v)
      PROVE  Sound(q)
  BY <1>2, KnownFacts, NewComponentSound
<1>3. ASSUME NEW e \in Known, HasComponent(p, e), q = Remove(p, e)
      PROVE  Sound(q)
  BY <1>3, KnownFacts, RemoveSound
<1> QED
  BY <1>1, <1>2, <1>3 DEF PoolChange

LEMMA FoundSound ==
  ASSUME TypeInv, MasksExact, NEW n
  PROVE  /\ Sound(Found(n))
         /\ Mapped(Found(n)) = Owning(n)
<1>1. CASE n \in Numbers
  BY <1>1 DEF MasksExact, Found
<1>2. CASE n \notin Numbers
  <2>1. Owning(n) = {}
    BY <1>2 DEF Owning, TypeInv, MasksType
  <2> QED
    BY <1>2, <2>1, EmptyPoolSound DEF Found
<1> QED
  BY <1>1, <1>2

\* A pool has a component of e exactly if e's mask says so.
LEMMA FoundHas ==
  ASSUME TypeInv, MasksExact, NEW n, NEW e \in Known
  PROVE  HasComponent(Found(n), e) <=> n \in entCompMasks[e.index]
<1>1. PICK p : p = Found(n)
  OBVIOUS
<1>2. Sound(p) /\ Mapped(p) = Owning(n)
  BY <1>1, FoundSound
<1>3. PoolType(p)
  BY <1>2, SoundFacts
<1>4. HasComponent(p, e) <=> e.index \in Mapped(p)
  BY <1>3, MappedFacts
<1>5. e.index \in DOMAIN entCompMasks
  BY KnownFacts
<1> QED
  BY <1>1, <1>2, <1>4, <1>5 DEF Owning

LEMMA PoolsChangeMasks ==
  ASSUME TypeInv, MasksExact, PoolsChange
  PROVE  MasksExact'
<1> SUFFICES ASSUME NEW n \in Numbers'
             PROVE  /\ Sound(componentPools'[n])
                    /\ Mapped(componentPools'[n]) = Owning(n)'
  BY DEF MasksExact
<1>1. Sound(Found(n))
  BY FoundSound
<1>2. PICK q : q = componentPools'[n]
  OBVIOUS
<1>3. PoolChange(Found(n), q)
  BY <1>2 DEF PoolsChange
<1>4. Sound(q)
  BY <1>1, <1>3, PoolChangeSound
<1> QED
  BY <1>2, <1>4 DEF PoolsChange

-----------------------------------------------------------------------------
(* The steps, as changes of the pools. *)

LEMMA NothingChanges ==
  ASSUME TypeInv, MasksExact, UNCHANGED <<componentPools, entCompMasks>>
  PROVE  PoolsChange
<1>1. Numbers' = Numbers
  BY DEF Numbers
<1>2. ASSUME NEW n \in Numbers'
      PROVE  /\ PoolChange(Found(n), componentPools'[n])
             /\ Mapped(componentPools'[n]) = Owning(n)'
  <2>1. componentPools'[n] = Found(n)
    BY <1>1 DEF Found
  <2>2. Owning(n)' = Owning(n)
    BY DEF Owning
  <2> QED
    BY <2>1, <2>2, FoundSound DEF PoolChange
<1> QED
  BY <1>1, <1>2 DEF PoolsChange

LEMMA NewEntityChange ==
  ASSUME TypeInv, MasksExact, NEW e \in Ids, NewEntity(e.index)
  PROVE  PoolsChange
<1>1. PICK i : i = e.index
  OBVIOUS
<1>2. /\ entCompMasks' = IF i \in DOMAIN entCompMasks THEN entCompMasks
                                                      ELSE Put(entCompMasks, i, {})
      /\ UNCHANGED componentPools
      /\ Numbers' = Numbers
  BY <1>1 DEF NewEntity, Numbers
<1>3. ASSUME NEW n \in Numbers'
      PROVE  /\ PoolChange(Found(n), componentPools'[n])
             /\ Mapped(componentPools'[n]) = Owning(n)'
  <2>1. componentPools'[n] = Found(n)
    BY <1>2 DEF Found
  <2>2. Owning(n)' = Owning(n)
    BY <1>2 DEF Owning, Put
  <2> QED
    BY <2>1, <2>2, FoundSound DEF PoolChange
<1> QED
  BY <1>2, <1>3 DEF PoolsChange

\* The pools but that of c stay as they are.
LEMMA PoolBecomesChange ==
  ASSUME TypeInv, MasksExact, NEW c \in CompTypes, NEW q, PoolBecomes(c, q),
         NEW k, k = CompIndex(c), PoolChange(Found(k), q), Mapped(q) = Owning(k)',
         \A n \in Numbers \ {k} : Owning(n)' = Owning(n)
  PROVE  PoolsChange
<1>1. /\ Numbers' = Numbers \cup {k}
      /\ componentPools'[k] = q
      /\ \A n \in Numbers \ {k} : componentPools'[n] = componentPools[n]
  BY PoolBecomesFacts
<1>2. ASSUME NEW n \in Numbers'
      PROVE  /\ PoolChange(Found(n), componentPools'[n])
             /\ Mapped(componentPools'[n]) = Owning(n)'
  <2>1. CASE n = k
    BY <1>1, <2>1
  <2>2. CASE n # k
    <3>1. n \in Numbers /\ componentPools'[n] = Found(n)
      BY <1>1, <2>2 DEF Found
    <3>2. Owning(n)' = Owning(n)
      BY <2>2, <3>1
    <3> QED
      BY <3>1, <3>2, FoundSound DEF PoolChange
  <2> QED
    BY <2>1, <2>2
<1> QED
  BY <1>1, <1>2 DEF PoolsChange

LEMMA PoolOfIsFound ==
  ASSUME TypeInv, NEW c \in CompTypes
  PROVE  PoolOf(c) = Found(CompIndex(c))
<1>1. /\ Registered(c) <=> CompIndex(c) \in Numbers
      /\ \A n \in Numbers : PoolsWith(c)[n] = componentPools[n]
      /\ ~Registered(c) => PoolOf(c) = EmptyPool
  BY PoolsWithFacts
<1> QED
  BY <1>1 DEF PoolOf, Found

LEMMA RegisterChange ==
  ASSUME TypeInv, MasksExact, NEW c \in CompTypes, RegisterComponentType(c)
  PROVE  PoolsChange
<1>1. PICK p : p = PoolOf(c)
  OBVIOUS
<1>2. PoolBecomes(c, p) /\ UNCHANGED entCompMasks
  BY <1>1, RegisterStep DEF RegisterComponentType
<1>3. p = Found(CompIndex(c))
  BY <1>1, PoolOfIsFound
<1>4. \A n : Owning(n)' = Owning(n)
  BY <1>2 DEF Owning
<1>5. PICK k : k = CompIndex(c)
  OBVIOUS
<1>6. Mapped(p) = Owning(k)
  BY <1>3, <1>5, FoundSound
<1>7. PoolChange(Found(k), p)
  BY <1>3, <1>5 DEF PoolChange
<1>8. Mapped(p) = Owning(k)'
  BY <1>4, <1>6
<1> QED
  BY <1>2, <1>4, <1>5, <1>7, <1>8, PoolBecomesChange

\* Not "reassign": the mask has no bit of the type yet, and so the pool nothing.
LEMMA AssignChange ==
  ASSUME TypeInv, MasksExact, Orderly', NEW e \in Known, NEW c \in CompTypes,
         Assign(e, c)
  PROVE  PoolsChange
<1>1. CASE AssignRefused(e, c) /\ UNCHANGED taint
  BY <1>1, RegisterChange DEF AssignRefused
<1>2. ASSUME AssignThrows(e, c), Taint(AssignTaints(e, c) \cup {"threw"})
      PROVE  FALSE
  BY <1>2 DEF Orderly, Untainted, Taint
<1>3. ASSUME AssignMakes(e, c), Taint(AssignTaints(e, c)) PROVE PoolsChange
  <2>1. PICK k : k = CompIndex(c)
    OBVIOUS
  <2>2. PICK p : p = PoolOf(c)
    OBVIOUS
  <2>3. PICK v \in Values : AssignBy(e, c, NewComponent(p, e, v))
    BY <1>3, <2>2 DEF AssignMakes
  <2>4. PICK q : q = NewComponent(p, e, v)
    OBVIOUS
  <2>5. /\ PoolBecomes(c, q)
        /\ entCompMasks' = [entCompMasks EXCEPT ![e.index] = @ \cup {k}]
    BY <2>1, <2>3, <2>4 DEF AssignBy, PoolBecomes
  <2>6. /\ e \in Ids /\ e.index \in DOMAIN entCompMasks /\ e.index # NullId.index
    BY KnownFacts
  <2>7. p = Found(k)
    BY <2>1, <2>2, PoolOfIsFound
  <2>8. k \notin entCompMasks[e.index]
    <3>1. ~Has(e, c)
      BY <1>3 DEF Orderly, Untainted, Taint, AssignTaints
    <3>2. ASSUME k \in entCompMasks[e.index] PROVE FALSE
      <4>1. k \in Numbers
        BY <2>6, <3>2 DEF TypeInv, MasksType
      <4>2. Registered(c)
        BY <2>1, <4>1, PoolsWithFacts
      <4> QED
        BY <2>1, <3>1, <3>2, <4>2 DEF Has, CompIndex
    <3> QED
      BY <3>2
  <2>9. Sound(p) /\ Mapped(p) = Owning(k) /\ ~HasComponent(p, e)
    BY <2>7, <2>8, FoundSound, FoundHas
  <2>10. Size(p) < MaxSlots
    BY <2>2 DEF Assign
  <2>11. Mapped(q) = Mapped(p) \cup {e.index}
    BY <2>4, <2>6, <2>9, <2>10, NewComponentSound
  <2>12. /\ Owning(k)' = Owning(k) \cup {e.index}
         /\ \A n \in Numbers \ {k} : Owning(n)' = Owning(n)
    BY <2>5, <2>6 DEF Owning
  <2>13. Untainted({"staleId"})' => e \in Living
    BY <1>3 DEF Untainted, Taint, AssignTaints
  <2>14. PoolChange(Found(k), q)
    BY <2>4, <2>7, <2>9, <2>10, <2>13 DEF PoolChange
  <2>15. Mapped(q) = Owning(k)'
    BY <2>9, <2>11, <2>12
  <2> QED
    BY <2>1, <2>5, <2>12, <2>14, <2>15, PoolBecomesChange
<1> QED
  BY <1>1, <1>2, <1>3 DEF Assign

\* The pool has what the mask says, and removes it without throwing.
LEMMA FoundRemoves ==
  ASSUME TypeInv, MasksExact, NEW e \in Known, NEW n \in entCompMasks[e.index]
  PROVE  /\ n \in Numbers
         /\ ~RemoveThrows(componentPools[n], e)
         /\ AfterRemove(componentPools[n], e) = Remove(componentPools[n], e)
         /\ PoolChange(Found(n), Remove(componentPools[n], e))
         /\ Mapped(Remove(componentPools[n], e)) = Owning(n) \ {e.index}
<1>1. /\ e \in Ids /\ e.index \in DOMAIN entCompMasks
  BY KnownFacts
<1>2. n \in Numbers
  BY <1>1 DEF TypeInv, MasksType
<1>3. PICK p : p = componentPools[n] /\ p = Found(n)
  BY <1>2 DEF Found
<1>4. Sound(p) /\ HasComponent(p, e) /\ Mapped(p) = Owning(n)
  BY <1>3, FoundSound, FoundHas
<1>5. PICK q : q = Remove(p, e)
  OBVIOUS
<1>6. ~RemoveThrows(p, e) /\ Mapped(q) = Mapped(p) \ {e.index}
  BY <1>1, <1>4, <1>5, RemoveSound
<1>7. PoolChange(p, q)
  BY <1>4, <1>5 DEF PoolChange
<1> QED
  BY <1>2, <1>3, <1>4, <1>5, <1>6, <1>7 DEF AfterRemove

LEMMA RemoveFromPoolChange ==
  ASSUME TypeInv, MasksExact, NEW e \in Known, NEW c \in CompTypes,
         RemoveFromPool(e, c)
  PROVE  PoolsChange
<1>1. PICK n : n = compTypeToCompIndex[c]
  OBVIOUS
<1>2. /\ e \in Ids /\ e.index \in DOMAIN entCompMasks
  BY KnownFacts
<1>3. n \in entCompMasks[e.index]
  BY <1>1 DEF RemoveFromPool, Has
<1>4. PICK q : q = Remove(componentPools[n], e)
  OBVIOUS
<1>5. /\ n \in Numbers
      /\ ~RemoveThrows(componentPools[n], e)
      /\ AfterRemove(componentPools[n], e) = q
      /\ PoolChange(Found(n), q)
      /\ Mapped(q) = Owning(n) \ {e.index}
  BY <1>3, <1>4, FoundRemoves
<1>6. /\ componentPools' = [componentPools EXCEPT ![n] = q]
      /\ entCompMasks' = [entCompMasks EXCEPT ![e.index] = @ \ {n}]
  BY <1>1, <1>5 DEF RemoveFromPool
<1>7. /\ Numbers' = Numbers
      /\ componentPools'[n] = q
      /\ \A k \in Numbers \ {n} : componentPools'[k] = componentPools[k]
  BY <1>5, <1>6 DEF Numbers
<1>8. /\ Owning(n)' = Owning(n) \ {e.index}
      /\ \A k \in Numbers \ {n} : Owning(k)' = Owning(k)
  BY <1>2, <1>6 DEF Owning
<1>9. ASSUME NEW k \in Numbers'
      PROVE  /\ PoolChange(Found(k), componentPools'[k])
             /\ Mapped(componentPools'[k]) = Owning(k)'
  <2>1. CASE k = n
    BY <1>5, <1>7, <1>8, <2>1
  <2>2. CASE k # n
    <3>1. componentPools'[k] = Found(k) /\ Owning(k)' = Owning(k)
      BY <1>7, <1>8, <1>9, <2>2 DEF Found
    <3> QED
      BY <3>1, FoundSound DEF PoolChange
  <2> QED
    BY <2>1, <2>2
<1> QED
  BY <1>7, <1>9 DEF PoolsChange

LEMMA RemoveAllChange ==
  ASSUME TypeInv, MasksExact, NEW e \in Known, RemoveAll(e)
  PROVE  /\ PoolsChange
         /\ ~RemoveAllThrows(e)
         /\ entCompMasks' = [entCompMasks EXCEPT ![e.index] = {}]
<1>1. /\ e \in Ids /\ e.index \in DOMAIN entCompMasks
  BY KnownFacts
<1>2. PICK mask : mask = entCompMasks[e.index]
  OBVIOUS
<1>3. PoolsThatThrow(e) = {}
  BY FoundRemoves DEF PoolsThatThrow
<1>4. TriedPools(e) = mask
  BY <1>2, <1>3 DEF TriedPools
<1>5. entCompMasks' = [entCompMasks EXCEPT ![e.index] = {}]
  BY <1>1, <1>2, <1>3, <1>4 DEF RemoveAll
<1>6. /\ Numbers' = Numbers
      /\ \A n \in Numbers :
           componentPools'[n] = IF n \in mask THEN AfterRemove(componentPools[n], e)
                                              ELSE componentPools[n]
  BY <1>4 DEF RemoveAll, Numbers
<1>7. ASSUME NEW n \in Numbers'
      PROVE  /\ PoolChange(Found(n), componentPools'[n])
             /\ Mapped(componentPools'[n]) = Owning(n)'
  <2>1. Owning(n)' = Owning(n) \ {e.index}
    BY <1>1, <1>5 DEF Owning
  <2>2. CASE n \in mask
    <3>1. componentPools'[n] = Remove(componentPools[n], e)
      BY <1>2, <1>6, <1>7, <2>2, FoundRemoves
    <3> QED
      BY <1>2, <2>1, <2>2, <3>1, FoundRemoves
  <2>3. CASE n \notin mask
    <3>1. componentPools'[n] = Found(n)
      BY <1>6, <1>7, <2>3 DEF Found
    <3>2. e.index \notin Owning(n)
      BY <1>2, <2>3 DEF Owning
    <3> QED
      BY <2>1, <3>1, <3>2, FoundSound DEF PoolChange
  <2> QED
    BY <2>2, <2>3
<1>8. ~RemoveAllThrows(e)
  BY <1>3 DEF RemoveAllThrows
<1> QED
  BY <1>5, <1>6, <1>7, <1>8 DEF PoolsChange

\* Every step but the beginning and the end of a loop.
LEMMA OtherSteps ==
  ASSUME TypeInv, MasksExact, Orderly', [Next]_vars
  PROVE  \/ PoolsChange
         \/ \E types \in SUBSET CompTypes : EntitiesWith(types)
         \/ \E loop \in loops : EndLoop(loop)
<1>1. ASSUME NEW e \in Ids, NewEntity(e.index) PROVE PoolsChange
  BY <1>1, NewEntityChange
<1>2. ASSUME NEW c \in CompTypes, Register(c) PROVE PoolsChange
  BY <1>2, RegisterChange DEF Register
<1>3. ASSUME NEW e \in Known, NEW c \in CompTypes, Assign(e, c) PROVE PoolsChange
  BY <1>3, AssignChange
<1>4. ASSUME NEW e \in Known, NEW c \in CompTypes, RemoveComponent(e, c)
      PROVE  PoolsChange
  BY <1>4, RemoveFromPoolChange DEF RemoveComponent
<1>5. ASSUME NEW e \in Known, RemoveAllComponents(e) \/ Destroy(e) \/ DestroyThrows(e)
      PROVE  PoolsChange
  BY <1>5, RemoveAllChange DEF RemoveAllComponents, Destroy, DestroyThrows
<1>6. ASSUME NEW loop \in loops, Visit(loop) \/ VisitTraps(loop) \/ LoopAgain(loop)
      PROVE  PoolsChange
  BY <1>6, NothingChanges DEF Visit, VisitTraps, LoopAgain, compMgr
<1>7. CASE \/ \E e \in Ids : NewEntityTraps(e.index)
           \/ UNCHANGED vars
  BY <1>7, NothingChanges DEF NewEntityTraps, vars, compMgr
<1> QED
  BY <1>1, <1>2, <1>3, <1>4, <1>5, <1>6, <1>7 DEF Next

\* The rounds unmap nobody, give nobody a slot, and none of them throws.
LEMMA RoundsSound ==
  ASSUME NEW p, Sound(p), Loose(p), NEW n \in Nat, n <= Len(p.softRemoveCompIndexes)
  PROVE  LET q == AfterRounds(p, n)
         IN  /\ Sound(q)
             /\ Mapped(q) = Mapped(p)
             /\ OwnersWithin(p, q)
<1> DEFINE len == Len(p.softRemoveCompIndexes)
           Good(m) == LET q == AfterRounds(p, m)
                      IN  /\ Sound(q)
                          /\ Mapped(q) = Mapped(p)
                          /\ OwnersWithin(p, q)
           T == {m \in Nat : m <= len => Good(m)}
<1>0. len \in Nat
  BY LooseFacts, LenProperties
<1>1. 0 \in T
  BY AfterRoundsStep DEF OwnersWithin
<1>2. ASSUME NEW m \in Nat, m \in T PROVE m + 1 \in T
  <2>1. SUFFICES ASSUME m + 1 <= len PROVE Good(m + 1)
    OBVIOUS
  <2>2. PICK q : q = AfterRounds(p, m)
    OBVIOUS
  <2>3. PICK r : r = AfterRounds(p, m + 1)
    OBVIOUS
  <2>4. m <= len
    BY <1>0, <2>1
  <2>5. Sound(q) /\ Mapped(q) = Mapped(p) /\ OwnersWithin(p, q)
    BY <1>2, <2>2, <2>4
  <2>6. r = DrainOne(q)
    BY <2>2, <2>3, AfterRoundsStep
  <2>7. Loose(q) /\ Len(q.softRemoveCompIndexes) = len - m
    BY <2>2, <2>4, RoundsLoose
  <2>8. q.softRemoveCompIndexes # << >>
    BY <1>0, <2>1, <2>7, LenProperties
  <2>9. Sound(r) /\ Mapped(r) = Mapped(q)
    BY <2>5, <2>6, <2>8, DrainOneSound
  <2>10. OwnersWithin(q, r)
    BY <2>5, <2>6, <2>8, DrainOneWithin, SoundFacts
  <2>11. OwnersWithin(p, r)
    BY <2>5, <2>10, WithinAgain
  <2> QED
    BY <2>3, <2>5, <2>9, <2>11
<1> HIDE DEF T
<1>3. n \in T
  BY <1>1, <1>2, AllNaturals
<1> QED
  BY <1>3 DEF T

LEMMA DrainedSound ==
  ASSUME NEW p, Sound(p), Loose(p),
         NEW q, q = DisableSoftRemove(AfterRounds(p, Len(p.softRemoveCompIndexes)))
  PROVE  /\ Sound(q)
         /\ Mapped(q) = Mapped(p)
         /\ OwnersWithin(p, q)
<1>1. PICK r : r = AfterRounds(p, Len(p.softRemoveCompIndexes))
  OBVIOUS
<1>2. Len(p.softRemoveCompIndexes) \in Nat
  BY LooseFacts, LenProperties
<1>3. Sound(r) /\ Mapped(r) = Mapped(p) /\ OwnersWithin(p, r)
  BY <1>1, <1>2, RoundsSound
<1>4. q = [r EXCEPT !.softRemoveMode = FALSE]
  BY <1>1 DEF DisableSoftRemove
<1>5. Sound(q) /\ Mapped(q) = Mapped(r)
  BY <1>3, <1>4, ToggleSound
<1>6. q.components = r.components /\ q.lastCompIndex = r.lastCompIndex
  BY <1>3, <1>4, ToggleFields, SoundFacts
<1>7. OwnersWithin(r, q)
  BY <1>6 DEF OwnersWithin, Slots, EntityAt
<1> QED
  BY <1>3, <1>5, <1>7, WithinAgain

\* The pool of a new loop, and the loop.
LEMMA EntitiesWithFacts ==
  ASSUME TypeInv, NEW types \in SUBSET CompTypes, EntitiesWith(types)
  PROVE  \E n, loop :
           /\ n \in Numbers
           /\ loop.pool = n /\ n \in loop.mask /\ loop.mask \subseteq Numbers
           /\ loop.pos = 0 /\ loop.end = Size(componentPools[n]) /\ loop.visited = {}
           /\ loop.kept = {e \in Living : Matches(loop.mask, e)}
           /\ componentPools' =
                [componentPools EXCEPT ![n] = EnableSoftRemove(componentPools[n])]
           /\ loops' = loops \cup {loop}
           /\ UNCHANGED <<entCompMasks, entIndexToGen, indexIsAlive, terminated, taint>>
           /\ Numbers' = Numbers
           /\ \A l \in loops : l.pool # n
<1> DEFINE mask == {compTypeToCompIndex[c] : c \in types}
           n == SmallestPool(mask)
<1>1. PICK loop :
        loop = [mask |-> mask, pool |-> n, pos |-> 0,
                end |-> Size(componentPools[n]),
                kept |-> {e \in Living : Matches(mask, e)}, visited |-> {}]
  OBVIOUS
<1>2. mask \subseteq Numbers /\ mask # {}
  BY DEF EntitiesWith, Searchable, Registered, TypeInv, RegistryType
<1>3. /\ ~componentPools[n].softRemoveMode
      /\ componentPools' = [componentPools EXCEPT ![n] = EnableSoftRemove(@)]
      /\ loops' = loops \cup {loop}
      /\ UNCHANGED <<entCompMasks, entIndexToGen, indexIsAlive, terminated, taint>>
  BY <1>1 DEF EntitiesWith, PoolIsFree
<1> HIDE DEF n, mask
<1>4. n \in mask /\ n \in Numbers
  BY <1>2, SmallestPoolOfMask DEF n
<1>5. loop.mask = mask /\ loop.pool = n /\ loop.pos = 0
      /\ loop.end = Size(componentPools[n]) /\ loop.visited = {}
      /\ loop.kept = {e \in Living : Matches(loop.mask, e)}
  BY <1>1
<1>6. \A l \in loops : l.pool # n
  BY <1>3, <1>4 DEF TypeInv, LocksMatchLoops
<1>7. Numbers' = Numbers
  BY <1>3 DEF Numbers
<1> QED
  BY <1>2, <1>3, <1>4, <1>5, <1>6, <1>7

LEMMA EndLoopFacts ==
  ASSUME TypeInv, NEW loop \in loops, EndLoop(loop)
  PROVE  \E p, q :
           /\ p = componentPools[loop.pool]
           /\ q = DisableSoftRemove(AfterRounds(p, Len(p.softRemoveCompIndexes)))
           /\ loop.pool \in Numbers
           /\ Loose(p)
           /\ componentPools' = [componentPools EXCEPT ![loop.pool] = q]
           /\ loops' = loops \ {loop}
           /\ UNCHANGED <<entCompMasks, entIndexToGen, indexIsAlive>>
           /\ taint \subseteq taint'
           /\ Numbers' = Numbers
<1>1. loop.pool \in Numbers
  BY DEF TypeInv, LoopsType, LoopType
<1>2. PICK p : p = componentPools[loop.pool]
  OBVIOUS
<1>3. PICK q : q = DisableSoftRemove(AfterRounds(p, Len(p.softRemoveCompIndexes)))
  OBVIOUS
<1>4. /\ componentPools' = [componentPools EXCEPT ![loop.pool] = q]
      /\ loops' = loops \ {loop}
      /\ UNCHANGED <<entCompMasks, entIndexToGen, indexIsAlive>>
      /\ taint \subseteq taint'
  BY <1>2, <1>3 DEF EndLoop
<1>5. Loose(p)
  BY <1>1, <1>2 DEF TypeInv, PoolsType
<1>6. Numbers' = Numbers
  BY <1>4 DEF Numbers
<1> QED
  BY <1>1, <1>2, <1>3, <1>4, <1>5, <1>6

LEMMA EntitiesWithMasks ==
  ASSUME TypeInv, MasksExact, NEW types \in SUBSET CompTypes, EntitiesWith(types)
  PROVE  MasksExact'
<1>1. PICK n \in Numbers :
        /\ componentPools' =
             [componentPools EXCEPT ![n] = EnableSoftRemove(componentPools[n])]
        /\ UNCHANGED entCompMasks
        /\ Numbers' = Numbers
  BY EntitiesWithFacts
<1>2. PICK p : p = componentPools[n]
  OBVIOUS
<1>3. PICK q : q = [p EXCEPT !.softRemoveMode = TRUE]
  OBVIOUS
<1>4. /\ componentPools'[n] = q
      /\ \A k \in Numbers \ {n} : componentPools'[k] = componentPools[k]
  BY <1>1, <1>2, <1>3 DEF EnableSoftRemove, Numbers
<1>5. Sound(p) /\ Mapped(p) = Owning(n)
  BY <1>2 DEF MasksExact
<1>6. Sound(q) /\ Mapped(q) = Mapped(p)
  BY <1>3, <1>5, ToggleSound
<1>7. \A k : Owning(k)' = Owning(k)
  BY <1>1 DEF Owning
<1> QED
  BY <1>1, <1>4, <1>5, <1>6, <1>7 DEF MasksExact

LEMMA EndLoopMasks ==
  ASSUME TypeInv, MasksExact, NEW loop \in loops, EndLoop(loop)
  PROVE  MasksExact'
<1>1. PICK p, q :
        /\ p = componentPools[loop.pool]
        /\ q = DisableSoftRemove(AfterRounds(p, Len(p.softRemoveCompIndexes)))
        /\ loop.pool \in Numbers
        /\ Loose(p)
        /\ componentPools' = [componentPools EXCEPT ![loop.pool] = q]
        /\ UNCHANGED entCompMasks
        /\ Numbers' = Numbers
  BY EndLoopFacts
<1>2. PICK n : n = loop.pool
  OBVIOUS
<1>3. /\ componentPools'[n] = q
      /\ \A k \in Numbers \ {n} : componentPools'[k] = componentPools[k]
  BY <1>1, <1>2 DEF Numbers
<1>4. Sound(p) /\ Mapped(p) = Owning(n)
  BY <1>1, <1>2 DEF MasksExact
<1>5. Sound(q) /\ Mapped(q) = Mapped(p)
  BY <1>1, <1>4, DrainedSound
<1>6. \A k : Owning(k)' = Owning(k)
  BY <1>1 DEF Owning
<1> QED
  BY <1>1, <1>3, <1>4, <1>5, <1>6 DEF MasksExact

LEMMA TaintGrows == [Next]_vars => taint \subseteq taint'
<1> SUFFICES ASSUME [Next]_vars PROVE taint \subseteq taint'
  OBVIOUS
<1> USE DEF Taint
<1> QED
  BY DEF Next, vars, NewEntity, NewEntityTraps, Register, Assign,
         RemoveComponent, RemoveAllComponents, Destroy, DestroyThrows, EntitiesWith, Visit,
         VisitTraps, LoopAgain, EndLoop

MasksInv == TypeInv /\ (Orderly => MasksExact)

LEMMA MasksInvInit == Init => MasksInv
<1>1. Init => Numbers = {}
  BY DEF Init, CompMgrInit, Numbers
<1> QED
  BY <1>1, TypeInvInit DEF MasksInv, MasksExact

LEMMA MasksInvNext == MasksInv /\ [Next]_vars => MasksInv'
<1> SUFFICES ASSUME MasksInv, [Next]_vars PROVE MasksInv'
  OBVIOUS
<1>1. TypeInv /\ TypeInv'
  BY TypeInvNext DEF MasksInv
<1>2. ASSUME Orderly' PROVE MasksExact'
  <2>1. Orderly
    BY <1>2, TaintGrows DEF Orderly, Untainted
  <2>2. MasksExact
    BY <2>1 DEF MasksInv
  <2> QED
    BY <1>1, <1>2, <2>2, OtherSteps, PoolsChangeMasks, EntitiesWithMasks, EndLoopMasks
<1> QED
  BY <1>1, <1>2 DEF MasksInv

LEMMA MasksInvAgrees == MasksInv => MasksMatchPools
<1> SUFFICES ASSUME MasksInv, Orderly, NEW n \in Numbers, NEW i \in DOMAIN entCompMasks
             PROVE  n \in entCompMasks[i] <=>
                      HasComponent(componentPools[n], [index |-> i])
  BY DEF MasksMatchPools, Orderly
<1>1. PICK p : p = componentPools[n]
  OBVIOUS
<1>2. Sound(p) /\ Mapped(p) = Owning(n)
  BY <1>1 DEF MasksInv, MasksExact
<1>3. PICK e : e = [index |-> i]
  OBVIOUS
<1>4. HasComponent(p, e) <=> e.index \in Mapped(p)
  BY <1>2, SoundFacts, MappedFacts
<1>5. e.index = i
  BY <1>3
<1> QED
  BY <1>1, <1>2, <1>3, <1>4, <1>5 DEF Owning

(***************************************************************************)
(* As long as nobody has assigned a component to an entity that had it,    *)
(* and no Assign has thrown half way, every mask says exactly which pools  *)
(* have a component for its index: through swaps, soft removals, nested    *)
(* loops and the ends of loops, by living and by stale ids.  Hence no pool *)
(* whose bit is set throws when Remove, RemoveAll or Destroy comes to it.  *)
(***************************************************************************)
THEOREM MasksAgreeWithPools == Spec => []MasksMatchPools
<1>1. Spec => []MasksInv
  BY MasksInvInit, MasksInvNext, PTL DEF Spec
<1> QED
  BY <1>1, MasksInvAgrees, PTL

-----------------------------------------------------------------------------
(* Whom loops visit. *)

\* Nor has anybody assigned by an id that is not a living entity's.
Diligent == Untainted({"reassign", "threw", "staleId"})

OwnersLive ==
  \A n \in Numbers : \A k \in Slots(componentPools[n]) :
    LET e == EntityAt(componentPools[n], k)
    IN  e = NullId \/ e \in Living

\* Nobody who has been visited has a slot ahead of the loop.
Fresh ==
  \A loop \in loops : \A k \in loop.pos .. loop.end - 1 :
    LET e == EntityAt(componentPools[loop.pool], k)
    IN  e = NullId \/ e \notin loop.visited

LEMMA ChangeOwners ==
  ASSUME TypeInv, NEW p, Sound(p), NEW q, PoolChange(p, q), NEW k \in Slots(q)
  PROVE  \/ EntityAt(q, k) = NullId
         \/ \E j \in Slots(p) : EntityAt(q, k) = EntityAt(p, j)
         \/ Untainted({"staleId"})' => EntityAt(q, k) \in Living
<1>1. CASE q = p
  BY <1>1
<1>2. ASSUME NEW e \in Known, NEW v \in Values,
             Untainted({"staleId"})' => e \in Living, ~HasComponent(p, e),
             Size(p) < MaxSlots, q = NewComponent(p, e, v)
      PROVE  \/ \E j \in Slots(p) : EntityAt(q, k) = EntityAt(p, j)
             \/ Untainted({"staleId"})' => EntityAt(q, k) \in Living
  <2>1. PoolType(p) /\ e \in Ids /\ p.lastCompIndex \in Int
        /\ Slots(p) \subseteq DOMAIN p.components
    BY SoundFacts, KnownFacts, TypeFacts
  <2>2. PICK m : m = p.lastCompIndex + 1
    OBVIOUS
  <2>3. /\ q.lastCompIndex = m
        /\ EntityAt(q, m) = e
        /\ \A j \in DOMAIN p.components \ {m} : q.components[j] = p.components[j]
    BY <1>2, <2>1, <2>2, NewComponentFields
  <2>4. CASE k = m
    BY <1>2, <2>3, <2>4
  <2>5. CASE k # m
    <3>1. k \in Slots(p)
      BY <2>1, <2>2, <2>3, <2>5 DEF Slots
    <3> QED
      BY <2>1, <2>3, <2>5, <3>1 DEF EntityAt
  <2> QED
    BY <2>4, <2>5
<1>3. ASSUME NEW e \in Known, HasComponent(p, e), q = Remove(p, e)
      PROVE  \/ EntityAt(q, k) = NullId
             \/ \E j \in Slots(p) : EntityAt(q, k) = EntityAt(p, j)
  BY <1>3, KnownFacts, SoundFacts, RemoveWithin DEF OwnersWithin
<1> QED
  BY <1>1, <1>2, <1>3 DEF PoolChange

\* In soft remove mode slots lose their owners, and never change them.
LEMMA SoftChange ==
  ASSUME TypeInv, NEW p, Sound(p), p.softRemoveMode, NEW q, PoolChange(p, q),
         NEW k \in Slots(p)
  PROVE  /\ k \in Slots(q)
         /\ EntityAt(q, k) = EntityAt(p, k) \/ EntityAt(q, k) = NullId
<1>0. /\ PoolType(p) /\ p.lastCompIndex \in Int
      /\ k \in DOMAIN p.components /\ k \in Int /\ 0 <= k /\ k <= p.lastCompIndex
  BY SoundFacts, TypeFacts DEF Slots
<1>1. CASE q = p
  BY <1>1
<1>2. ASSUME NEW e \in Known, NEW v \in Values, ~HasComponent(p, e),
             Size(p) < MaxSlots, q = NewComponent(p, e, v)
      PROVE  k \in Slots(q) /\ EntityAt(q, k) = EntityAt(p, k)
  <2>1. e \in Ids
    BY KnownFacts
  <2>2. PICK m : m = p.lastCompIndex + 1
    OBVIOUS
  <2>3. /\ q.lastCompIndex = m
        /\ \A j \in DOMAIN p.components \ {m} : q.components[j] = p.components[j]
    BY <1>0, <1>2, <2>1, <2>2, NewComponentFields
  <2> QED
    BY <1>0, <2>2, <2>3 DEF Slots, EntityAt
<1>3. ASSUME NEW e \in Known, HasComponent(p, e), q = Remove(p, e)
      PROVE  /\ k \in Slots(q)
             /\ EntityAt(q, k) = EntityAt(p, k) \/ EntityAt(q, k) = NullId
  <2>1. e \in Ids
    BY KnownFacts
  <2>2. PICK m : m = SlotOf(p, e)
    OBVIOUS
  <2>3. /\ q.lastCompIndex = p.lastCompIndex
        /\ EntityAt(q, m) = NullId
        /\ \A j \in DOMAIN p.components \ {m} : q.components[j] = p.components[j]
    BY <1>0, <1>3, <2>1, <2>2, RemoveSoftly
  <2> QED
    BY <1>0, <2>3 DEF Slots, EntityAt
<1> QED
  BY <1>1, <1>2, <1>3 DEF PoolChange

\* Whoever a step destroys has no component in any pool after it.
LEMMA LivingAfter ==
  ASSUME TypeInv, MasksExact, [Next]_vars, NEW f \in Living
  PROVE  f \in Living' \/ \A n : f.index \notin Owning(n)'
<1>0. /\ f \in Ids /\ f.index \in DOMAIN indexIsAlive
      /\ indexIsAlive[f.index]
      /\ f.gen = entIndexToGen[f.index]
      /\ f.index \in DOMAIN entIndexToGen
      /\ f.index \in DOMAIN entCompMasks
  BY DEF Living, TypeInv, EntitiesType, MasksType
<1>1. ASSUME NEW e \in Ids, NewEntity(e.index) PROVE f \in Living'
  <2>1. PICK i : i = e.index
    OBVIOUS
  <2>2. /\ entIndexToGen' = Put(entIndexToGen, i, NextGen(i))
        /\ indexIsAlive' = Put(indexIsAlive, i, TRUE)
        /\ i \in DOMAIN indexIsAlive => ~indexIsAlive[i]
    BY <1>1, <2>1 DEF NewEntity
  <2>3. f.index # i
    BY <1>0, <2>2
  <2>4. /\ f.index \in DOMAIN indexIsAlive'
        /\ indexIsAlive'[f.index] = indexIsAlive[f.index]
        /\ entIndexToGen'[f.index] = entIndexToGen[f.index]
    BY <1>0, <2>2, <2>3 DEF Put
  <2> QED
    BY <1>0, <2>4 DEF Living
<1>2. ASSUME NEW e \in Known, Destroy(e)
      PROVE  f \in Living' \/ \A n : f.index \notin Owning(n)'
  <2>1. /\ entIndexToGen' = [entIndexToGen EXCEPT ![e.index] = @ + 1]
        /\ indexIsAlive' = [indexIsAlive EXCEPT ![e.index] = FALSE]
        /\ RemoveAll(e)
    BY <1>2 DEF Destroy
  <2>2. entCompMasks' = [entCompMasks EXCEPT ![e.index] = {}]
    BY <2>1, RemoveAllChange
  <2>3. CASE f.index = e.index
    <3>1. entCompMasks'[f.index] = {}
      BY <1>0, <2>2, <2>3
    <3> QED
      BY <3>1 DEF Owning
  <2>4. CASE f.index # e.index
    <3>1. /\ f.index \in DOMAIN indexIsAlive'
          /\ indexIsAlive'[f.index] = indexIsAlive[f.index]
          /\ entIndexToGen'[f.index] = entIndexToGen[f.index]
      BY <1>0, <2>1, <2>4
    <3> QED
      BY <1>0, <3>1 DEF Living
  <2> QED
    BY <2>3, <2>4
<1>3. CASE UNCHANGED <<entIndexToGen, indexIsAlive>>
  BY <1>3 DEF Living
<1>4. \/ \E e \in Ids : NewEntity(e.index)
      \/ \E e \in Known : Destroy(e)
      \/ UNCHANGED <<entIndexToGen, indexIsAlive>>
  BY DEF Next, vars, NewEntityTraps, Register, Assign, RemoveComponent,
         RemoveAllComponents, DestroyThrows, EntitiesWith, Visit, VisitTraps, LoopAgain, EndLoop
<1> QED
  BY <1>1, <1>2, <1>3, <1>4

LEMMA PoolsChangeOwners ==
  ASSUME TypeInv, MasksExact, MasksExact', [Next]_vars, PoolsChange, OwnersLive,
         Untainted({"staleId"})'
  PROVE  OwnersLive'
<1> SUFFICES ASSUME NEW n \in Numbers', NEW q, q = componentPools'[n],
                    NEW k \in Slots(q), EntityAt(q, k) # NullId,
                    EntityAt(q, k) \notin Living'
             PROVE  FALSE
  BY DEF OwnersLive
<1>1. PICK p : p = Found(n)
  OBVIOUS
<1>2. Sound(p)
  BY <1>1, FoundSound
<1>3. PICK f : f = EntityAt(q, k)
  OBVIOUS
<1>4. \A j \in Slots(p) : EntityAt(p, j) = NullId \/ EntityAt(p, j) \in Living
  <2>1. CASE n \in Numbers
    BY <1>1, <2>1 DEF OwnersLive, Found
  <2>2. CASE n \notin Numbers
    BY <1>1, <2>2 DEF Found, EmptyPool, Slots
  <2> QED
    BY <2>1, <2>2
<1>5. f \in Living
  BY <1>1, <1>2, <1>3, <1>4, ChangeOwners DEF PoolsChange
<1>6. f.index \notin Owning(n)'
  BY <1>3, <1>5, LivingAfter
<1>7. f.index \in Mapped(q)
  <2>1. Sound(q)
    BY DEF MasksExact
  <2>2. HasComponent(q, f)
    BY <1>3, <2>1, SoundFacts DEF OwnersMapped, OwnerMapped
  <2> QED
    BY <2>1, <2>2, SoundFacts, MappedFacts
<1> QED
  BY <1>6, <1>7 DEF PoolsChange

\* What of the loops every step leaves but those of the loops themselves.
LoopsLast ==
  \A next \in loops' : \E loop \in loops :
    /\ next.mask = loop.mask /\ next.pool = loop.pool
    /\ next.pos = loop.pos /\ next.end = loop.end
    /\ next.visited = loop.visited
    /\ \A e \in next.kept :
         /\ e \in loop.kept
         /\ e.index \in DOMAIN entCompMasks /\ Matches(loop.mask, e)
              => loop.mask \subseteq entCompMasks'[e.index]

LEMMA GoingOnLasts ==
  ASSUME TypeInv, LoopsGoOn
  PROVE  LoopsLast
<1>1. ASSUME NEW loop \in loops
      PROVE  LET next == StillKept(loop)
             IN  /\ next.mask = loop.mask /\ next.pool = loop.pool
                 /\ next.pos = loop.pos /\ next.end = loop.end
                 /\ next.visited = loop.visited
                 /\ \A e \in next.kept :
                      e \in loop.kept /\ loop.mask \subseteq entCompMasks'[e.index]
  <2>1. loop \in LoopRecord
    BY DEF TypeInv, LoopsType
  <2> QED
    BY <2>1 DEF StillKept, LoopRecord
<1>2. loops' = {StillKept(loop) : loop \in loops}
  BY DEF LoopsGoOn
<1> QED
  BY <1>1, <1>2 DEF LoopsLast

LEMMA OtherLoops ==
  ASSUME TypeInv, [Next]_vars
  PROVE  \/ LoopsLast
         \/ \E types \in SUBSET CompTypes : EntitiesWith(types)
         \/ \E loop \in loops : Visit(loop) \/ LoopAgain(loop) \/ EndLoop(loop)
<1>1. ASSUME NEW e \in Ids, NewEntity(e.index) PROVE LoopsLast
  <2>1. PICK i : i = e.index
    OBVIOUS
  <2>2. /\ entCompMasks' = IF i \in DOMAIN entCompMasks THEN entCompMasks
                                                        ELSE Put(entCompMasks, i, {})
        /\ loops' = loops
    BY <1>1, <2>1 DEF NewEntity
  <2>3. \A j \in DOMAIN entCompMasks : entCompMasks'[j] = entCompMasks[j]
    BY <2>2 DEF Put
  <2> QED
    BY <2>2, <2>3 DEF LoopsLast, Matches
<1>2. ASSUME UNCHANGED <<entCompMasks, loops>> PROVE LoopsLast
  BY <1>2 DEF LoopsLast, Matches
<1>3. \/ \E e \in Ids : NewEntity(e.index)
      \/ UNCHANGED <<entCompMasks, loops>>
      \/ LoopsGoOn
      \/ \E types \in SUBSET CompTypes : EntitiesWith(types)
      \/ \E loop \in loops : Visit(loop) \/ LoopAgain(loop) \/ EndLoop(loop)
  BY DEF Next, vars, compMgr, NewEntityTraps, Register, RegisterComponentType,
         Assign, RemoveComponent, RemoveAllComponents, Destroy, DestroyThrows,
         VisitTraps
<1> QED
  BY <1>1, <1>2, <1>3, GoingOnLasts

\* The pools of loops are in soft remove mode.
LEMMA LoopPools ==
  ASSUME TypeInv, MasksExact, NEW loop \in loops
  PROVE  LET p == componentPools[loop.pool]
         IN  /\ loop.pool \in Numbers /\ loop.pool \in loop.mask
             /\ loop.mask \subseteq Numbers
             /\ p.softRemoveMode
             /\ Sound(p)
             /\ loop.pos \in Nat /\ loop.end \in Nat /\ loop.end <= Size(p)
             /\ \A k \in 0 .. loop.end - 1 : k \in Slots(p) /\ k \in DOMAIN p.components
<1>1. /\ loop \in LoopRecord /\ loop.pool \in loop.mask
      /\ loop.mask \subseteq Numbers
      /\ loop.pool \in Numbers /\ loop.end <= Size(componentPools[loop.pool])
  BY DEF TypeInv, LoopsType, LoopType
<1>2. PICK p : p = componentPools[loop.pool]
  OBVIOUS
<1>3. p.softRemoveMode
  BY <1>1, <1>2 DEF TypeInv, LocksMatchLoops
<1>4. Sound(p)
  BY <1>1, <1>2 DEF MasksExact
<1>5. /\ PoolType(p) /\ p.lastCompIndex \in Int /\ Size(p) = p.lastCompIndex + 1
  BY <1>4, SoundFacts
<1>6. loop.pos \in Nat /\ loop.end \in Nat
  BY <1>1 DEF LoopRecord
<1>7. \A k \in 0 .. loop.end - 1 : k \in Slots(p)
  BY <1>1, <1>2, <1>5, <1>6 DEF Slots
<1>8. Slots(p) \subseteq DOMAIN p.components
  BY <1>5, TypeFacts
<1> QED
  BY <1>1, <1>2, <1>3, <1>4, <1>6, <1>7, <1>8

\* How a step changes the slots of a loop's pool.
LEMMA LoopSlots ==
  ASSUME TypeInv, MasksExact, PoolsChange, NEW loop \in loops,
         NEW k \in 0 .. loop.end - 1
  PROVE  \/ EntityAt(componentPools'[loop.pool], k) =
              EntityAt(componentPools[loop.pool], k)
         \/ EntityAt(componentPools'[loop.pool], k) = NullId
<1>1. PICK n : n = loop.pool
  OBVIOUS
<1>2. PICK p : p = componentPools[n]
  OBVIOUS
<1>3. n \in Numbers /\ p.softRemoveMode /\ Sound(p) /\ k \in Slots(p)
  BY <1>1, <1>2, LoopPools
<1>4. PICK q : q = componentPools'[n]
  OBVIOUS
<1>5. PoolChange(p, q)
  BY <1>2, <1>3, <1>4 DEF PoolsChange, Found
<1>6. EntityAt(q, k) = EntityAt(p, k) \/ EntityAt(q, k) = NullId
  BY <1>3, <1>5, SoftChange
<1> QED
  BY <1>1, <1>2, <1>4, <1>6

LEMMA FreshLasts ==
  ASSUME TypeInv, MasksExact, PoolsChange, LoopsLast, Fresh
  PROVE  Fresh'
<1> SUFFICES ASSUME NEW next \in loops', NEW k \in next.pos .. next.end - 1,
                    EntityAt(componentPools'[next.pool], k) # NullId
             PROVE  EntityAt(componentPools'[next.pool], k) \notin next.visited
  BY DEF Fresh
<1>1. PICK loop \in loops : /\ next.pool = loop.pool
                            /\ next.pos = loop.pos /\ next.end = loop.end
                            /\ next.visited = loop.visited
  BY DEF LoopsLast
<1>2. loop.pos \in Nat /\ loop.end \in Nat
  BY LoopPools
<1>3. k \in 0 .. loop.end - 1
  BY <1>1, <1>2
<1>4. EntityAt(componentPools'[loop.pool], k) = EntityAt(componentPools[loop.pool], k)
  BY <1>1, <1>3, LoopSlots
<1> QED
  BY <1>1, <1>4 DEF Fresh

\* Two slots are not owned by the same entity.
LEMMA SlotsDiffer ==
  ASSUME NEW p, Sound(p), NEW j \in Slots(p), NEW k \in Slots(p),
         EntityAt(p, j) # NullId, EntityAt(p, j) = EntityAt(p, k)
  PROVE  j = k
  BY SoundFacts DEF OwnersMapped, OwnerMapped

LEMMA FreshVisit ==
  ASSUME TypeInv, MasksExact, Fresh, NEW loop \in loops, Visit(loop)
  PROVE  Fresh'
<1>1. UNCHANGED componentPools
  BY DEF Visit, compMgr
<1>2. PICK k \in SlotsToVisit(loop) :
        LoopBecomes(loop,
          [loop EXCEPT !.pos = k + 1,
                       !.visited = @ \cup {EntityAt(componentPools[loop.pool], k)}])
  BY VisitFacts
<1>3. PICK p : p = componentPools[loop.pool]
  OBVIOUS
<1>4. PICK e : e = EntityAt(p, k)
  OBVIOUS
<1>5. PICK next : next = [loop EXCEPT !.pos = k + 1, !.visited = loop.visited \cup {e}]
  OBVIOUS
<1>6. loop \in LoopRecord
  BY DEF TypeInv, LoopsType
<1>7. /\ next.pool = loop.pool /\ next.end = loop.end
      /\ next.pos = k + 1 /\ next.visited = loop.visited \cup {e}
  BY <1>5, <1>6 DEF LoopRecord
<1>8. loops' = (loops \ {loop}) \cup {next}
  BY <1>2, <1>3, <1>4, <1>5 DEF LoopBecomes
<1>9. k \in Nat /\ loop.pos <= k /\ k \in Slots(p) /\ e # NullId
  BY <1>3, <1>4, SlotsToVisitFacts
<1>10. /\ Sound(p) /\ loop.pos \in Nat /\ loop.end \in Nat
       /\ \A j \in 0 .. loop.end - 1 : j \in Slots(p)
  BY <1>3, LoopPools
<1>11. ASSUME NEW j \in next.pos .. next.end - 1,
              EntityAt(p, j) # NullId, EntityAt(p, j) \in next.visited
       PROVE  FALSE
  <2>1. j \in loop.pos .. loop.end - 1 /\ j \in 0 .. loop.end - 1 /\ j # k
    BY <1>7, <1>9, <1>10, <1>11
  <2>2. EntityAt(p, j) \notin loop.visited
    BY <1>3, <1>11, <2>1 DEF Fresh
  <2>3. EntityAt(p, j) = EntityAt(p, k)
    BY <1>4, <1>7, <1>11, <2>2
  <2> QED
    BY <1>9, <1>10, <1>11, <2>1, <2>3, SlotsDiffer
<1>12. \A j \in next.pos .. next.end - 1 :
         LET f == EntityAt(componentPools[next.pool], j)
         IN  f = NullId \/ f \notin next.visited
  BY <1>3, <1>7, <1>11
<1> QED
  BY <1>1, <1>8, <1>12 DEF Fresh

LEMMA FreshAgain ==
  ASSUME TypeInv, Fresh, NEW loop \in loops, LoopAgain(loop)
  PROVE  Fresh'
<1>1. UNCHANGED componentPools
  BY DEF LoopAgain, compMgr
<1>2. PICK next : next = [loop EXCEPT !.pos = 0, !.visited = {}]
  OBVIOUS
<1>3. loops' = (loops \ {loop}) \cup {next}
  BY <1>2 DEF LoopAgain, LoopBecomes
<1>4. next.visited = {}
  <2>1. loop \in LoopRecord
    BY DEF TypeInv, LoopsType
  <2> QED
    BY <1>2, <2>1 DEF LoopRecord
<1> QED
  BY <1>1, <1>3, <1>4 DEF Fresh

LEMMA EntitiesWithVisits ==
  ASSUME TypeInv, OwnersLive, Fresh,
         NEW types \in SUBSET CompTypes, EntitiesWith(types)
  PROVE  OwnersLive' /\ Fresh'
<1>1. PICK n, loop :
        /\ n \in Numbers
        /\ loop.visited = {}
        /\ componentPools' =
             [componentPools EXCEPT ![n] = EnableSoftRemove(componentPools[n])]
        /\ loops' = loops \cup {loop}
        /\ UNCHANGED <<entIndexToGen, indexIsAlive>>
        /\ Numbers' = Numbers
  BY EntitiesWithFacts
<1>2. ASSUME NEW k \in Numbers
      PROVE  /\ componentPools'[k].components = componentPools[k].components
             /\ componentPools'[k].lastCompIndex = componentPools[k].lastCompIndex
  <2>1. PICK p : p = componentPools[k]
    OBVIOUS
  <2>2. PICK q : q = componentPools'[k]
    OBVIOUS
  <2>3. Loose(p)
    BY <2>1 DEF TypeInv, PoolsType
  <2>4. q = p \/ q = [p EXCEPT !.softRemoveMode = TRUE]
    BY <1>1, <2>1, <2>2 DEF EnableSoftRemove, Numbers
  <2>5. q.components = p.components /\ q.lastCompIndex = p.lastCompIndex
    BY <2>3, <2>4 DEF Loose, LoosePools
  <2> QED
    BY <2>1, <2>2, <2>5
<1>3. OwnersLive'
  <2>1. Living' = Living
    BY <1>1 DEF Living
  <2> QED
    BY <1>1, <1>2, <2>1 DEF OwnersLive, Slots, EntityAt
<1>4. Fresh'
  <2>1. \A l \in loops : l.pool \in Numbers
    BY DEF TypeInv, LoopsType, LoopType
  <2> QED
    BY <1>1, <1>2, <2>1 DEF Fresh, EntityAt
<1> QED
  BY <1>3, <1>4

LEMMA EndLoopVisits ==
  ASSUME TypeInv, MasksExact, OwnersLive, Fresh, NEW loop \in loops, EndLoop(loop)
  PROVE  OwnersLive' /\ Fresh'
<1>1. PICK p, q :
        /\ p = componentPools[loop.pool]
        /\ q = DisableSoftRemove(AfterRounds(p, Len(p.softRemoveCompIndexes)))
        /\ loop.pool \in Numbers
        /\ Loose(p)
        /\ componentPools' = [componentPools EXCEPT ![loop.pool] = q]
        /\ loops' = loops \ {loop}
        /\ UNCHANGED <<entIndexToGen, indexIsAlive>>
        /\ Numbers' = Numbers
  BY EndLoopFacts
<1>2. PICK n : n = loop.pool
  OBVIOUS
<1>3. /\ componentPools'[n] = q
      /\ \A k \in Numbers \ {n} : componentPools'[k] = componentPools[k]
  BY <1>1, <1>2 DEF Numbers
<1>4. Sound(p)
  BY <1>1 DEF MasksExact
<1>5. OwnersWithin(p, q)
  BY <1>1, <1>4, DrainedSound
<1>6. OwnersLive'
  <2>1. Living' = Living
    BY <1>1 DEF Living
  <2>2. ASSUME NEW k \in Slots(q), EntityAt(q, k) # NullId
        PROVE  EntityAt(q, k) \in Living
    <3>1. PICK j \in Slots(p) : EntityAt(q, k) = EntityAt(p, j)
      BY <1>5, <2>2 DEF OwnersWithin
    <3> QED
      BY <1>1, <2>2, <3>1 DEF OwnersLive
  <2>3. ASSUME NEW m \in Numbers', NEW k \in Slots(componentPools'[m])
        PROVE  LET e == EntityAt(componentPools'[m], k)
               IN  e = NullId \/ e \in Living
    <3>1. CASE m = n
      BY <1>3, <2>2, <2>3, <3>1
    <3>2. CASE m # n
      BY <1>1, <1>3, <2>3, <3>2 DEF OwnersLive
    <3> QED
      BY <3>1, <3>2
  <2> QED
    BY <2>1, <2>3 DEF OwnersLive
<1>7. Fresh'
  <2>1. \A l \in loops' : l \in loops /\ l.pool \in Numbers \ {n}
    BY <1>1, <1>2 DEF TypeInv, LoopsType, LoopType, LocksMatchLoops
  <2> QED
    BY <1>3, <2>1 DEF Fresh
<1> QED
  BY <1>6, <1>7

VisitsInv == MasksInv /\ (Diligent => OwnersLive /\ Fresh)

LEMMA VisitsInvInit == Init => VisitsInv
<1>1. Init => Numbers = {} /\ loops = {}
  BY DEF Init, CompMgrInit, Numbers
<1> QED
  BY <1>1, MasksInvInit DEF VisitsInv, OwnersLive, Fresh

LEMMA VisitsInvNext == VisitsInv /\ [Next]_vars => VisitsInv'
<1> SUFFICES ASSUME VisitsInv, [Next]_vars PROVE VisitsInv'
  OBVIOUS
<1>1. MasksInv' /\ TypeInv
  BY MasksInvNext DEF VisitsInv, MasksInv
<1>2. ASSUME Diligent' PROVE OwnersLive' /\ Fresh'
  <2>1. Diligent /\ Orderly /\ Orderly' /\ Untainted({"staleId"})'
    BY <1>2, TaintGrows DEF Diligent, Orderly, Untainted
  <2>2. MasksExact /\ MasksExact' /\ OwnersLive /\ Fresh
    BY <1>1, <2>1 DEF VisitsInv, MasksInv
  <2>3. CASE \E types \in SUBSET CompTypes : EntitiesWith(types)
    BY <1>1, <2>2, <2>3, EntitiesWithVisits
  <2>4. CASE \E loop \in loops : EndLoop(loop)
    BY <1>1, <2>2, <2>4, EndLoopVisits
  <2>5. CASE PoolsChange
    <3>1. OwnersLive'
      BY <1>1, <2>1, <2>2, <2>5, PoolsChangeOwners
    <3>2. CASE LoopsLast
      BY <1>1, <2>2, <2>5, <3>1, <3>2, FreshLasts
    <3>3. CASE \E loop \in loops : Visit(loop) \/ LoopAgain(loop)
      BY <1>1, <2>2, <3>1, <3>3, FreshVisit, FreshAgain
    <3> QED
      BY <1>1, <2>3, <2>4, <3>2, <3>3, OtherLoops
  <2> QED
    BY <1>1, <2>1, <2>2, <2>3, <2>4, <2>5, OtherSteps
<1> QED
  BY <1>1, <1>2 DEF VisitsInv

LEMMA VisitsInvHolds == VisitsInv => VisitsLivingOnce
<1> SUFFICES ASSUME VisitsInv, Diligent, NEW loop \in loops, NEW k \in SlotsToVisit(loop)
             PROVE  LET e == EntityAt(componentPools[loop.pool], k)
                    IN  e \in Living /\ e \notin loop.visited
  BY DEF VisitsLivingOnce, Diligent
<1>1. TypeInv /\ OwnersLive /\ Fresh
  BY DEF VisitsInv, MasksInv
<1>2. PICK p : p = componentPools[loop.pool]
  OBVIOUS
<1>3. k \in Slots(p) /\ EntityAt(p, k) # NullId
  BY <1>1, <1>2, SlotsToVisitFacts
<1>4. loop.pool \in Numbers
  BY <1>1 DEF TypeInv, LoopsType, LoopType
<1>5. EntityAt(p, k) \in Living
  BY <1>1, <1>2, <1>3, <1>4 DEF OwnersLive
<1>6. EntityAt(p, k) \notin loop.visited
  BY <1>1, <1>2, <1>3 DEF Fresh, SlotsToVisit
<1> QED
  BY <1>2, <1>5, <1>6

(***************************************************************************)
(* As long as components are assigned by living ids only, once each, and   *)
(* no Assign has thrown half way, whomever a loop comes to next is an      *)
(* entity in the system that it has not visited before, whatever its body  *)
(* and the loops around it have destroyed, created, recycled, assigned or  *)
(* removed since it began.                                                 *)
(***************************************************************************)
THEOREM LoopsVisitLivingOnce == Spec => []VisitsLivingOnce
<1>1. Spec => []VisitsInv
  BY VisitsInvInit, VisitsInvNext, PTL DEF Spec
<1> QED
  BY <1>1, VisitsInvHolds, PTL

-----------------------------------------------------------------------------
(* Whom handles and loops find. *)

Tidy == \A n \in Numbers : /\ MappedInUse(componentPools[n])
                           /\ QueueIsHoles(componentPools[n])

\* Whoever keeps the components keeps a slot, which the loop comes to if it
\* has not been there.
Ahead ==
  \A loop \in loops : \A e \in loop.kept :
    /\ e.index \in DOMAIN entCompMasks
    /\ Matches(loop.mask, e)
    /\ \E k \in 0 .. loop.end - 1 :
         /\ EntityAt(componentPools[loop.pool], k) = e
         /\ loop.pos <= k \/ e \in loop.visited

LEMMA EmptyPoolTidy == MappedInUse(EmptyPool) /\ QueueIsHoles(EmptyPool)
<1>1. Mapped(EmptyPool) = {} /\ Slots(EmptyPool) = {} /\ Queued(EmptyPool) = {}
  BY DEF EmptyPool, Mapped, Slots, Queued
<1> QED
  BY <1>1 DEF MappedInUse, QueueIsHoles, EmptyPool

LEMMA PoolChangeTidy ==
  ASSUME TypeInv, NEW p, Sound(p), MappedInUse(p), QueueIsHoles(p),
         ~p.softRemoveMode => p.softRemoveCompIndexes = << >>,
         NEW q, PoolChange(p, q)
  PROVE  MappedInUse(q) /\ QueueIsHoles(q)
<1>0. PoolType(p) /\ NullUnmapped(p) /\ OwnersMapped(p)
  BY SoundFacts
<1>1. CASE q = p
  BY <1>1
<1>2. ASSUME NEW e \in Known, NEW v \in Values, ~HasComponent(p, e),
             Size(p) < MaxSlots, q = NewComponent(p, e, v)
      PROVE  MappedInUse(q) /\ QueueIsHoles(q)
  BY <1>0, <1>2, KnownFacts, NewComponentHoles
<1>3. ASSUME NEW e \in Known, HasComponent(p, e), q = Remove(p, e)
      PROVE  MappedInUse(q) /\ QueueIsHoles(q)
  <2>1. e \in Ids
    BY KnownFacts
  <2>2. CASE p.softRemoveMode
    BY <1>0, <1>3, <2>1, <2>2, SoftRemoveHoles
  <2>3. CASE ~p.softRemoveMode
    BY <1>0, <1>3, <2>1, <2>3, HardRemoveHoles
  <2> QED
    BY <2>2, <2>3
<1> QED
  BY <1>1, <1>2, <1>3 DEF PoolChange

LEMMA PoolsChangeTidy ==
  ASSUME TypeInv, MasksExact, Tidy, ~terminated, PoolsChange
  PROVE  Tidy'
<1> SUFFICES ASSUME NEW n \in Numbers', NEW q, q = componentPools'[n]
             PROVE  MappedInUse(q) /\ QueueIsHoles(q)
  BY DEF Tidy
<1>1. PICK p : p = Found(n)
  OBVIOUS
<1>2. Sound(p) /\ PoolChange(p, q)
  BY <1>1, FoundSound DEF PoolsChange
<1>3. /\ MappedInUse(p) /\ QueueIsHoles(p)
      /\ ~p.softRemoveMode => p.softRemoveCompIndexes = << >>
  <2>1. CASE n \in Numbers
    BY <1>1, <2>1 DEF Found, Tidy, TypeInv, LocksMatchLoops
  <2>2. CASE n \notin Numbers
    BY <1>1, <2>2, EmptyPoolTidy, EmptyPoolLoose DEF Found
  <2> QED
    BY <2>1, <2>2
<1> QED
  BY <1>2, <1>3, PoolChangeTidy

\* The rounds keep a pool tidy if none swaps in a slot that is queued itself.
LEMMA RoundsTidy ==
  ASSUME NEW p, Sound(p), Loose(p), MappedInUse(p), QueueIsHoles(p),
         \A r \in 0 .. Len(p.softRemoveCompIndexes) - 1 : ~TailSwap(AfterRounds(p, r)),
         NEW n \in Nat, n <= Len(p.softRemoveCompIndexes)
  PROVE  LET q == AfterRounds(p, n)
         IN  MappedInUse(q) /\ QueueIsHoles(q)
<1> DEFINE len == Len(p.softRemoveCompIndexes)
           Good(m) == LET q == AfterRounds(p, m)
                      IN  MappedInUse(q) /\ QueueIsHoles(q)
           T == {m \in Nat : m <= len => Good(m)}
<1>0. len \in Nat
  BY LooseFacts, LenProperties
<1>1. 0 \in T
  BY AfterRoundsStep
<1>2. ASSUME NEW m \in Nat, m \in T PROVE m + 1 \in T
  <2>1. SUFFICES ASSUME m + 1 <= len PROVE Good(m + 1)
    OBVIOUS
  <2>2. PICK q : q = AfterRounds(p, m)
    OBVIOUS
  <2>3. PICK r : r = AfterRounds(p, m + 1)
    OBVIOUS
  <2>4. m <= len /\ m \in 0 .. len - 1
    BY <1>0, <2>1
  <2>5. MappedInUse(q) /\ QueueIsHoles(q) /\ ~TailSwap(q)
    BY <1>2, <2>2, <2>4
  <2>6. r = DrainOne(q)
    BY <2>2, <2>3, AfterRoundsStep
  <2>7. Len(q.softRemoveCompIndexes) = len - m /\ Sound(q)
    BY <2>2, <2>4, RoundsLoose, RoundsSound
  <2>8. q.softRemoveCompIndexes # << >>
    BY <1>0, <2>1, <2>7, LenProperties
  <2>9. PoolType(q) /\ NullUnmapped(q) /\ OwnersMapped(q)
    BY <2>7, SoundFacts
  <2>10. MappedInUse(r) /\ QueueIsHoles(r)
    BY <2>5, <2>6, <2>8, <2>9, DrainOneHoles
  <2> QED
    BY <2>3, <2>10
<1> HIDE DEF T
<1>3. n \in T
  BY <1>1, <1>2, AllNaturals
<1> QED
  BY <1>3 DEF T

\* The mode does not matter.
LEMMA ToggleTidy ==
  ASSUME NEW p, Sound(p), MappedInUse(p), QueueIsHoles(p), NEW b \in BOOLEAN,
         NEW q, q = [p EXCEPT !.softRemoveMode = b]
  PROVE  MappedInUse(q) /\ QueueIsHoles(q)
<1>1. PoolType(p)
  BY SoundFacts
<1>2. /\ q.components = p.components
      /\ q.lastCompIndex = p.lastCompIndex
      /\ q.entIndexToCompIndex = p.entIndexToCompIndex
      /\ q.softRemoveCompIndexes = p.softRemoveCompIndexes
  BY <1>1, ToggleFields
<1>3. \A j \in DOMAIN p.components : EntityAt(q, j) = EntityAt(p, j)
  BY <1>2 DEF EntityAt
<1> QED
  BY <1>1, <1>2, <1>3, SameHoles

LEMMA EndLoopTidy ==
  ASSUME TypeInv, MasksExact, Tidy, taint' = {}, NEW loop \in loops, EndLoop(loop)
  PROVE  Tidy'
<1>1. PICK p, q :
        /\ p = componentPools[loop.pool]
        /\ q = DisableSoftRemove(AfterRounds(p, Len(p.softRemoveCompIndexes)))
        /\ loop.pool \in Numbers
        /\ Loose(p)
        /\ componentPools' = [componentPools EXCEPT ![loop.pool] = q]
        /\ Numbers' = Numbers
  BY EndLoopFacts
<1>2. \A r \in 0 .. Len(p.softRemoveCompIndexes) - 1 : ~TailSwap(AfterRounds(p, r))
  BY <1>1 DEF EndLoop
<1>3. PICK r : r = AfterRounds(p, Len(p.softRemoveCompIndexes))
  OBVIOUS
<1>4. Sound(p) /\ MappedInUse(p) /\ QueueIsHoles(p)
  BY <1>1 DEF MasksExact, Tidy
<1>5. Len(p.softRemoveCompIndexes) \in Nat
  BY <1>1, LooseFacts, LenProperties
<1>6. Sound(r) /\ MappedInUse(r) /\ QueueIsHoles(r)
  BY <1>1, <1>2, <1>3, <1>4, <1>5, RoundsSound, RoundsTidy
<1>7. q = [r EXCEPT !.softRemoveMode = FALSE]
  BY <1>1, <1>3 DEF DisableSoftRemove
<1>8. MappedInUse(q) /\ QueueIsHoles(q)
  BY <1>6, <1>7, ToggleTidy
<1> QED
  BY <1>1, <1>8 DEF Tidy, Numbers

LEMMA EntitiesWithTidy ==
  ASSUME TypeInv, MasksExact, Tidy, NEW types \in SUBSET CompTypes, EntitiesWith(types)
  PROVE  Tidy'
<1>1. PICK n \in Numbers :
        /\ componentPools' =
             [componentPools EXCEPT ![n] = EnableSoftRemove(componentPools[n])]
        /\ Numbers' = Numbers
  BY EntitiesWithFacts
<1>2. PICK p : p = componentPools[n]
  OBVIOUS
<1>3. PICK q : q = [p EXCEPT !.softRemoveMode = TRUE]
  OBVIOUS
<1>4. Sound(p) /\ MappedInUse(p) /\ QueueIsHoles(p)
  BY <1>2 DEF MasksExact, Tidy
<1>5. MappedInUse(q) /\ QueueIsHoles(q)
  BY <1>3, <1>4, ToggleTidy
<1>6. componentPools' = [componentPools EXCEPT ![n] = q]
  BY <1>1, <1>2, <1>3 DEF EnableSoftRemove
<1> QED
  BY <1>1, <1>5, <1>6 DEF Tidy, Numbers

\* Whoever loses a slot in soft remove mode loses the component.
LEMMA SlotLost ==
  ASSUME TypeInv, NEW p, Sound(p), MappedInUse(p), p.softRemoveMode,
         NEW q, PoolChange(p, q),
         NEW k \in Slots(p), EntityAt(p, k) # NullId, EntityAt(q, k) = NullId
  PROVE  EntityAt(p, k).index \notin Mapped(q)
<1>0. /\ PoolType(p) /\ p.lastCompIndex \in Int
      /\ k \in DOMAIN p.components /\ k \in Int /\ 0 <= k /\ k <= p.lastCompIndex
  BY SoundFacts, TypeFacts DEF Slots
<1>1. CASE q = p
  BY <1>1
<1>2. ASSUME NEW e \in Known, NEW v \in Values, ~HasComponent(p, e),
             Size(p) < MaxSlots, q = NewComponent(p, e, v)
      PROVE  FALSE
  <2>1. e \in Ids
    BY KnownFacts
  <2>2. PICK m : m = p.lastCompIndex + 1
    OBVIOUS
  <2>3. \A j \in DOMAIN p.components \ {m} : q.components[j] = p.components[j]
    BY <1>0, <1>2, <2>1, <2>2, NewComponentFields
  <2> QED
    BY <1>0, <2>2, <2>3 DEF EntityAt
<1>3. ASSUME NEW e \in Known, HasComponent(p, e), q = Remove(p, e)
      PROVE  EntityAt(p, k).index \notin Mapped(q)
  <2>1. e \in Ids
    BY KnownFacts
  <2>2. PICK m : m = SlotOf(p, e)
    OBVIOUS
  <2>3. \A j \in DOMAIN p.components \ {m} : q.components[j] = p.components[j]
    BY <1>0, <1>3, <2>1, <2>2, RemoveSoftly
  <2>4. k = m
    BY <1>0, <2>3 DEF EntityAt
  <2>5. e.index \in Mapped(p)
    BY <1>0, <1>3, MappedFacts
  <2>6. EntityAt(p, k).index = e.index
    BY <2>2, <2>4, <2>5 DEF MappedInUse, SlotOf
  <2>7. Mapped(q) = Mapped(p) \ {e.index}
    BY <1>3, <2>1, RemoveSound
  <2> QED
    BY <2>6, <2>7
<1> QED
  BY <1>1, <1>2, <1>3 DEF PoolChange

LEMMA MasksGrow == [Next]_vars => DOMAIN entCompMasks \subseteq DOMAIN entCompMasks'
<1> SUFFICES ASSUME [Next]_vars PROVE DOMAIN entCompMasks \subseteq DOMAIN entCompMasks'
  OBVIOUS
<1>1. ASSUME NEW e \in Ids, NewEntity(e.index)
      PROVE  DOMAIN entCompMasks \subseteq DOMAIN entCompMasks'
  BY <1>1 DEF NewEntity, Put
<1>2. ASSUME NEW e \in Known, NEW c \in CompTypes, Assign(e, c)
      PROVE  DOMAIN entCompMasks \subseteq DOMAIN entCompMasks'
  <2>1. UNCHANGED entCompMasks \/ \E p : AssignBy(e, c, p)
    BY <1>2
    DEF Assign, AssignMakes, AssignThrows, AssignRefused, RegisterComponentType
  <2> QED
    BY <2>1 DEF AssignBy
<1>3. ASSUME NEW e \in Known, NEW c \in CompTypes, RemoveComponent(e, c)
      PROVE  DOMAIN entCompMasks \subseteq DOMAIN entCompMasks'
  BY <1>3 DEF RemoveComponent, RemoveFromPool
<1>4. ASSUME NEW e \in Known, RemoveAll(e)
      PROVE  DOMAIN entCompMasks \subseteq DOMAIN entCompMasks'
  BY <1>4 DEF RemoveAll
<1>5. \/ \E e \in Ids : NewEntity(e.index)
      \/ \E e \in Known, c \in CompTypes : Assign(e, c) \/ RemoveComponent(e, c)
      \/ \E e \in Known : RemoveAll(e)
      \/ UNCHANGED entCompMasks
  BY DEF Next, vars, compMgr, NewEntityTraps, Register, RegisterComponentType,
         RemoveAllComponents, Destroy, DestroyThrows, EntitiesWith, Visit,
         VisitTraps, LoopAgain, EndLoop
<1> QED
  BY <1>1, <1>2, <1>3, <1>4, <1>5

LEMMA AheadLasts ==
  ASSUME TypeInv, MasksExact, Tidy, [Next]_vars, PoolsChange, LoopsLast, Ahead
  PROVE  Ahead'
<1> SUFFICES ASSUME NEW next \in loops', NEW e \in next.kept
             PROVE  /\ e.index \in DOMAIN entCompMasks'
                    /\ Matches(next.mask, e)'
                    /\ \E k \in 0 .. next.end - 1 :
                         /\ EntityAt(componentPools'[next.pool], k) = e
                         /\ next.pos <= k \/ e \in next.visited
  BY DEF Ahead
<1>1. PICK loop \in loops :
        /\ next.mask = loop.mask /\ next.pool = loop.pool
        /\ next.pos = loop.pos /\ next.end = loop.end
        /\ next.visited = loop.visited
        /\ e \in loop.kept
        /\ e.index \in DOMAIN entCompMasks /\ Matches(loop.mask, e)
             => loop.mask \subseteq entCompMasks'[e.index]
  BY DEF LoopsLast
<1>2. PICK n : n = loop.pool
  OBVIOUS
<1>3. PICK k \in 0 .. loop.end - 1 :
        /\ EntityAt(componentPools[n], k) = e
        /\ loop.pos <= k \/ e \in loop.visited
  BY <1>1, <1>2 DEF Ahead
<1>4. e.index \in DOMAIN entCompMasks'
  BY <1>1, MasksGrow DEF Ahead
<1>5. loop.mask \subseteq entCompMasks'[e.index]
  BY <1>1 DEF Ahead
<1>6. PICK p : p = componentPools[n]
  OBVIOUS
<1>7. PICK q : q = componentPools'[n]
  OBVIOUS
<1>8. /\ n \in Numbers /\ n \in loop.mask /\ p.softRemoveMode /\ Sound(p)
      /\ k \in Slots(p)
  BY <1>2, <1>6, LoopPools
<1>9. PoolChange(p, q) /\ Mapped(q) = Owning(n)' /\ MappedInUse(p)
  BY <1>6, <1>7, <1>8 DEF PoolsChange, Found, Tidy
<1>10. e # NullId
  <2>1. e \in Ids
    BY <1>1 DEF TypeInv, LoopsType, LoopType
  <2> QED
    BY <2>1, EcsAssumption
<1>11. EntityAt(q, k) = e
  <2>1. e.index \in Mapped(q)
    BY <1>4, <1>5, <1>8, <1>9 DEF Owning
  <2>2. EntityAt(q, k) # NullId
    BY <1>3, <1>6, <1>8, <1>9, <1>10, <2>1, SlotLost
  <2> QED
    BY <1>3, <1>6, <1>8, <1>9, <2>2, SoftChange
<1> QED
  BY <1>1, <1>2, <1>3, <1>4, <1>5, <1>7, <1>11 DEF Matches

LEMMA AheadVisit ==
  ASSUME TypeInv, MasksExact, Ahead, NEW loop \in loops, Visit(loop)
  PROVE  Ahead'
<1>1. UNCHANGED <<componentPools, entCompMasks>>
  BY DEF Visit, compMgr
<1>2. PICK k \in SlotsToVisit(loop) :
        /\ \A j \in SlotsToVisit(loop) : k <= j
        /\ LoopBecomes(loop,
             [loop EXCEPT !.pos = k + 1,
                          !.visited = @ \cup {EntityAt(componentPools[loop.pool], k)}])
  BY VisitFacts
<1>3. PICK p : p = componentPools[loop.pool]
  OBVIOUS
<1>4. PICK f : f = EntityAt(p, k)
  OBVIOUS
<1>5. PICK next : next = [loop EXCEPT !.pos = k + 1, !.visited = loop.visited \cup {f}]
  OBVIOUS
<1>6. loop \in LoopRecord
  BY DEF TypeInv, LoopsType
<1>7. /\ next.mask = loop.mask /\ next.pool = loop.pool /\ next.end = loop.end
      /\ next.kept = loop.kept
      /\ next.pos = k + 1 /\ next.visited = loop.visited \cup {f}
  BY <1>5, <1>6 DEF LoopRecord
<1>8. loops' = (loops \ {loop}) \cup {next}
  BY <1>2, <1>3, <1>4, <1>5 DEF LoopBecomes
<1>9. k \in Nat
  BY SlotsToVisitFacts
<1>10. /\ loop.pos \in Nat /\ loop.end \in Nat
       /\ \A j \in 0 .. loop.end - 1 : j \in DOMAIN p.components
  BY <1>3, LoopPools
<1>11. ASSUME NEW e \in next.kept
       PROVE  /\ e.index \in DOMAIN entCompMasks
              /\ Matches(next.mask, e)
              /\ \E j \in 0 .. next.end - 1 :
                   /\ EntityAt(componentPools[next.pool], j) = e
                   /\ next.pos <= j \/ e \in next.visited
  <2>1. PICK j \in 0 .. loop.end - 1 : /\ EntityAt(p, j) = e
                                       /\ loop.pos <= j \/ e \in loop.visited
    BY <1>3, <1>7 DEF Ahead
  <2>2. e.index \in DOMAIN entCompMasks /\ Matches(loop.mask, e)
    BY <1>7 DEF Ahead
  <2>3. next.pos <= j \/ e \in next.visited
    <3>1. CASE e \in loop.visited
      BY <1>7, <3>1
    <3>2. CASE loop.pos <= j
      <4>1. j \in SlotsToVisit(loop)
        BY <1>3, <1>10, <2>1, <2>2, <3>2 DEF SlotsToVisit
      <4>2. k <= j
        BY <1>2, <4>1
      <4> QED
        BY <1>4, <1>7, <1>9, <2>1, <4>2
    <3> QED
      BY <2>1, <3>1, <3>2
  <2> QED
    BY <1>3, <1>7, <2>1, <2>2, <2>3
<1>12. ASSUME NEW l \in loops', NEW e \in l.kept
       PROVE  /\ e.index \in DOMAIN entCompMasks
              /\ Matches(l.mask, e)
              /\ \E j \in 0 .. l.end - 1 :
                   /\ EntityAt(componentPools[l.pool], j) = e
                   /\ l.pos <= j \/ e \in l.visited
  <2>1. CASE l = next
    BY <1>11, <1>12, <2>1
  <2>2. CASE l # next
    BY <1>8, <1>12, <2>2 DEF Ahead
  <2> QED
    BY <2>1, <2>2
<1> QED
  BY <1>1, <1>12 DEF Ahead, Matches

LEMMA AheadAgain ==
  ASSUME TypeInv, Ahead, NEW loop \in loops, LoopAgain(loop)
  PROVE  Ahead'
<1>1. UNCHANGED <<componentPools, entCompMasks>>
  BY DEF LoopAgain, compMgr
<1>2. PICK next : next = [loop EXCEPT !.pos = 0, !.visited = {}]
  OBVIOUS
<1>3. loops' = (loops \ {loop}) \cup {next}
  BY <1>2 DEF LoopAgain, LoopBecomes
<1>4. /\ next.mask = loop.mask /\ next.pool = loop.pool /\ next.end = loop.end
      /\ next.kept = loop.kept /\ next.pos = 0
  <2>1. loop \in LoopRecord
    BY DEF TypeInv, LoopsType
  <2> QED
    BY <1>2, <2>1 DEF LoopRecord
<1>5. ASSUME NEW l \in loops', NEW e \in l.kept
      PROVE  /\ e.index \in DOMAIN entCompMasks
             /\ Matches(l.mask, e)
             /\ \E j \in 0 .. l.end - 1 :
                  /\ EntityAt(componentPools[l.pool], j) = e
                  /\ l.pos <= j \/ e \in l.visited
  <2>1. CASE l = next
    <3>1. /\ e.index \in DOMAIN entCompMasks /\ Matches(loop.mask, e)
          /\ \E j \in 0 .. loop.end - 1 : EntityAt(componentPools[loop.pool], j) = e
      BY <1>4, <1>5, <2>1 DEF Ahead
    <3>2. \A j \in 0 .. loop.end - 1 : 0 <= j
      OBVIOUS
    <3> QED
      BY <1>4, <2>1, <3>1, <3>2
  <2>2. CASE l # next
    BY <1>3, <1>5, <2>2 DEF Ahead
  <2> QED
    BY <2>1, <2>2
<1> QED
  BY <1>1, <1>5 DEF Ahead, Matches

\* Whoever has all the components has a slot of the smallest pool, too.
LEMMA EntitiesWithAhead ==
  ASSUME TypeInv, MasksExact, OwnersLive, Tidy, Ahead,
         NEW types \in SUBSET CompTypes, EntitiesWith(types)
  PROVE  Ahead'
<1>1. PICK n, loop :
        /\ n \in Numbers
        /\ loop.pool = n /\ n \in loop.mask
        /\ loop.pos = 0 /\ loop.end = Size(componentPools[n])
        /\ loop.kept = {e \in Living : Matches(loop.mask, e)}
        /\ componentPools' =
             [componentPools EXCEPT ![n] = EnableSoftRemove(componentPools[n])]
        /\ loops' = loops \cup {loop}
        /\ UNCHANGED entCompMasks
        /\ \A l \in loops : l.pool # n
  BY EntitiesWithFacts
<1>2. PICK p : p = componentPools[n]
  OBVIOUS
<1>3. PICK q : q = [p EXCEPT !.softRemoveMode = TRUE]
  OBVIOUS
<1>4. /\ componentPools'[n] = q
      /\ \A k \in Numbers \ {n} : componentPools'[k] = componentPools[k]
  BY <1>1, <1>2, <1>3 DEF EnableSoftRemove, Numbers
<1>5. Sound(p) /\ MappedInUse(p) /\ Mapped(p) = Owning(n)
  BY <1>1, <1>2 DEF MasksExact, Tidy
<1>6. /\ PoolType(p) /\ NullUnmapped(p) /\ Size(p) \in Nat
      /\ Size(p) = p.lastCompIndex + 1 /\ p.lastCompIndex \in Int
  BY <1>5, SoundFacts
<1>7. q.components = p.components
  BY <1>3, <1>6, ToggleFields
<1>8. ASSUME NEW e \in loop.kept
      PROVE  /\ e.index \in DOMAIN entCompMasks
             /\ Matches(loop.mask, e)
             /\ \E k \in 0 .. loop.end - 1 :
                  /\ EntityAt(q, k) = e
                  /\ loop.pos <= k
  <2>1. /\ e \in Living /\ e \in Ids /\ Matches(loop.mask, e)
        /\ e.index \in DOMAIN entCompMasks
    BY <1>1 DEF Living, TypeInv, EntitiesType, MasksType
  <2>2. e.index \in Mapped(p)
    BY <1>1, <1>5, <2>1 DEF Owning, Matches
  <2>3. PICK k : k = p.entIndexToCompIndex[e.index]
    OBVIOUS
  <2>4. k \in Slots(p) /\ EntityAt(p, k).index = e.index
    BY <1>5, <2>2, <2>3 DEF MappedInUse
  <2>5. EntityAt(p, k) # NullId
    BY <1>5, <1>6, <2>2, <2>3, OwnerIndexes
  <2>6. EntityAt(p, k) \in Living
    BY <1>1, <1>2, <2>4, <2>5 DEF OwnersLive
  <2>7. EntityAt(p, k) = e
    <3>1. PICK f : f = EntityAt(p, k)
      OBVIOUS
    <3>2. f.gen = e.gen /\ f.index = e.index /\ f \in Ids
      BY <2>1, <2>4, <2>6, <3>1 DEF Living
    <3> QED
      BY <2>1, <3>1, <3>2, StorageAssumption
  <2>8. k \in 0 .. loop.end - 1 /\ loop.pos <= k
    BY <1>1, <1>2, <1>6, <2>4 DEF Slots
  <2> QED
    BY <1>7, <2>1, <2>7, <2>8 DEF EntityAt
<1>9. ASSUME NEW l \in loops', NEW e \in l.kept
      PROVE  /\ e.index \in DOMAIN entCompMasks
             /\ Matches(l.mask, e)
             /\ \E k \in 0 .. l.end - 1 :
                  /\ EntityAt(componentPools'[l.pool], k) = e
                  /\ l.pos <= k \/ e \in l.visited
  <2>1. CASE l = loop
    BY <1>1, <1>4, <1>8, <1>9, <2>1
  <2>2. CASE l \in loops
    <3>1. l.pool \in Numbers
      BY <2>2 DEF TypeInv, LoopsType, LoopType
    <3>2. componentPools'[l.pool] = componentPools[l.pool]
      BY <1>1, <1>4, <2>2, <3>1
    <3> QED
      BY <1>9, <2>2, <3>2 DEF Ahead
  <2> QED
    BY <1>1, <1>9, <2>1, <2>2
<1> QED
  BY <1>1, <1>9 DEF Ahead, Matches

LEMMA EndLoopAhead ==
  ASSUME TypeInv, Ahead, NEW loop \in loops, EndLoop(loop)
  PROVE  Ahead'
<1>1. PICK q :
        /\ componentPools' = [componentPools EXCEPT ![loop.pool] = q]
        /\ loops' = loops \ {loop}
        /\ UNCHANGED entCompMasks
  BY EndLoopFacts
<1>2. \A l \in loops' : /\ l \in loops
                        /\ componentPools'[l.pool] = componentPools[l.pool]
  BY <1>1 DEF TypeInv, LoopsType, LoopType, LocksMatchLoops, Numbers
<1> QED
  BY <1>1, <1>2 DEF Ahead, Matches

KeptInv == VisitsInv /\ (taint = {} => Tidy /\ Ahead)

LEMMA KeptInvInit == Init => KeptInv
<1>1. Init => Numbers = {} /\ loops = {}
  BY DEF Init, CompMgrInit, Numbers
<1> QED
  BY <1>1, VisitsInvInit DEF KeptInv, Tidy, Ahead

LEMMA KeptInvNext == KeptInv /\ [Next]_vars => KeptInv'
<1> SUFFICES ASSUME KeptInv, [Next]_vars PROVE KeptInv'
  OBVIOUS
<1>1. VisitsInv' /\ TypeInv
  BY VisitsInvNext DEF KeptInv, VisitsInv, MasksInv
<1>2. ASSUME taint' = {} PROVE Tidy' /\ Ahead'
  <2>1. taint = {} /\ Diligent /\ Orderly /\ Orderly'
    BY <1>2, TaintGrows DEF Diligent, Orderly, Untainted
  <2>2. MasksExact /\ OwnersLive /\ Tidy /\ Ahead
    BY <2>1 DEF KeptInv, VisitsInv, MasksInv
  <2>3. CASE UNCHANGED vars
    BY <2>2, <2>3 DEF vars, compMgr, Tidy, Ahead, Numbers, Matches
  <2>4. CASE ~UNCHANGED vars
    <3>1. ~terminated
      BY <2>4 DEF Next, NewEntity, NewEntityTraps, Register, Assign,
                  RemoveComponent, RemoveAllComponents, Destroy, DestroyThrows, EntitiesWith,
                  Visit, VisitTraps, LoopAgain, EndLoop
    <3>2. CASE \E types \in SUBSET CompTypes : EntitiesWith(types)
      BY <1>1, <2>2, <3>2, EntitiesWithTidy, EntitiesWithAhead
    <3>3. CASE \E loop \in loops : EndLoop(loop)
      BY <1>1, <1>2, <2>2, <3>3, EndLoopTidy, EndLoopAhead
    <3>4. CASE PoolsChange
      <4>1. Tidy'
        BY <1>1, <2>2, <3>1, <3>4, PoolsChangeTidy
      <4>2. CASE LoopsLast
        BY <1>1, <2>2, <3>4, <4>1, <4>2, AheadLasts
      <4>3. CASE \E loop \in loops : Visit(loop) \/ LoopAgain(loop)
        BY <1>1, <2>2, <4>1, <4>3, AheadVisit, AheadAgain
      <4> QED
        BY <1>1, <3>2, <3>3, <4>2, <4>3, OtherLoops
    <3> QED
      BY <1>1, <2>1, <2>2, <3>2, <3>3, <3>4, OtherSteps
  <2> QED
    BY <2>3, <2>4
<1> QED
  BY <1>1, <1>2 DEF KeptInv

LEMMA KeptInvFacts ==
  ASSUME KeptInv, taint = {}
  PROVE  TypeInv /\ MasksExact /\ OwnersLive /\ Tidy /\ Ahead
<1>1. Diligent /\ Orderly
  BY DEF Diligent, Orderly, Untainted
<1> QED
  BY <1>1 DEF KeptInv, VisitsInv, MasksInv

LEMMA KeptInvVisitsAll == KeptInv => LoopVisitsAll
<1> SUFFICES ASSUME KeptInv, taint = {}, NEW loop \in loops, SlotsToVisit(loop) = {},
                    NEW e \in loop.kept
             PROVE  e \in loop.visited
  BY DEF LoopVisitsAll
<1>1. TypeInv /\ MasksExact /\ Ahead
  BY KeptInvFacts
<1>2. PICK k \in 0 .. loop.end - 1 :
        /\ EntityAt(componentPools[loop.pool], k) = e
        /\ loop.pos <= k \/ e \in loop.visited
  BY <1>1 DEF Ahead
<1>3. SUFFICES ASSUME loop.pos <= k PROVE FALSE
  BY <1>2
<1>4. /\ k \in DOMAIN componentPools[loop.pool].components
      /\ loop.pos \in Nat /\ loop.end \in Nat
  BY <1>1, LoopPools
<1>5. Matches(loop.mask, EntityAt(componentPools[loop.pool], k))
  BY <1>1, <1>2 DEF Ahead
<1>6. k \in SlotsToVisit(loop)
  BY <1>3, <1>4, <1>5 DEF SlotsToVisit
<1> QED
  BY <1>6

LEMMA KeptInvHandles == KeptInv => HandlesFindOwn
<1> SUFFICES ASSUME KeptInv, taint = {}, NEW e \in Known,
                    NEW c \in DOMAIN compTypeToCompIndex
             PROVE  /\ HandleFinds(e, c) =>
                         HandleOwner(e, c) \in {f \in Living : f.index = e.index}
                    /\ e \in Living /\ Has(e, c) => HandleFinds(e, c)
  BY DEF HandlesFindOwn
<1>1. TypeInv /\ MasksExact /\ OwnersLive /\ Tidy
  BY KeptInvFacts
<1>2. PICK n : n = compTypeToCompIndex[c]
  OBVIOUS
<1>3. n \in Numbers
  BY <1>1, <1>2 DEF TypeInv, RegistryType
<1>4. PICK p : p = componentPools[n]
  OBVIOUS
<1>5. PoolOf(c) = p
  BY <1>2, <1>4 DEF PoolOf, PoolsWith, CompIndex, Registered
<1>6. Sound(p) /\ MappedInUse(p)
  BY <1>1, <1>3, <1>4 DEF MasksExact, Tidy
<1>7. PoolType(p) /\ NullUnmapped(p)
  BY <1>6, SoundFacts
<1>8. ASSUME HandleFinds(e, c)
      PROVE  HandleOwner(e, c) \in {f \in Living : f.index = e.index}
  <2>1. HasComponent(p, e)
    BY <1>5, <1>8 DEF HandleFinds
  <2>2. e.index \in Mapped(p)
    BY <1>7, <2>1, MappedFacts
  <2>3. PICK k : k = p.entIndexToCompIndex[e.index]
    OBVIOUS
  <2>4. k \in Slots(p) /\ EntityAt(p, k).index = e.index
    BY <1>6, <2>2, <2>3 DEF MappedInUse
  <2>5. EntityAt(p, k) # NullId
    BY <1>6, <1>7, <2>2, <2>3, OwnerIndexes
  <2>6. EntityAt(p, k) \in Living
    BY <1>1, <1>3, <1>4, <2>4, <2>5 DEF OwnersLive
  <2>7. HandleOwner(e, c) = EntityAt(p, k)
    BY <1>5, <2>3 DEF HandleOwner, SlotOf
  <2> QED
    BY <2>4, <2>6, <2>7
<1>9. ASSUME Has(e, c) PROVE HandleFinds(e, c)
  <2>1. n \in entCompMasks[e.index]
    BY <1>2, <1>9 DEF Has
  <2>2. HasComponent(p, e)
    BY <1>1, <1>3, <1>4, <2>1, FoundHas DEF Found
  <2> QED
    BY <1>5, <2>2 DEF HandleFinds
<1> QED
  BY <1>8, <1>9

(***************************************************************************)
(* Without any of the four mistakes, a loop that has run to its end has    *)
(* visited every entity that had all the components when the collection    *)
(* was made and has kept them since: neither the choice of the smallest    *)
(* pool, nor what the body does to the pool, nor the swaps at the end of   *)
(* the loops within it make the loop miss one, the first time or again.    *)
(***************************************************************************)
THEOREM LoopsVisitAll == Spec => []LoopVisitsAll
<1>1. Spec => []KeptInv
  BY KeptInvInit, KeptInvNext, PTL DEF Spec
<1> QED
  BY <1>1, KeptInvVisitsAll, PTL

(***************************************************************************)
(* Without any of the four mistakes, the handle of a living entity's       *)
(* component finds it, wherever swaps have moved it, and what any handle   *)
(* finds, also one kept for too long, belongs to the living entity that    *)
(* has the index now.                                                      *)
(***************************************************************************)
THEOREM HandlesFindTheirOwn == Spec => []HandlesFindOwn
<1>1. Spec => []KeptInv
  BY KeptInvInit, KeptInvNext, PTL DEF Spec
<1> QED
  BY <1>1, KeptInvHandles, PTL
=============================================================================
