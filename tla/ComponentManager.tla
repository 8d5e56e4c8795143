-------------------------- MODULE ComponentManager --------------------------
(***************************************************************************)
(* The component manager: one pool for each component type, the numbering  *)
(* of the types, and a mask for each entity index that repeats which of    *)
(* the pools has a component of it.  Masks and pools are changed one after *)
(* the other, so an exception between the two leaves them apart.           *)
(*                                                                         *)
(* These are the operations, as conditions and actions on the variables    *)
(* below; module Ecs runs them.                                            *)
(***************************************************************************)
EXTENDS ComponentStorage

CONSTANT MAX_COMPONENT_TYPES  \* the bits of a mask

ASSUME MasksAssumption == MAX_COMPONENT_TYPES \in Nat \ {0}

VARIABLES compTypeToCompIndex,  \* component type -> its number
          componentPools,       \* vector: number -> pool
          entCompMasks          \* vector: entity index -> numbers it has

compMgr == <<compTypeToCompIndex, componentPools, entCompMasks>>

ComponentTypeCount == Cardinality(DOMAIN componentPools)

Registered(c) == c \in DOMAIN compTypeToCompIndex

(***************************************************************************)
(* Nothing keeps the types within the bits of a mask.  For a number that   *)
(* has no bit set() and test() throw, and operator[] reads what it finds,  *)
(* which may be anything.                                                  *)
(***************************************************************************)
HasBit(n) == n < MAX_COMPONENT_TYPES

AllHaveBits == \A n \in DOMAIN componentPools : HasBit(n)

\* Has, and the test with which Remove and Get begin.  For a type without a bit
\* either answer is possible, and either leaves all as it is: the pool of such a
\* type is empty, and throws.
Has(e, c) ==
  Registered(c) /\ compTypeToCompIndex[c] \in entCompMasks[e.index]

\* The number c has, or is given when it is registered now.
CompIndex(c) ==
  IF Registered(c) THEN compTypeToCompIndex[c] ELSE ComponentTypeCount

PoolsWith(c) ==
  IF Registered(c) THEN componentPools
                   ELSE Put(componentPools, ComponentTypeCount, EmptyPool)

PoolOf(c) == PoolsWith(c)[CompIndex(c)]

CompMgrInit ==
  /\ compTypeToCompIndex = [c \in {} |-> 0]
  /\ componentPools = [n \in {} |-> EmptyPool]
  /\ entCompMasks = [i \in {NullId.index} |-> {}]

RegisterComponentType(c) ==
  /\ ~Registered(c)
  /\ compTypeToCompIndex' = Put(compTypeToCompIndex, c, CompIndex(c))
  /\ componentPools' = PoolsWith(c)
  /\ UNCHANGED entCompMasks

(***************************************************************************)
(* Assign: registers the type if need be, sets the bit of the mask, and    *)
(* only then has the pool make the component, which makes it pool p.       *)
(***************************************************************************)
AssignBy(e, c, p) ==
  /\ HasBit(CompIndex(c))
  /\ compTypeToCompIndex' = Put(compTypeToCompIndex, c, CompIndex(c))
  /\ entCompMasks' = [entCompMasks EXCEPT ![e.index] = @ \cup {CompIndex(c)}]
  /\ componentPools' = [PoolsWith(c) EXCEPT ![CompIndex(c)] = p]

\* A bug to compare with: the mask is not set.
AssignUnmasked(e, c) ==
  /\ compTypeToCompIndex' = Put(compTypeToCompIndex, c, CompIndex(c))
  /\ \E v \in Values :
       componentPools' = [PoolsWith(c) EXCEPT
                            ![CompIndex(c)] = NewComponent(@, e, v)]
  /\ UNCHANGED entCompMasks

AssignMakes(e, c) ==
  /\ HasRoom(PoolOf(c))
  /\ \E v \in Values : AssignBy(e, c, NewComponent(PoolOf(c), e, v))

\* The constructor of a component may throw, and the vector's at() must when
\* there is no room.
AssignThrows(e, c) == AssignBy(e, c, NewComponentThrows(PoolOf(c)))

\* A bug to compare with: the pool is told before the mask refuses the bit.
AssignRefusedLate(e, c) ==
  /\ ~HasBit(CompIndex(c))
  /\ compTypeToCompIndex' = Put(compTypeToCompIndex, c, CompIndex(c))
  /\ \E v \in Values :
       componentPools' = [PoolsWith(c) EXCEPT
                            ![CompIndex(c)] = NewComponent(@, e, v)]
  /\ UNCHANGED entCompMasks

\* The mask refuses the bit of a type that has been registered all the same.
AssignRefused(e, c) ==
  /\ ~HasBit(CompIndex(c))
  /\ RegisterComponentType(c)

(***************************************************************************)
(* A Handle is an id and a pool, and looks the slot up each time: what a   *)
(* handle of e's component finds, if it is not a null pointer, is owned by *)
(* HandleOwner.                                                            *)
(***************************************************************************)
HandleFinds(e, c) == HasComponent(PoolOf(c), e)
HandleOwner(e, c) == EntityAt(PoolOf(c), SlotOf(PoolOf(c), e))

(***************************************************************************)
(* Remove, for a component the mask has: the bit is reset once the pool    *)
(* has removed the component, and stays when the pool throws.              *)
(***************************************************************************)
RemoveFromPool(e, c) ==
  /\ Has(e, c)
  /\ LET n == compTypeToCompIndex[c]
     IN  /\ componentPools' = [componentPools EXCEPT ![n] = AfterRemove(@, e)]
         /\ entCompMasks' =
              IF RemoveThrows(componentPools[n], e) THEN entCompMasks
              ELSE [entCompMasks EXCEPT ![e.index] = @ \ {n}]
  /\ UNCHANGED compTypeToCompIndex

(***************************************************************************)
(* RemoveAll: the pools in the order of their numbers, up to the first     *)
(* that throws.                                                            *)
(***************************************************************************)
PoolsThatThrow(e) ==
  {n \in entCompMasks[e.index] : RemoveThrows(componentPools[n], e)}

RemoveAllThrows(e) == PoolsThatThrow(e) # {}

\* A number without a bit may read as set: its pool is tried last, and throws.
RemoveAllMayThrow(e) == RemoveAllThrows(e) \/ ~AllHaveBits

TriedPools(e) ==
  {n \in entCompMasks[e.index] : \A k \in PoolsThatThrow(e) : n <= k}

RemoveAll(e) ==
  /\ componentPools' = [n \in DOMAIN componentPools |->
                          IF n \in TriedPools(e)
                            THEN AfterRemove(componentPools[n], e)
                            ELSE componentPools[n]]
  /\ entCompMasks' = [entCompMasks EXCEPT
                        ![e.index] = @ \ (TriedPools(e) \ PoolsThatThrow(e))]
  /\ UNCHANGED compTypeToCompIndex
=============================================================================
