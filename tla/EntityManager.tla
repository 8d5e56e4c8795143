---------------------------- MODULE EntityManager ----------------------------
(***************************************************************************)
(* The life of entities: NewEntity, Destroy and DestroyAll, the indexes    *)
(* they recycle, and the component masks and signals they clear.  A        *)
(* component is only a bit of its entity's mask here; module ComponentPool *)
(* has the storage.                                                        *)
(*                                                                         *)
(* Destroy and DestroyAll are not atomic: Destroy emits EntityDestruction, *)
(* and a subscriber's callback may call the entity manager again, with any *)
(* operation on any entity, or throw.  The variable calls is the stack of  *)
(* calls under way, innermost first.                                       *)
(***************************************************************************)
EXTENDS EntityId, FiniteSets, Sequences

CONSTANTS ECS_ENTITY_RECYCLE_COUNT,
          CompTypes,    \* the component types
          NDEBUG,       \* whether Assert() may be compiled away
          Mistakes,     \* the kinds of steps in Taints the client may take
          MaxEntities,  \* bound: size of the vectors, the null entity included
          MaxCalls,     \* bound: depth of the stack of calls
          MaxFree       \* bound: length of the queue of free indexes

ASSUME ManagerAssumption ==
  /\ ECS_ENTITY_RECYCLE_COUNT \in Nat \ {0}
  /\ NDEBUG \in BOOLEAN
  /\ MaxEntities \in 1 .. IndexSpan
  /\ MaxCalls \in Nat
  /\ MaxFree \in Nat

VARIABLES entIndexToGen,       \* vector: index -> generation
          freeEntityIndexes,   \* queue of the indexes to be reused
          indexIsAlive,        \* vector: index -> BOOLEAN
          entCompMasks,        \* vector: index -> the component types it has
          entityEventSignals,  \* the ids that have an entry in the map
          calls,               \* the calls of Destroy and DestroyAll under way
          trapped,             \* whether an assertion has stopped the program
          issued,              \* history: the ids NewEntity has returned
          living,              \* history: those not destroyed since
          taint                \* history of the steps listed below

state == <<entIndexToGen, freeEntityIndexes, indexIsAlive, entCompMasks,
           entityEventSignals>>
vars == <<state, calls, trapped, issued, living, taint>>

(***************************************************************************)
(* The steps recorded in taint.                                            *)
(*   "reentered"      Destroy called for an entity that is being destroyed *)
(*   "nullDestroyed"  Destroy called for the null entity                  *)
(*   "deadAssign"     Assign for an index that has no living entity        *)
(*   "deadSubscribe"  Subscribe for an id that is not a living entity      *)
(*   "wrapped"        a generation went from its largest value to 0        *)
(*   "truncated"      a generation outgrew its part of the id              *)
(***************************************************************************)
Taints == {"reentered", "nullDestroyed", "deadAssign", "deadSubscribe",
           "wrapped", "truncated"}

\* The loop of DestroyAll runs, between two calls of Destroy.
InLoop == ~trapped /\ calls # << >> /\ Head(calls).op = "DestroyAll"

\* The client runs outside any call, and in the callbacks of a Destroy.
ClientRuns == ~trapped /\ ~InLoop

\* The ids the client has: those it was given, and Entity::Id().
Known == issued \cup {NULL_ID}

\* Destroying(i): a call of Destroy for index i is under way.
Destroying(i) ==
  \E n \in DOMAIN calls :
    calls[n].op = "Destroy" /\ IdIndex(calls[n].id) = i

Valid(e) == IdGeneration(e) = entIndexToGen[IdIndex(e)]

Alive(i) == indexIsAlive[i]

VectorSize == Cardinality(DOMAIN entIndexToGen)

\* push_back: the vectors are functions on 0 .. n - 1.
PushBack(f, n, x) == [k \in 0 .. n |-> IF k = n THEN x ELSE f[k]]

\* The step is one of those in kinds, which this client must be allowed.
Taint(kinds) ==
  /\ kinds \subseteq Mistakes
  /\ taint' = taint \cup kinds

\* An assertion that fails stops the program.  One that is compiled away
\* does not: where NDEBUG allows that, what follows it may happen instead.
Trap ==
  /\ trapped' = TRUE
  /\ UNCHANGED <<state, calls, issued, living>>

-----------------------------------------------------------------------------

Init ==
  /\ entIndexToGen = [i \in {0} |-> 0]
  /\ freeEntityIndexes = << >>
  /\ indexIsAlive = [i \in {0} |-> FALSE]
  /\ entCompMasks = [i \in {0} |-> {}]
  /\ entityEventSignals = {}
  /\ calls = << >>
  /\ trapped = FALSE
  /\ issued = {}
  /\ living = {}
  /\ taint = {}

Recycles == Len(freeEntityIndexes) >= ECS_ENTITY_RECYCLE_COUNT

\* The index and the generation NewEntity would use now.
NextIndex == IF Recycles THEN Head(freeEntityIndexes) ELSE VectorSize
NextGen == IF Recycles THEN entIndexToGen[NextIndex] ELSE 0
NextId == Pack(NextIndex, NextGen)

\* A bug to compare with: the index stays in the queue.
QueueNotPopped == freeEntityIndexes

QueuePopped == Tail(freeEntityIndexes)

\* The mask of a recycled index is blank, and the id holds both its parts.
NewEntityAsserts ==
  /\ Recycles => entCompMasks[NextIndex] = {}
  /\ RoundTrips(NextIndex, NextGen)

Returns(e) ==
  /\ issued' = issued \cup {e}
  /\ living' = living \cup {e}
  /\ UNCHANGED <<entityEventSignals, calls, trapped, taint>>

RecycleEntity ==
  /\ ClientRuns
  /\ Recycles
  /\ NDEBUG \/ NewEntityAsserts
  /\ freeEntityIndexes' = QueuePopped
  /\ indexIsAlive' = [indexIsAlive EXCEPT ![NextIndex] = TRUE]
  /\ Returns(NextId)
  /\ UNCHANGED <<entIndexToGen, entCompMasks>>

AppendEntity ==
  /\ ClientRuns
  /\ ~Recycles
  /\ VectorSize < MaxEntities
  /\ entIndexToGen' = PushBack(entIndexToGen, VectorSize, 0)
  /\ indexIsAlive' = PushBack(indexIsAlive, VectorSize, TRUE)
  /\ entCompMasks' = PushBack(entCompMasks, VectorSize, {})
  /\ Returns(NextId)
  /\ UNCHANGED freeEntityIndexes

NewEntityTraps ==
  /\ ClientRuns
  /\ Recycles
  /\ ~NewEntityAsserts
  /\ Trap
  /\ UNCHANGED taint

(* What Destroy does to an entity once its callbacks have run. *)

\* Bugs to compare with: each part of it forgotten, or done wrongly.
SignalsKept(e) == entityEventSignals
MasksKept(i) == entCompMasks
GenKept(i) == entIndexToGen[i]
QueueWithId(e) == Append(freeEntityIndexes, e)

\* The entity's signals are erased,
SignalsWithout(e) == entityEventSignals \ {e}

\* its components removed (and by RemoveAllComponents),
MasksWithout(i) == [entCompMasks EXCEPT ![i] = {}]

\* its generation, a gen_t, incremented,
GenAfter(i) == (entIndexToGen[i] + 1) % GenSpan

\* and its index queued.
QueueWith(e) == Append(freeEntityIndexes, IdIndex(e))

\* Neither Assign nor Subscribe asks whether the entity is valid.
Assign(e, c) ==
  /\ ClientRuns
  /\ entCompMasks' = [entCompMasks EXCEPT ![IdIndex(e)] = @ \cup {c}]
  /\ Taint(IF Alive(IdIndex(e)) THEN {} ELSE {"deadAssign"})
  /\ UNCHANGED <<entIndexToGen, freeEntityIndexes, indexIsAlive,
                 entityEventSignals, calls, trapped, issued, living>>

RemoveComponent(e, c) ==
  /\ ClientRuns
  /\ c \in entCompMasks[IdIndex(e)]
  /\ entCompMasks' = [entCompMasks EXCEPT ![IdIndex(e)] = @ \ {c}]
  /\ UNCHANGED <<entIndexToGen, freeEntityIndexes, indexIsAlive,
                 entityEventSignals, calls, trapped, issued, living, taint>>

RemoveAllComponents(e) ==
  /\ ClientRuns
  /\ entCompMasks' = MasksWithout(IdIndex(e))
  /\ UNCHANGED <<entIndexToGen, freeEntityIndexes, indexIsAlive,
                 entityEventSignals, calls, trapped, issued, living, taint>>

Subscribe(e) ==
  /\ ClientRuns
  /\ entityEventSignals' = entityEventSignals \cup {e}
  /\ Taint(IF e \in living THEN {} ELSE {"deadSubscribe"})
  /\ UNCHANGED <<entIndexToGen, freeEntityIndexes, indexIsAlive, entCompMasks,
                 calls, trapped, issued, living>>

-----------------------------------------------------------------------------
(* Destroy: begun by the checks and the Emit, during which the client runs; *)
(* finished when the callbacks have returned, or given up when one throws,  *)
(* or when what follows them does.                                          *)

NullDestroyed(e) == IF IdIndex(e) = 0 THEN {"nullDestroyed"} ELSE {}

\* The frame of a call of Destroy(e) is put on the stack under.
Emits(e, under) ==
  /\ calls' = <<[op |-> "Destroy", id |-> e]>> \o under
  /\ Taint(NullDestroyed(e)
             \cup (IF Destroying(IdIndex(e)) THEN {"reentered"} ELSE {}))
  /\ UNCHANGED <<state, trapped, issued, living>>

Destroy(e) ==
  /\ ClientRuns
  /\ Len(calls) < MaxCalls
  /\ Valid(e)
  /\ NDEBUG \/ Alive(IdIndex(e))
  /\ Emits(e, calls)

\* Any client may do this: nothing comes after it.
DestroyTraps(e) ==
  /\ ClientRuns
  /\ Valid(e)
  /\ ~Alive(IdIndex(e))
  /\ Trap
  /\ taint' = taint \cup NullDestroyed(e)

\* What incrementing gen makes of it.
Exhaustion(gen) ==
  CASE gen + 1 = GenSpan -> {"wrapped"}
    [] gen + 1 \in IdGenSpan .. GenSpan - 1 -> {"truncated"}
    [] OTHER -> {}

\* What follows the Emit: it does not look at the entity again.
FinishDestroy ==
  /\ ClientRuns
  /\ calls # << >>
  /\ Len(freeEntityIndexes) < MaxFree
  /\ LET e == Head(calls).id
         i == IdIndex(e)
     IN  /\ entityEventSignals' = SignalsWithout(e)
         /\ entCompMasks' = MasksWithout(i)
         /\ entIndexToGen' = [entIndexToGen EXCEPT ![i] = GenAfter(i)]
         /\ freeEntityIndexes' = QueueWith(e)
         /\ indexIsAlive' = [indexIsAlive EXCEPT ![i] = FALSE]
         /\ living' = living \ {e}
         /\ Taint(Exhaustion(entIndexToGen[i]))
  /\ calls' = Tail(calls)
  /\ UNCHANGED <<trapped, issued>>

\* An exception leaves Destroy, and the DestroyAll that called it.
Unwinds ==
  /\ ClientRuns
  /\ calls # << >>
  /\ calls' = IF Len(calls) > 1 /\ calls[2].op = "DestroyAll"
                THEN Tail(Tail(calls)) ELSE Tail(calls)
  /\ UNCHANGED <<entIndexToGen, freeEntityIndexes, indexIsAlive, trapped, issued,
                 living, taint>>

CallbackThrows ==
  /\ Unwinds
  /\ UNCHANGED <<entCompMasks, entityEventSignals>>

\* The callbacks return, but RemoveAllComponents throws, for a component that
\* the mask has and the pool has not (module Ecs has how; here any may be).
\* The entity lives on, without its signals and some of its components.
RemovalThrows ==
  /\ Unwinds
  /\ LET e == Head(calls).id
         i == IdIndex(e)
     IN  /\ entityEventSignals' = SignalsWithout(e)
         /\ \E kept \in SUBSET entCompMasks[i] \ {{}} :
              entCompMasks' = [entCompMasks EXCEPT ![i] = kept]

-----------------------------------------------------------------------------
(* DestroyAll: a loop over the indexes, re-reading the size each time. *)

LoopIndex == Head(calls).next

DestroyAll ==
  /\ ClientRuns
  /\ Len(calls) < MaxCalls - 1
  /\ calls' = <<[op |-> "DestroyAll", next |-> 1, before |-> living]>> \o calls
  /\ UNCHANGED <<state, trapped, issued, living, taint>>

\* A bug to compare with: the loop passes over every other index.
AdvancedTwice == <<[Head(calls) EXCEPT !.next = @ + 2]>> \o Tail(calls)

\* Another: it starts over after each entity it has destroyed.
StartedOver ==
  <<[Head(calls) EXCEPT !.next = IF Alive(@) THEN 1 ELSE @ + 1]>> \o Tail(calls)

Advanced == <<[Head(calls) EXCEPT !.next = @ + 1]>> \o Tail(calls)

SkipIndex ==
  /\ InLoop
  /\ LoopIndex < VectorSize
  /\ ~Alive(LoopIndex)
  /\ calls' = Advanced
  /\ UNCHANGED <<state, trapped, issued, living, taint>>

(***************************************************************************)
(* The id is made again from the index and its generation.  Its assertions *)
(* are not modelled: NewEntity has made the same for an index that lives.  *)
(***************************************************************************)
LoopId == Pack(LoopIndex, entIndexToGen[LoopIndex])

DestroyIndex ==
  /\ InLoop
  /\ LoopIndex < VectorSize
  /\ Alive(LoopIndex)
  /\ Valid(LoopId)
  /\ Emits(LoopId, Advanced)

\* An id that has lost a part of its generation is not valid: Destroy throws.
DestroyIndexThrows ==
  /\ InLoop
  /\ LoopIndex < VectorSize
  /\ Alive(LoopIndex)
  /\ ~Valid(LoopId)
  /\ calls' = Tail(calls)
  /\ UNCHANGED <<state, trapped, issued, living, taint>>

DestroyAllReturns ==
  /\ InLoop
  /\ LoopIndex >= VectorSize
  /\ calls' = Tail(calls)
  /\ UNCHANGED <<state, trapped, issued, living, taint>>

-----------------------------------------------------------------------------

Next ==
  \/ RecycleEntity
  \/ AppendEntity
  \/ NewEntityTraps
  \/ \E e \in Known, c \in CompTypes : Assign(e, c) \/ RemoveComponent(e, c)
  \/ \E e \in Known : RemoveAllComponents(e) \/ Subscribe(e)
  \/ \E e \in Known : Destroy(e) \/ DestroyTraps(e)
  \/ FinishDestroy
  \/ CallbackThrows
  \/ RemovalThrows
  \/ DestroyAll
  \/ SkipIndex
  \/ DestroyIndex
  \/ DestroyIndexThrows
  \/ DestroyAllReturns

Spec == Init /\ [][Next]_vars

LoopSteps == SkipIndex \/ DestroyIndex \/ DestroyIndexThrows \/ DestroyAllReturns

\* The d-th call from the bottom of the stack is a Destroy that ends, with an
\* exception or without.
CallbacksDone(d) ==
  /\ Len(calls) = d
  /\ FinishDestroy \/ CallbackThrows \/ RemovalThrows

(***************************************************************************)
(* The program is not suspended in a loop of DestroyAll, and a callback    *)
(* comes to its end, one way or the other.  What it calls on its way may   *)
(* suspend it again and again: hence the strong fairness, for each call.   *)
(***************************************************************************)
Fairness ==
  /\ WF_vars(LoopSteps)
  /\ \A d \in 1 .. MaxCalls : SF_vars(CallbacksDone(d))

FairSpec == Spec /\ Fairness

-----------------------------------------------------------------------------
(* Type. *)

Vectors == DOMAIN entIndexToGen

DestroyFrame == [op : {"Destroy"}, id : RawIds]

DestroyAllFrame ==
  [op : {"DestroyAll"}, next : Nat \ {0}, before : SUBSET RawIds]

(***************************************************************************)
(* The three vectors have the same length, the null entity's index is in   *)
(* them, and every index that is queued, in an id or on the stack is one   *)
(* of theirs: no at() of the class can throw.                              *)
(***************************************************************************)
TypeOK ==
  /\ \E n \in 1 .. MaxEntities :
       /\ entIndexToGen \in [0 .. n - 1 -> Generations]
       /\ indexIsAlive \in [0 .. n - 1 -> BOOLEAN]
       /\ entCompMasks \in [0 .. n - 1 -> SUBSET CompTypes]
  /\ freeEntityIndexes \in Seq(Vectors)
  /\ calls \in Seq(DestroyFrame \cup DestroyAllFrame)
  /\ \A n \in DOMAIN calls :
       calls[n].op = "Destroy" => IdIndex(calls[n].id) \in Vectors
  /\ trapped \in BOOLEAN
  /\ issued \subseteq {e \in RawIds : IdIndex(e) \in Vectors}
  /\ living \subseteq issued
  /\ entityEventSignals \subseteq Known
  /\ taint \subseteq Taints

-----------------------------------------------------------------------------
(* Safety. *)

\* What the client must keep to for the indexes to be accounted for.
Misused == taint \cap {"reentered", "nullDestroyed"} # {}

\* Where the generations are exhausted: ids repeat, or are not what they say.
Exhausted == taint \cap {"wrapped", "truncated"} # {}

(***************************************************************************)
(* Every index but the null entity's is either alive or queued for reuse,  *)
(* never both, and queued once: Destroy and NewEntity lose no index and    *)
(* hand none out twice, whatever callbacks do or throw, as long as no      *)
(* entity is destroyed from its own destruction.  (With NDEBUG, an id of a *)
(* generation that came round again may also destroy what is not alive.)   *)
(***************************************************************************)
IndexesAccountedFor ==
  ~Misused /\ ~(NDEBUG /\ "wrapped" \in taint) =>
    LET q == freeEntityIndexes
    IN  /\ {q[n] : n \in DOMAIN q} = {i \in Vectors \ {0} : ~Alive(i)}
        /\ \A m, n \in DOMAIN q : q[m] = q[n] => m = n

(***************************************************************************)
(* Valid answers, for every id ever returned by NewEntity, whether its     *)
(* entity is in the system: "An entity is invalid if it is not currently   *)
(* present in the system" (EntityManager.hh:89).  It holds until the       *)
(* generations of an index are exhausted.                                  *)
(***************************************************************************)
ValidIffLiving ==
  ~Misused /\ ~Exhausted => \A e \in issued : Valid(e) <=> e \in living

(***************************************************************************)
(* An id is given to one entity only, "an opaque integer ... that uniquely *)
(* represents an entity" (README.md:71): the next one is new.              *)
(***************************************************************************)
NextIdIsNew == ~Misused /\ ~Exhausted => NextId \notin issued

\* As README.md:71 says it, of the entities there are at the same time.
LivingIdsUnique == ~Exhausted => NextId \notin living

(***************************************************************************)
(* A new entity takes over nothing from the one that had its index: no     *)
(* component, even one assigned in the callbacks of its destruction, and   *)
(* no Destroy under way that would clear the mask of the new one.          *)
(***************************************************************************)
NewEntityIsBare ==
  Recycles /\ ~Misused /\ ~Exhausted /\ "deadAssign" \notin taint =>
    entCompMasks[NextIndex] = {} /\ ~Destroying(NextIndex)

(***************************************************************************)
(* The map of signals holds living entities only, also if they subscribe   *)
(* in the callbacks of their destruction: Destroy leaks no entry.          *)
(***************************************************************************)
NoLeakedSignals == "deadSubscribe" \notin taint => entityEventSignals \subseteq living

(***************************************************************************)
(* A client that makes none of the mistakes, and does not exhaust the      *)
(* generations, never runs into an assertion.                              *)
(***************************************************************************)
NeverTraps == taint = {} => ~trapped

\* "will remain usable until the entity is destroyed" (README.md:72).
LivingAreValid == "wrapped" \notin taint /\ ~Misused => \A e \in living : Valid(e)

(***************************************************************************)
(* DestroyAll, when it returns, has destroyed every entity there was when  *)
(* it was called, whatever its callbacks created, destroyed or recycled.   *)
(* (Once generations run out, a new one may have the id of an old one.)    *)
(***************************************************************************)
DestroyAllDestroysAll ==
  [][DestroyAllReturns /\ ~Misused /\ ~Exhausted =>
       Head(calls).before \cap living = {}]_vars

\* The d-th call from the bottom of the stack is a DestroyAll.
InDestroyAll(d) ==
  d <= Len(calls) /\ calls[Len(calls) - d + 1].op = "DestroyAll"

(***************************************************************************)
(* DestroyAll comes to its end, whatever its callbacks destroy and create, *)
(* as long as the vectors do not grow for ever: here they stop growing at  *)
(* MaxEntities, while generations go round and indexes are recycled for    *)
(* ever.  Indexes that come alive again behind the loop do not hold it.    *)
(***************************************************************************)
DestroyAllEnds ==
  \A d \in 1 .. MaxCalls - 1 :
    InDestroyAll(d) ~> (Len(calls) < d \/ trapped)

-----------------------------------------------------------------------------
(***************************************************************************)
(* The registry's ids, used and alive, can be read off the vectors: the    *)
(* queue only decides which id is next.                                    *)
(***************************************************************************)

\* The last generation of index i that an id was given: the current one is
\* only given once NewEntity takes the index.
LastGen(i) == IF Alive(i) THEN entIndexToGen[i] ELSE entIndexToGen[i] - 1

UsedIds == UNION {{Pack(i, g) : g \in 0 .. LastGen(i)} : i \in Vectors \ {0}}

AliveIds == {Pack(i, entIndexToGen[i]) : i \in {k \in Vectors : Alive(k)}}

Registry == INSTANCE EntityRegistry WITH
  Ids <- RawIds, used <- UsedIds, alive <- AliveIds

(***************************************************************************)
(* The entity manager implements the registry for as long as it is not     *)
(* misused and generations last: every step until then is a step of the    *)
(* registry, or changes nothing it knows of.                               *)
(***************************************************************************)
ImplementsRegistry ==
  /\ Registry!Init
  /\ [][~Misused' /\ ~Exhausted' => [Registry!Next]_Registry!vars]_vars
=============================================================================
