---------------------------- MODULE ComponentPool ----------------------------
(***************************************************************************)
(* One component pool and its client: the client assigns, removes and      *)
(* writes components, and may iterate over the pool.  While it iterates    *)
(* the pool is in soft remove mode: a removed component keeps its slot,    *)
(* owned by the null entity, until the IterateLock is destroyed.  The      *)
(* destructor then really removes the queued slots, one round of its loop  *)
(* per step, before the client runs again.                                 *)
(***************************************************************************)
EXTENDS ComponentStorage

VARIABLES pool,
          control,  \* who runs: "client", "drain" (the destructor's loop), or
                    \* "terminated" (the destructor threw)
          iter,     \* the iteration under way: its next slot and end, and, as
                    \* history, the owners of the slots in use when it began,
                    \* who held a component then and has kept it since, and
                    \* the owners of the slots visited
          taint     \* history of the steps the storage does not absorb (below)

vars == <<pool, control, iter, taint>>

(***************************************************************************)
(* The three steps recorded in taint.                                      *)
(*   "reassign"   Assign for an entity that already has the component      *)
(*   "nullOwner"  Assign for the null entity's index                       *)
(*   "tailSwap"   a round of the destructor's loop swapped in a last slot  *)
(*                that is itself still queued for removal                  *)
(***************************************************************************)
Taints == {"reassign", "nullOwner", "tailSwap"}

NoIteration ==
  [pos |-> 0, end |-> 0, began |-> {}, snapshot |-> {}, visited |-> {}]

Iterating == control = "client" /\ pool.softRemoveMode

Owners(p) == {EntityAt(p, k) : k \in Slots(p)}

\* The owners of the components the map leads to.
Holders(p) == {EntityAt(p, p.entIndexToCompIndex[i]) : i \in Mapped(p)}

-----------------------------------------------------------------------------

Init ==
  /\ pool = EmptyPool
  /\ control = "client"
  /\ iter = NoIteration
  /\ taint = {}

Assign(e, v) ==
  /\ control = "client"
  /\ Size(pool) < MaxSlots
  /\ pool' = NewComponent(pool, e, v)
  /\ taint' = taint
       \cup (IF HasComponent(pool, e) THEN {"reassign"} ELSE {})
       \cup (IF e.index = NullId.index THEN {"nullOwner"} ELSE {})
  /\ UNCHANGED <<control, iter>>

RemoveComponent(e) ==
  /\ control = "client"
  /\ HasComponent(pool, e)
  /\ pool' = Remove(pool, e)
  /\ iter' = [iter EXCEPT !.snapshot = {f \in @ : f.index # e.index}]
  /\ UNCHANGED <<control, taint>>

\* An assignment through a Handle.
WriteThroughHandle(e, v) ==
  /\ control = "client"
  /\ HasComponent(pool, e)
  /\ pool' = WriteComponent(pool, e, v)
  /\ UNCHANGED <<control, iter, taint>>

\* Entities() and CreateIterateLock(); the lock throws if there is one already.
BeginIteration ==
  /\ control = "client"
  /\ ~pool.softRemoveMode
  /\ pool' = EnableSoftRemove(pool)
  /\ iter' = [pos |-> 0, end |-> Size(pool), began |-> Owners(pool),
              snapshot |-> Holders(pool), visited |-> {}]
  /\ UNCHANGED <<control, taint>>

\* A bug to compare with: the end of the iteration is read again each time.
VisitToLiveEnd ==
  /\ Iterating
  /\ iter.pos < Size(pool)
  /\ iter' = [iter EXCEPT !.pos = @ + 1,
                          !.end = Size(pool),
                          !.visited = @ \cup {EntityAt(pool, iter.pos)}]
  /\ UNCHANGED <<pool, control, taint>>

\* The loop body is entered for the slot at pos, and the iterator advanced.
Visit ==
  /\ Iterating
  /\ iter.pos < iter.end
  /\ iter' = [iter EXCEPT !.pos = @ + 1,
                          !.visited = @ \cup {EntityAt(pool, iter.pos)}]
  /\ UNCHANGED <<pool, control, taint>>

\* The loop ends, at any point: break and exceptions destroy the lock too.
EndIteration ==
  /\ Iterating
  /\ control' = "drain"
  /\ iter' = NoIteration
  /\ UNCHANGED <<pool, taint>>

DrainStep ==
  /\ control = "drain"
  /\ pool.softRemoveCompIndexes # << >>
  /\ pool' = DrainOne(pool)
  /\ control' = IF Size(pool) = 0 THEN "terminated" ELSE "drain"
  /\ taint' = taint \cup (IF TailSwap(pool) THEN {"tailSwap"} ELSE {})
  /\ UNCHANGED iter

DrainDone ==
  /\ control = "drain"
  /\ pool.softRemoveCompIndexes = << >>
  /\ pool' = DisableSoftRemove(pool)
  /\ control' = "client"
  /\ UNCHANGED <<iter, taint>>

Next ==
  \/ \E e \in Ids, v \in Values : Assign(e, v) \/ WriteThroughHandle(e, v)
  \/ \E e \in Ids : RemoveComponent(e)
  \/ BeginIteration
  \/ Visit
  \/ EndIteration
  \/ DrainStep
  \/ DrainDone

Spec == Init /\ [][Next]_vars

-----------------------------------------------------------------------------
(* Type. *)

IterType(it) ==
  it \in [pos : Nat, end : Nat,
          began : SUBSET (Ids \cup {NullId}),
          snapshot : SUBSET (Ids \cup {NullId}),
          visited : SUBSET (Ids \cup {NullId})]

(***************************************************************************)
(* Every size_t the pool keeps is the number of a slot the vector has (or  *)
(* -1), so that no at() of the class throws but the one in SwapOut.        *)
(***************************************************************************)
TypeOK ==
  /\ PoolType(pool)
  /\ control \in {"client", "drain", "terminated"}
  /\ IterType(iter)
  /\ taint \subseteq Taints

-----------------------------------------------------------------------------
(* Safety. *)

(***************************************************************************)
(* The map leads back to every slot in use: the owner of a slot that is    *)
(* not null is mapped to this slot, so each owner has one slot.  It needs  *)
(* no taint of its own: swaps keep it even when they lose components.      *)
(***************************************************************************)
SlotOwnersMapped ==
  taint \cap {"reassign", "nullOwner"} = {} =>
    \A k \in Slots(pool) : OwnerMapped(pool, k)

(***************************************************************************)
(* The storage has no holes but the queued ones: every mapped index leads  *)
(* to a slot in use that it owns, and the slots owned by the null entity   *)
(* are the queued ones, each queued once.  Handle::operator-> and the      *)
(* iteration both rely on it.                                              *)
(***************************************************************************)
NoHoles == taint = {} => MappedInUse(pool) /\ QueueIsHoles(pool)

(***************************************************************************)
(* The slots in use are as many as the mapped indexes and the queued slots *)
(* together (with a reassigned component, at least as many): the counter   *)
(* lastCompIndex never wraps below -1 and the destructor never throws.     *)
(***************************************************************************)
CountsAgree ==
  LET used == Cardinality(Mapped(pool)) + Len(pool.softRemoveCompIndexes)
  IN  /\ "nullOwner" \notin taint => used <= Size(pool)
      /\ taint \cap {"reassign", "nullOwner"} = {} => used = Size(pool)

NeverTerminates == "nullOwner" \notin taint => control # "terminated"

(***************************************************************************)
(* The iterator stays inside the pool whatever the loop body does: neither *)
(* the assertion of operator* nor the exception of operator++ can happen.  *)
(***************************************************************************)
IterationInBounds ==
  Iterating => iter.pos <= iter.end /\ iter.end <= Size(pool)

\* No entity is visited a second time by one iteration.
NextIsNew ==
  /\ Iterating
  /\ iter.pos < iter.end
  /\ taint \cap {"reassign", "nullOwner"} = {}
  => EntityAt(pool, iter.pos) \notin iter.visited \ {NullId}

(***************************************************************************)
(* An iteration that runs to its end has visited every entity that held a  *)
(* component when it began and has kept it, whatever the loop body did.    *)
(* The first form is what EntityManager.hh:154 says ("iterate over all     *)
(* entities that have the given components") to a client that never        *)
(* assigns a component twice; the code keeps the second.                   *)
(***************************************************************************)
VisitedAll ==
  Iterating /\ iter.pos = iter.end => iter.snapshot \subseteq iter.visited

IterationVisitsAll == "reassign" \notin taint => VisitedAll

TidyIterationVisitsAll == taint = {} => VisitedAll

(***************************************************************************)
(* Nobody who got the component during the iteration is visited by it: new *)
(* components go behind the end of the iteration, and soft removal leaves  *)
(* no slot before it that they could move into (EntityManager.hh:163, "a   *)
(* snapshot of what was in the system").  It holds whatever taints the     *)
(* pool, so no body prolongs its own loop by assigning to others.          *)
(***************************************************************************)
VisitsWereThere ==
  Iterating => iter.visited \ {NullId} \subseteq iter.began

(***************************************************************************)
(* What the comment on the lock promises: while the client iterates, no    *)
(* component in use changes its slot; a slot can only lose its owner.      *)
(***************************************************************************)
SlotsStableWhileIterating ==
  [][Iterating /\ Iterating' =>
       \A k \in Slots(pool) :
         EntityAt(pool', k) \in {EntityAt(pool, k), NullId}]_vars

-----------------------------------------------------------------------------
(***************************************************************************)
(* Soft removal, swaps and the destructor's loop are invisible in the      *)
(* abstract store, and an iteration has still to visit the owners of the   *)
(* slots ahead of it.                                                      *)
(***************************************************************************)
ComponentOf(p, i) == p.components[p.entIndexToCompIndex[i]]

StoreOf(p) ==
  [i \in Mapped(p) |-> [id    |-> ComponentOf(p, i).first,
                        value |-> ComponentOf(p, i).second]]

OwnersAhead ==
  IF Iterating
    THEN {EntityAt(pool, k) : k \in iter.pos .. iter.end - 1} \ {NullId} ELSE {}

Store == INSTANCE ComponentStore WITH
  store <- StoreOf(pool), open <- Iterating, todo <- OwnersAhead

(***************************************************************************)
(* The pool implements the abstract store until something taints it: every *)
(* step before that is a step of the store or leaves it as it was.         *)
(***************************************************************************)
ImplementsStore ==
  Store!Init /\ [][taint' = {} => [Store!Next]_Store!vars]_vars
=============================================================================
