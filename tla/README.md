# Glomerate in TLA+

Glomerate is a header-only C++11 entity component system. This directory holds
TLA+ modules that model its data structures and the calls a client can make of
them, TLC configurations that check the modules on small instances, and TLAPS
proofs of what matters most for every instance. `PROJECT.json` names, for each
definition, the lines of code it models.

The program has one thread. What makes it hard is re-entrancy: a client calls
the entity manager in the body of a loop over its entities, in nested loops, and
in callbacks that the entity manager itself calls in the middle of `Destroy`,
and any of these may be left by an exception.

## The system

| Component | State | Operations | Talks to |
| --- | --- | --- | --- |
| Entity ids (`Entity.hh`, `EntityImpl.hh`) | one integer: index and generation | pack, unpack | |
| Entity lifecycle (`EntityManagerImpl.hh`) | generations and liveness by index, queue of free indexes | `NewEntity`, `Destroy`, `DestroyAll`, `Valid` | emits `EntityDestruction`; has the component manager clear the mask |
| Component manager (`ComponentManagerImpl.hh`) | numbers of the types, pools, masks by index | `RegisterComponentType`, `Assign`, `Remove`, `RemoveAll`, `Has`, `Get` | calls the pools |
| Component storage (`ComponentStorageImpl.hh`) | slots, `lastCompIndex`, map from index to slot, soft remove mode and its queue | `NewComponent`, `Remove`, `Get`, lock and iterator | |
| Loops (`EntitiesWith`, `EntityCollection`) | pool, lock, position, end, mask | `CreateComponentMask`, begin, `++`, `*`, end of life | locks the smallest pool; reads masks |
| Handles (`HandleImpl.hh`) | an id and a pool | dereference | looks the slot up each time |
| Events (`Subscribe`, `Emit`, `Subscription`) | one signal for each type of event, and for each entity and type | subscribe, unsubscribe, emit | calls the client back |
| `Entity` (facade), `Assert`, vendored Boost, tests | | | |

What each has to get right:

* Ids: both parts survive packing, in the 64-bit layout (48 + 16 bits) and in
  the 32-bit one (22 + 10 bits, with a generation that is counted in 16).
* Lifecycle: every index is in use or queued once; an id is given out once;
  `Valid` is true of the entities in the system and of no other; a new entity
  takes over nothing from the one before; `DestroyAll` leaves none of the
  entities it found.
* Storage: the slots in use are contiguous and owned; the map and the slots
  agree; while a lock exists no component changes its slot; the destructor of
  the lock leaves no holes and does not throw.
* Component manager: masks and pools agree, and a type beyond the bits of a mask
  does no harm to others.
* Handles: one finds its own component, or none once that is gone.
* Loops: each entity that qualifies throughout is visited once, none that does
  not, and the iterator stays in the pool.
* Events: a subscriber is called once for each event from the time it
  subscribes until it unsubscribes or its entity is gone.

The hazards behind these properties are listed in `PROJECT.json`, each at its
line.

## The modules

`EntityId` has the packing of ids, with the numbers of values of the parts as
constants, so that one module stands for both layouts: `GenSpan > IdGenSpan`
is the 32-bit one.

`ComponentStorage` is the class `ComponentPool` as a record with the members of
the class and one operator for each method. Ids are records `[index, gen]`
here: `EntityId` shows that nothing is lost. The value of a component is a
member of a small set. `size_t` -1 is the integer -1; the properties show that
the counter never goes below it, where the code would wrap.

`ComponentPool` runs the storage: a client assigns, removes and writes
components and iterates, one iteration at a time (`Ecs` has more than one position in a
pool). The destructor of the lock takes one step for each round of its loop. `iter` has
history of who was in the pool when an iteration began, whom it should visit and
whom it has visited. `taint` remembers three kinds of steps
the storage does not absorb: a component assigned twice, one assigned to the
null entity, and a round that swaps in a slot that is itself queued.

`ComponentStore` is what a pool promises: a map from indexes to components, and
iterations that visit the entities that keep theirs. `ComponentPool` implements
it until something taints it (`ImplementsStore`): slots, swaps and soft removal
are invisible, and an iteration has still to visit the owners of the slots ahead.

`EntityManager` is the lifecycle. `Destroy` is two steps, up to its `Emit` and
after it; in between the client runs, so that callbacks may do anything,
`Destroy` and `DestroyAll` included, or throw (`CallbackThrows`).
`RemoveAllComponents` may throw in the second half, after the signals are erased
and before the entity is killed (`RemovalThrows`): the entity lives on with some
of its components. The code does so once a constructor has thrown or a component
was assigned twice, which `Ecs` has in full; here it may whenever the entity has a
component. `calls` is the stack of calls under way. `DestroyAll` takes a step for each round of its loop.
An assertion that fails stops the program (`trapped`); with `NDEBUG` the
assertions may be compiled away, and what follows a failed one may also happen,
so that one model has the behaviours of both builds. `taint` remembers what a
careful client does not do, and exhausted generations; the constant `Mistakes`
says which of these a configuration allows. A component is a member of its
entity's mask here and nothing else, and of the signals only the keys of
`entityEventSignals` are kept; their subscribers are in `Events`.

`EntityRegistry` is what the lifecycle promises: every entity gets an id that
none had before it. `EntityManager` implements it for as long as no entity is
destroyed from its own destruction and generations last
(`ImplementsRegistry`).

`ComponentManager` has the component manager's operations: masks and pools are
changed one after the other, and the models of `Assign`, `Remove` and
`RemoveAll` say what an exception in between leaves. Nothing keeps the registered
types within the `MAX_COMPONENT_TYPES` bits of a mask. For a number that has no
bit, `set()` and `test()` throw and `operator[]` reads outside the mask: either
answer is then possible, so that `Destroy` may go through or throw. A handle is
an id and a type, and what it finds is looked up when it is used (`HandleFinds`,
`HandleOwner`): a handle is good or not whenever it was made, so none is kept in
the state.

`Ecs` composes it with entities and with the collections `EntitiesWith` returns:
the smallest pool is chosen and locked, slots are filtered by the masks, and the
end of a collection drains its pool in one step, nothing of the client running in
between. `loops` is the set of collections there are. Each may be looped over
again (`LoopAgain`), side by side with others, and destroyed in any order
(`EndLoop`), which has nested loops as one case. Iterators of the same collection
are independent, so one position stands for any of them. `NewEntity` takes any
index not in use; if its mask is not blank the assertion stops the program
(`NewEntityTraps`), or with `NDEBUG` the entity takes over what the mask has, and
both may happen. `Destroy` calls nobody back: what callbacks do before it goes on
could as well have been done before it was called, except to destroy the same
entity, and `EntityManager` has that in full.

`EcsSnapshot` adds a history variable to `Ecs`, whom a collection had to begin
with, that only one property needs.

`Events` has the signals: subscriptions, the lists of slots that emissions go
through, and what `NewEntity` and `Destroy` do to them. A signal is named by
the entity it is for, or that it is for any entity or for none, and by its type
of event; `registerEventType` and `getOrCreateEntitySignal` make the signal when
it is first subscribed to, which is a part of `Subscribe`. `stack` has the calls
of `Emit` under way, each with the list of slots as it was when its signal began
to call (Boost copies the list that is in use when a slot is connected) and the
signals it has yet to look up. A step is a callback that is called; in it the
client may do anything. `Destroy` is an emission with an end of its own: it
detaches the entity's subscribers (`Detaches`), and then the entity is gone
(`DestroyReturns`), or `RemoveAllComponents` throws and it lives on without them
(`DestroyThrows`). The history variable `lost` has the subscriptions such a
`Destroy` detached: they are over though their entity lives, while those made
afterwards are active. No comment says what a `Destroy` that fails may have done
already, so the properties state it and it is no finding. `connected` and the lists are kept apart, because a
`Subscription` has only a weak pointer to its slot. Boost removes disconnected
slots from its lists now and then; the model never does, and no property can
tell. At the end of an emission that skipped more slots than it called Boost
cleans up the list of the signal, which is undefined if `Destroy` has erased the
signal: `undefined` may then become true, and the model stops.

`MCComponentPool`, `MCEntityManager`, `MCEcs`, `MCEcsSnapshot` and `MCEvents` give the
constants their values. The modules whose names end in `Proofs` hold the proofs:
`ComponentStorageProofs` those about one pool, whoever uses it, which
`ComponentPoolProofs` and `EcsProofs` build on.

Definitions marked as bugs to compare with are not part of the models: a
checked property is violated when one of them takes the place of the definition
it is next to.

## The runs

| Run | Question | Bounds |
| --- | --- | --- |
| `ComponentPool` | Do slots, map, queue and counter stay consistent; is an iteration stable, in bounds and complete, and does it visit only who was there when it began, whatever its body does; does the pool implement the store? | 4 ids on 3 indexes, 2 values, 3 slots |
| `EntityManager` | Is the lifecycle right whatever the client does, but for the mistakes each property excludes, and does it implement the registry? | 2 indexes, 3 generations of which the id holds 2, 3 calls deep |
| `EntityManagerLive` | Does every `DestroyAll` end? | 2 indexes, 2 generations, which go round, 3 calls deep |
| `Events` | Does each emission call whom it should, and when do subscriptions and signals end? | 1 entity, 2 types of events, 3 subscriptions, 3 calls deep |
| `Ecs` | Are masks, handles, locks and loops over two types right, with two collections in any order and an index recycled? | 3 ids on 2 indexes, 2 types, 2 slots, 2 collections |
| `EcsMisused` | Do locks, bounds and masks survive double, dead and failed assignments, and one type more than a mask has bits? | 3 ids on 2 indexes, 2 types and 1 bit, 3 slots, 1 collection |

All of these pass. The bounds are chosen so that each case happens. Three slots
are the fewest in which a round of the drain can lose a component (the last
slot queued behind another, with a live one between them). Two generations of
an index are the fewest in which ids can be confused. A stack of three calls
holds a `Destroy` under a `DestroyAll` under a `Destroy`, and an emission to an
entity under whose destruction another begins. Three subscriptions hold one that
has been called, one that is ended and one that comes after it; those for any
entity and for none show that `Destroy` ends no other entity's. Two collections
and two types are the fewest in which one loop's body removes from the other's
pool at once and from its own softly, and in which the collection made first can
be destroyed first. One bit is the fewest: the second type is then the one too
many. The length of the free queue, of the vectors, of the stack and of the
pools, and the number of subscriptions, are bounds in the guards (`MaxFree`,
`MaxEntities`, `MaxCalls`, `MaxSlots`, `MaxLoops`, `MaxSubs`); in the code they are bounded by memory and by the widths
of the integers. Component types are symmetric: they are only ever numbered in
the order they come.

Two runs tell states apart by a view. That of `Ecs` leaves out what a slot holds
that is neither in use nor mapped: it is overwritten before it is read again, as no
constructor throws in that run (`EcsMisused`, where some do, has no view). That of
`Events` leaves out how a subscription came to be over, ended by the client, with its
entity or by a `Destroy` that threw: it can do nothing any more, and no property asks.
No step and no property depends on what is left out, so the runs show of all
states what they show of the 0.5 and 2.6 million they visit; without the views
they visit 1.2 and 6.7 million and pass as well.

The null entity is not among the ids of the run `ComponentPool`. `TypeCorrect` and
`IteratorStaysInBounds` are proved with it; the others exclude that a component is
assigned to it, which is the taint `"nullOwner"`.

The run `EntityManager` has the behaviours with assertions and without, and
stops short of a generation that wraps and of a null entity destroyed without
assertions, both of which multiply the states in ways most properties exclude;
the proofs cover them.

`CHECK_DEADLOCK FALSE` is in the configurations in which the program really
stops (an assertion, or a destructor that throws), and in those where a step
that the bounds leave out is the only one left.

Six runs find the code at odds with what its comments and README say:

* `ComponentPool_IterationVisitsAll`: remove, during a loop, a component and
  then the one in the last slot. The drain swaps the queued last slot into the
  first hole, and the second round moves a live component out of the slots in
  use. The storage has a hole, and the next loop misses an entity that has the
  component. Draining the queue from the highest slot to the lowest would avoid
  it.
* `EntityManager_LivingIdsUnique`: a callback of an entity's destruction that
  destroys it again makes both calls queue the index, and two entities get the
  same id.
* `EntityManager_LivingAreValid`: in the 32-bit layout the generation outgrows
  its 10 bits, and a new entity is not valid.
* `Ecs_LoopIsSnapshot`: a loop visits an entity that was assigned one of the
  components during the loop; the "snapshot" is only that of the smallest pool.
* `Ecs_DestroyRemoves`: a component's constructor that throws leaves its bit in
  the mask, and `Destroy` of the entity throws from then on.
* `Ecs_RegisteredAreSearchable`: `EntitiesWith` tests the bit of every registered
  type, and `bitset::test` throws for the first one beyond `MAX_COMPONENT_TYPES`:
  from then on no type can be searched for. A check in `RegisterComponentType`
  would say so at the right place.

Two more are excluded from the properties and contradict no comment. No operation
on components asks `Valid`: by an id kept after its entity was destroyed a client
assigns to whoever has the index now, or removes from it. And a callback
subscribed to one entity that destroys this entity has `Destroy` erase the signal
that is calling it. Boost has no use for the signal then, except at the end of
the emission, if more slots were skipped than called (the first of three
callbacks destroys the entity, for one). Keeping a copy of the signal's pointer
for the time of the emission, or erasing it later, would avoid it.

### Fairness

One run assumes some, and in one thread it only asks that the program is not
suspended in a loop of its own and that the client's code comes back.

`EntityManagerLive`, for `DestroyAllEnds`: weak fairness of the steps of
`DestroyAll`'s loop, and, for each depth of the stack, strong fairness of the step
with which the callbacks at that depth are done: `Destroy` goes on, or an
exception leaves it, the callback's or that of `RemoveAllComponents`. It has to be strong because a callback may make calls of
its own on its way, during which it cannot return, any number of times.
Callbacks may create, destroy and recycle for ever; the vectors, though, stop
growing at `MaxEntities`. That is needed: callbacks that append an entity in each
round would keep the loop going, and nothing in the code prevents them. It is
also enough: indexes that come alive again behind the loop do not hold it.

That a loop over a pool ends is not stated as liveness, where the bound on the
slots alone would end it. It is safety: by `IterationInBounds` and
`VisitsWereThere` it goes to the end there was when it began and visits nobody who
came since, and each `Visit` comes one slot nearer.

## The proofs

`EntityIdProofs`: an index below `IndexSpan` survives packing, a generation does
if it fits in the id (`PackRoundTrips`), and every id is made of its own parts
(`IdParts`), by arithmetic on quotients and remainders.

`ComponentStorageProofs` has no theorem of its own to show. Its lemmas say of each
method of `ComponentPool` what it preserves and what it does to the owners of the
slots, the map, the queue and the counts, for any pool that has the property the
method needs. They do not mention a variable, so that both the machine with one
pool and the component manager with many can cite them.

`ComponentPoolProofs`, for any set of ids and any number of slots:

* `TypeCorrect`: `TypeOK`. The strengthening `TypeInv` adds that the iterator
  is in bounds and that the queue is empty outside soft remove mode; both are
  needed because removal in that mode must not lower `lastCompIndex`.
* `IteratorStaysInBounds`: `IterationInBounds`, from the same invariant.
* `OwnersStayMapped`: `SlotOwnersMapped`, by showing that each method keeps
  every owner mapped to its slot; the drain needs no exception, even where it
  loses components.
* `SlotsAreStable`: the action property `SlotsStableWhileIterating`, what the
  comment on the lock promises, step by step from `TypeInv`.
* `VisitsAreNew`: `NextIsNew`, through `Fresh`: no owner of a slot ahead of the
  iterator has been visited. A visit keeps it because owners have one slot
  (`OwnersStayMapped`), any other step because slots are stable and a new
  component goes beyond the end of the iteration.
* `VisitsAreOfThoseThere`: `VisitsWereThere`, through `Began`: whoever owns a slot
  between the iterator and its end was there when the iteration began. It needs
  the same stability of slots and nothing of the client, so it holds also when
  components are assigned twice and when drains have lost some.

and about what a drain can and cannot lose:

* `HolesAreQueued`: `NoHoles`, inductive with `OwnersInv`, one lemma for each
  method of the storage. A round of the drain keeps it exactly as long as it does
  not swap in a slot that is itself queued, which is the taint `"tailSwap"`.
* `TidyIterationsVisitAll`: `TidyIterationVisitsAll`, through `Ahead`: whoever
  held a component when the iteration began and has kept it has been visited or
  owns a slot between the iterator and its end.
* `CountsStayInStep`: `CountsAgree`. Neither count is inductive: after a drain has
  lost components, what is mapped and what is in use no longer agree slot by slot.
  What stays is a balance. `Holes` are the slots in use without an owner, `Misled`
  the mapped indexes that do not lead to a slot of their own, and `Spare` is the
  number of the first less that of the second. A swap spends at most one spare
  hole or misleads at most one more index (`SwapOutSpare`), so there are always as
  many as slots queued (`SpareInv`), and the mapped indexes fit into the slots
  that are left (`MappedFit`).
* `DestructorNeverThrows`: `NeverTerminates`, from the same: while a slot is
  queued one is in use.

`ComponentPoolStoreProofs`: `PoolImplementsStore` is the refinement
`ImplementsStore`. `Assign`, `RemoveComponent`, writes, `BeginIteration`, `Visit`
and `EndIteration` are steps of `ComponentStore`, and each round of the drain is a
stutter: a swap moves a component and its map entry together. It rests on
`NoHoles` (every mapped index leads to its component) and on `Fresh` (a visited
owner does not come back among `OwnersAhead`).

`EntityManagerProofs`, for any widths, vector sizes, depths of calls and any
mistakes:

* `TypeCorrect`: `TypeOK`. That the vectors are functions on an initial segment
  of the naturals, and that all indexes on the stack are in it.
* `BookkeepingKept`: the inductive invariant `Bookkeeping`. Its first part,
  `GensGrow`, holds whatever the client does: no id has a generation its index
  has not reached, and an index that is not alive is past all of them. As long
  as no entity is destroyed from its own destruction, the queue holds exactly
  the dead indexes, and the calls of `Destroy` under way are for different
  entities, all alive (`FramesAlive`, without which the second half of `Destroy`
  could kill an index twice). As long as generations also last, the living
  entities are exactly those the vectors say, and the calls under way are for
  valid ids.
* `IndexesNeverLost`, `ValidTellsLiving`, `IdsNeverRepeat`: the properties
  `IndexesAccountedFor`, `ValidIffLiving` and `NextIdIsNew`, each from
  `Bookkeeping`.
* `SignalsNeverLeak`: `NoLeakedSignals`, inductive by itself.
* `NewEntitiesAreBare`: `NewEntityIsBare`. That an index without a living entity
  has a blank mask (`DeadAreBare`) is inductive by itself; that the head of the
  queue is such an index, and not one being destroyed, is from `Bookkeeping`.
* `AssertionsHold`: `NeverTraps`. The assertions of `NewEntity` hold by
  `NewEntityIsBare` and because generations fit; that of `Destroy` because an id
  of a dead index is not valid (`GensGrow`). With this every invariant of
  `EntityManager` the runs check is proved.

`EntityRegistryProofs`:

* `ManagerImplementsRegistry`: the refinement `ImplementsRegistry`. The sets of
  used and of alive ids that `EntityManager` gives the registry are computed from
  the vectors; `UsedByParts` and `AliveByParts` tell their elements by index and
  generation, so that a step that changes one index changes one id. The first half
  of `NewEntity` is the registry's creation and the second half of `Destroy` its
  destruction; everything else, `DestroyAll` and callbacks included, is a stutter.
* `DestroyAllIsComplete`: the action property `DestroyAllDestroysAll`. The
  invariant is `LoopsAhead`, of each `DestroyAll` on the stack: an entity of those
  it began with that is still alive has an index its loop has not come to, or is
  being destroyed by the call it has just made. That no callback revives an id
  behind the loop is `IdsNeverRepeat`.

`EcsProofs`, for any set of ids, any number of types, bits of a mask, loops and
slots, by three invariants, each inductive with the one before:

* `EcsTypeCorrect` and `LocksFollowLoops`: `TypeOK` and `LocksMatchLoops`, whatever
  the client does. They are one invariant, `TypeInv`: that a loop stays in its pool
  needs the lock, because removal in soft remove mode does not lower the counter,
  and that no other loop holds the lock. What a pool always is had to be weaker
  than `PoolType`: a constructor that throws leaves `lastCompIndex` ahead of the
  vector, and what comes after it writes to slots further on. `Loose` is what
  remains.
* `MasksAgreeWithPools`: `MasksMatchPools`. The property alone is not inductive.
  `MasksExact` says that an index is mapped by a pool exactly if its mask has the
  bit, and that the pool is `Sound`: owners are mapped to their slots, and the slots
  in use are as many as the mapped and the queued together. The count shows that
  `Remove` and the drain find a slot, and so do not throw half way. `RemoveAll` walks
  the numbers with a recursive function, `AfterRounds`; that a round disturbs no
  pool but its own is shown by induction on the round (`AllNaturals`, which is
  proved from the finiteness of an interval, since the library's rule takes an
  operator).
* `LoopsVisitLivingOnce`: `VisitsLivingOnce`, from `OwnersLive` (no slot in use has an
  owner that is not in the system, also while its removal is queued) and `Fresh`
  (no owner ahead of a loop has been visited). `OwnersLive` needs the masks: `Destroy`
  clears the slots of the pools whose bits are set and of no other.
* `LoopsVisitAll`: `LoopVisitsAll`. `Ahead` says of every loop that whoever had the
  components when it began and has kept them owns a slot of the pool it goes over,
  ahead of the loop unless visited. It needs `Tidy`, that mapped indexes lead to
  slots in use and the queue is the holes, which the taint `"tailSwap"` breaks.
  The ends of other loops drain other pools (`LocksMatchLoops`).
* `HandlesFindTheirOwn`: `HandlesFindOwn`, from `MasksExact`, `Tidy` and `OwnersLive`.
  With this every property of `Ecs` that the passing runs check is proved.

`EventsProofs`, for any number of entities, event types and subscriptions and any
depth of emissions within emissions:

* `TypeCorrect`: `TypeOK`, in which the lists of a signal hold its own
  subscriptions only. The first slot to be called exists because a set of
  positions has a least one (`LeastPosition`, by an injection into itself that a
  finite set cannot have).
* `ActiveTellsTheTruth`: `ActiveIsExact`, from `Connections`: a slot is connected
  exactly if it has not been ended and is in its signal's list, and it is in the
  list exactly if its entity lives and no `Destroy` that threw has dropped it (or it
  was made too late, and then never). `DetachesConnection` is what the two ends of
  `Destroy` have in common. The
  list is what `Destroy` drops and `connected` is what the client sees; this
  relates them through every step.
* `SignalsOutliveEmissions`: `RunningSignalsExist`. A `Destroy` erases when it
  returns, long after others below it began; `VictimsNoted` says at every moment
  which emissions it will pull the signal from under.
* `NobodyCalledAfterTheEnd`: the action property `EndedNeverCalled`, from
  `Connections` and from what a step of an emission calls (`CallNextFields`).
* `EmissionsReachAll`: the action property `EmitReachesAll`, from `Progress` of
  each emission under way: no list has a slot twice, whoever was called is behind
  it, and whoever was due and is still connected was called or is ahead. It is also
  of the emission of a `Destroy` that throws after it, and of those below, which go
  on without the subscribers that one has detached. With this
  every property of `Events` the runs check is proved.

The assumptions are those of the modules: spans are positive, ids have no more
room for generations than `gen_t`, at least one free index is needed for reuse,
vectors stay within the indexes an id can hold, ids are pairs of natural numbers,
those of `Ecs` have not the index of the null entity (the constructor of
`EntityManager` reserves it; what a client that uses the null entity does is in
`ComponentPool` and in the module `EntityManager`),
a mask has at least one bit, and the marks for any entity and for none are no
entities.

Only model-checked: the liveness property `DestroyAllEnds`, which is beyond the
prover. The six properties that the code
violates are counterexamples and have no proof.

## Not modelled

* Values of components beyond their identity, the pointers `NewComponent` and
  `Get` return, and their invalidation when a vector grows.
* Constructors of components that call the entity manager: `NewComponent` counts
  the slot before it constructs the component, so one that assigns or removes
  components of its own type finds the pool between two states. Constructors that
  throw are modelled.
* Collections that are moved while iterators point into them.
* The arguments of events, and exceptions that Boost itself throws.
* `ECS_ENTITY_RECYCLE_COUNT` defined as 0.
* The `Entity` facade: it forwards, after a check for a null manager that only
  `Emit` lacks, and has no state. A handle without a pool throws, and that is all
  it does.
* Printing, hashing and comparison; tests and build files.
* Vendored Boost, which is nearly all of the repository's lines (`ext/boost`): a
  library the program uses, of which `Events` has the part of Signals2 that the
  entity manager relies on.

## The plan

1. Storage of one component type, its abstract store, and their proofs: done.
2. Entity lifecycle with callbacks, its registry, and their proofs: done, with
   the end of `DestroyAll`.
3. Component manager, handles, collections, their composition, and their proofs:
   done.
4. Events: modelled, checked and proved by themselves. To compose them with the
   lifecycle where ids repeat is left.
5. An abstract specification of what `Ecs` promises its client (a relation between
   entities and types, and loops as sets of whom is still to be visited), which
   `Ecs` implements as the pool does its store: left.
