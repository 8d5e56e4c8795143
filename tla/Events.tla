------------------------------- MODULE Events -------------------------------
(***************************************************************************)
(* Subscriptions and emissions: Subscribe and Emit of the entity manager,  *)
(* Subscription, and the parts of NewEntity and Destroy that have to do    *)
(* with them.  Ids are model values, none given out twice; module          *)
(* EntityManager has where that ends.                                      *)
(*                                                                         *)
(* A signal of Boost calls its slots in the order they were connected.  It *)
(* goes through the list of when the emission began, and skips the slots   *)
(* that are disconnected by the time it comes to them.  The callbacks it   *)
(* calls may do anything: stack has the emissions under way, innermost     *)
(* first.                                                                  *)
(***************************************************************************)
EXTENDS Naturals, FiniteSets, Sequences

CONSTANTS Entities,      \* the ids NewEntity gives out
          Hits,          \* the types of events besides EntityDestruction
          MaxSubs,       \* bound: calls of Subscribe
          MaxCalls       \* bound: depth of the stack

EntityDestruction == "EntityDestruction"

Any == "any"             \* Subscribe for events on any entity
NoEntity == "none"       \* Subscribe and Emit without an entity

ASSUME EventsAssumption ==
  /\ MaxSubs \in Nat
  /\ MaxCalls \in Nat
  /\ EntityDestruction \notin Hits
  /\ {Any, NoEntity} \cap Entities = {}

VARIABLES signals,       \* each signal there is: the slots connected to it
          subs,          \* the calls of Subscribe: what was subscribed to
          connected,     \* those whose slot has not been disconnected
          stack,         \* the calls of Emit under way
          living,        \* the entities there are
          undefined,     \* whether the behaviour has become undefined
          issued,        \* history: the ids given out
          ended,         \* history: subscriptions the client has ended
          late,          \* history: those made for an entity that was gone
          lost,          \* history: those a Destroy that threw has detached
          selfDestroyed  \* history: entities their own callback destroyed

registry == <<living, issued>>
history == <<ended, late, lost, selfDestroyed>>
vars == <<signals, subs, connected, stack, undefined, registry, history>>

EventTypes == Hits \cup {EntityDestruction}

\* A signal is named by whose events it is for and their type.
Signals == ({Any, NoEntity} \cup Entities) \X EventTypes

Subscriptions == DOMAIN subs

(***************************************************************************)
(* A call of Emit goes through one or two signals.  It has the signal it   *)
(* is at, the slots that had, which of them is next and whether the        *)
(* callback of the one before runs; the signals to come; and history:      *)
(* who has been called, and who was subscribed when the call began.        *)
(***************************************************************************)
Top == Head(stack)

\* The client runs outside any call, and in the callbacks of an emission.
ClientRuns == ~undefined /\ (stack # << >> => Top.running)

\* The signals of an event on entity e: that of any entity comes first.
SignalsOf(e, event) == <<<<Any, event>>, <<e, event>>>>

\* An emission looks its signal up, and there may be none.
\* A bug to compare with: it was found when the call of Emit began.
SlotsFoundBefore(sig) ==
  SelectSeq([n \in Subscriptions |-> n], LAMBDA n : subs[n] = sig)

SlotsOf(sig) == IF sig \in DOMAIN signals THEN signals[sig] ELSE << >>

\* The weak pointer of a connection ends with the last list it is in.
InLists(n) ==
  \/ \E sig \in DOMAIN signals : \E k \in DOMAIN signals[sig] : signals[sig][k] = n
  \/ \E f \in DOMAIN stack : \E k \in DOMAIN stack[f].slots : stack[f].slots[k] = n

IsActive(n) == n \in connected /\ InLists(n)

\* A bug to compare with: the place in the list is that of the last signal.
AtNextSignalHere(f) ==
  [f EXCEPT !.signal = Head(f.rest), !.slots = SlotsOf(Head(f.rest)),
            !.rest = Tail(f.rest), !.running = FALSE]

\* The emission of frame f goes to the first signal of those to come.
AtNextSignal(f) ==
  [f EXCEPT !.signal = Head(f.rest), !.slots = SlotsOf(Head(f.rest)),
            !.rest = Tail(f.rest), !.next = 1, !.running = FALSE]

\* A call of Emit begins, for the signals sigs.
Emission(sigs, destroys) ==
  AtNextSignal([signal |-> Head(sigs), slots |-> << >>, rest |-> sigs,
                next |-> 1, running |-> FALSE, erased |-> FALSE,
                destroys |-> destroys, called |-> << >>,
                due |-> {n \in Subscriptions :
                           IsActive(n) /\ \E k \in DOMAIN sigs : sigs[k] = subs[n]}])

\* Bugs to compare with: slots are called though they are disconnected, or
\* the list that is gone through loses them as soon as they are.
AllCallable(f) == f.next .. Len(f.slots)
CallableInLiveList(f) ==
  {k \in f.next .. Len(f.slots) :
     LET live == SelectSeq(f.slots, LAMBDA n : n \in connected)
     IN  k <= Len(live) /\ live[k] = f.slots[k]}

\* The slots, by their place in the list, that are still to be called.
Callable(f) == {k \in f.next .. Len(f.slots) : f.slots[k] \in connected}

-----------------------------------------------------------------------------

Init ==
  /\ signals = << >>
  /\ subs = << >>
  /\ connected = {}
  /\ stack = << >>
  /\ undefined = FALSE
  /\ living = {}
  /\ issued = {}
  /\ ended = {}
  /\ late = {}
  /\ lost = {}
  /\ selfDestroyed = {}

NewEntity(e) ==
  /\ ClientRuns
  /\ e \notin issued
  /\ living' = living \cup {e}
  /\ issued' = issued \cup {e}
  /\ UNCHANGED <<signals, subs, connected, stack, undefined, history>>

\* The signal is made if need be; nobody asks whether the entity lives.
Subscribe(sig) ==
  /\ ClientRuns
  /\ Len(subs) < MaxSubs
  /\ sig[1] \in Entities => sig[1] \in issued
  /\ LET n == Len(subs) + 1
     IN  /\ signals' = [s \in DOMAIN signals \cup {sig} |->
                          IF s = sig THEN Append(SlotsOf(s), n) ELSE signals[s]]
         /\ subs' = Append(subs, sig)
         /\ connected' = connected \cup {n}
         /\ late' = IF sig[1] \in Entities \ living THEN late \cup {n} ELSE late
  /\ UNCHANGED <<stack, undefined, registry, ended, lost, selfDestroyed>>

Unsubscribe(n) ==
  /\ ClientRuns
  /\ n \notin ended
  /\ connected' = connected \ {n}
  /\ ended' = ended \cup {n}
  /\ UNCHANGED <<signals, subs, stack, undefined, registry, late, lost,
                 selfDestroyed>>

\* Emit, with an entity (valid or not) and without one.
EmitOn(e, event) ==
  /\ ClientRuns
  /\ Len(stack) < MaxCalls
  /\ stack' = <<Emission(SignalsOf(e, event), FALSE)>> \o stack
  /\ UNCHANGED <<signals, subs, connected, undefined, registry, history>>

Emit(event) ==
  /\ ClientRuns
  /\ Len(stack) < MaxCalls
  /\ stack' = <<Emission(<<<<NoEntity, event>>>>, FALSE)>> \o stack
  /\ UNCHANGED <<signals, subs, connected, undefined, registry, history>>

\* The emissions under way that call the subscribers of entity e.
CallsOwn(e) == {k \in DOMAIN stack : stack[k].signal[1] = e}

Destroy(e) ==
  /\ ClientRuns
  /\ Len(stack) < MaxCalls
  /\ e \in living
  /\ stack' = <<Emission(SignalsOf(e, EntityDestruction), TRUE)>> \o stack
  /\ selfDestroyed' =
       IF CallsOwn(e) = {} THEN selfDestroyed ELSE selfDestroyed \cup {e}
  /\ UNCHANGED <<signals, subs, connected, undefined, registry, ended, late, lost>>

-----------------------------------------------------------------------------
(* An emission goes on when the callback it called has returned.           *)

CallNext ==
  /\ ~undefined
  /\ stack # << >>
  /\ Callable(Top) # {}
  /\ LET k == CHOOSE k \in Callable(Top) : \A j \in Callable(Top) : k <= j
     IN  stack' = <<[Top EXCEPT !.next = k + 1, !.running = TRUE,
                                !.called = Append(@, Top.slots[k])]>>
                    \o Tail(stack)
  /\ UNCHANGED <<signals, subs, connected, undefined, registry, history>>

(***************************************************************************)
(* All slots were called or skipped.  If more were skipped, the signal     *)
(* cleans its list of slots up: which is undefined if it was erased.       *)
(***************************************************************************)
SignalDone ==
  /\ ~undefined
  /\ stack # << >>
  /\ Callable(Top) = {}

CleansUp == undefined' \in {FALSE, Top.erased}

NextSignal ==
  /\ SignalDone
  /\ Top.rest # << >>
  /\ stack' = <<AtNextSignal(Top)>> \o Tail(stack)
  /\ UNCHANGED <<signals, subs, connected, undefined, registry, history>>

EmitReturns ==
  /\ SignalDone
  /\ Top.rest = << >>
  /\ ~Top.destroys
  /\ stack' = Tail(stack)
  /\ CleansUp
  /\ UNCHANGED <<signals, subs, connected, registry, history>>

\* The emissions under f go on, in a signal that has been erased if it is e's.
Erased(e, frames) ==
  [k \in DOMAIN frames |->
     [frames[k] EXCEPT !.erased = @ \/ frames[k].signal[1] = e]]

\* A bug to compare with: signals are erased and their slots stay connected.
StillConnected(e) == connected

\* Destroy disconnects all slots of the entity's signals, and erases these.
Disconnected(e) ==
  {n \in connected :
     \A sig \in DOMAIN signals : sig[1] = e =>
       \A k \in DOMAIN signals[sig] : signals[sig][k] # n}

\* The emission of Destroy is over; what listens to the entity is detached.
Detaches(e) ==
  /\ SignalDone
  /\ Top.rest = << >>
  /\ Top.destroys
  /\ Top.signal[1] = e
  /\ stack' = Erased(e, Tail(stack))
  /\ connected' = Disconnected(e)
  /\ signals' = [sig \in {s \in DOMAIN signals : s[1] # e} |-> signals[sig]]
  /\ CleansUp
  /\ UNCHANGED <<subs, issued, ended, late, selfDestroyed>>

DestroyReturns(e) ==
  /\ Detaches(e)
  /\ living' = living \ {e}
  /\ UNCHANGED lost

\* RemoveAllComponents is only called now.  When it throws (module Ecs has
\* when; here it always may) the entity lives on, without its subscribers.
DestroyThrows(e) ==
  /\ Detaches(e)
  /\ lost' = lost \cup {n \in Subscriptions : subs[n][1] = e}
  /\ UNCHANGED living

\* An exception leaves Emit, and the Destroy that called it.
CallbackThrows ==
  /\ ClientRuns
  /\ stack # << >>
  /\ stack' = Tail(stack)
  /\ CleansUp
  /\ UNCHANGED <<signals, subs, connected, registry, history>>

-----------------------------------------------------------------------------

Next ==
  \/ \E e \in Entities : NewEntity(e) \/ Destroy(e)
  \/ \E sig \in Signals : Subscribe(sig)
  \/ \E n \in Subscriptions : Unsubscribe(n)
  \/ \E e \in issued, event \in EventTypes : EmitOn(e, event)
  \/ \E event \in EventTypes : Emit(event)
  \/ CallNext
  \/ NextSignal
  \/ EmitReturns
  \/ \E e \in Entities : DestroyReturns(e) \/ DestroyThrows(e)
  \/ CallbackThrows

Spec == Init /\ [][Next]_vars

-----------------------------------------------------------------------------
(* Type. *)

Frames ==
  [signal : Signals, slots : Seq(Subscriptions), rest : Seq(Signals),
   next : Nat \ {0}, running : BOOLEAN, erased : BOOLEAN, destroys : BOOLEAN,
   called : Seq(Subscriptions), due : SUBSET Subscriptions]

(***************************************************************************)
(* The slots of a signal are of subscriptions to it, and an emission is    *)
(* within, or at the end of, the list it goes through.                     *)
(***************************************************************************)
TypeOK ==
  /\ subs \in Seq(Signals)
  /\ DOMAIN signals \subseteq Signals
  /\ \A sig \in DOMAIN signals :
       signals[sig] \in Seq({n \in Subscriptions : subs[n] = sig})
  /\ connected \subseteq Subscriptions
  /\ stack \in Seq(Frames)
  /\ \A k \in DOMAIN stack : stack[k].next \in 1 .. Len(stack[k].slots) + 1
  /\ undefined \in BOOLEAN
  /\ living \subseteq issued /\ issued \subseteq Entities
  /\ ended \cup late \cup lost \subseteq Subscriptions
  /\ selfDestroyed \subseteq Entities

-----------------------------------------------------------------------------
(* Safety. *)

(***************************************************************************)
(* IsActive is exact, "true if the registered callback will still be       *)
(* called" (Subscription.hh:17): a subscription is active until the client *)
(* ends it or the entity it is for has been destroyed, also while an       *)
(* emission under way keeps the slots of an erased signal.  (One made for  *)
(* an entity that is gone stays active, though there will be no event.)    *)
(* The subscriptions to an entity are all lost too, and say so, when its   *)
(* destruction throws half way and it lives on; those made after that are  *)
(* active.                                                                 *)
(***************************************************************************)
ActiveIsExact ==
  \A n \in Subscriptions \ late :
    IsActive(n) <=> /\ n \notin ended \cup lost
                    /\ subs[n][1] \in Entities => subs[n][1] \in living

(***************************************************************************)
(* The signal an emission goes through exists for as long as it does,      *)
(* whatever the callbacks destroy, except where a callback subscribed to   *)
(* one entity destroys that entity: Destroy then erases the signal that    *)
(* is calling it, and what the emission does at its end is undefined.      *)
(***************************************************************************)
RunningSignalsExist ==
  \A k \in DOMAIN stack :
    \/ stack[k].slots = << >>
    \/ stack[k].signal \in DOMAIN signals
    \/ stack[k].signal[1] \in selfDestroyed

\* The number of times frame f has called n.
TimesCalled(f, n) == Cardinality({k \in DOMAIN f.called : f.called[k] = n})

(***************************************************************************)
(* An Emit that is over, in a Destroy or not, has called everyone who was  *)
(* subscribed to its event when it began, and still is, exactly once, and  *)
(* nobody twice, whoever came and went meanwhile, as                       *)
(* UnsubscribeFromAllEntitiesEventDoesNotCauseOtherSubscribersToMissAn-    *)
(* Event (Events.cc) asks for the case of two.  In particular, an entity   *)
(* is not destroyed before its subscribers have heard of it.  Who has lost *)
(* its subscription to a Destroy that threw is not called any more, though *)
(* the entity lives.                                                       *)
(***************************************************************************)
EmitReachesAll ==
  [][EmitReturns \/ (\E e \in Entities : Detaches(e)) =>
       \A n \in Subscriptions :
         /\ TimesCalled(Top, n) <= 1
         /\ /\ n \in Top.due \ (ended \cup lost)
            /\ subs[n][1] \in Entities => subs[n][1] \in living
            => TimesCalled(Top, n) = 1]_vars

(***************************************************************************)
(* Nobody is called after it has unsubscribed, or after the entity it was  *)
(* subscribed to is gone or its destruction has detached it and thrown, by *)
(* any emission, also one that was about to call it: "It is safe to        *)
(* deallocate the associated callback after calling this function"         *)
(* (Subscription.hh:25-26).                                                *)
(***************************************************************************)
EndedNeverCalled ==
  [][\A n \in Subscriptions :
       CallNext /\ TimesCalled(Top', n) > TimesCalled(Top, n) =>
         /\ n \notin ended \cup lost
         /\ subs[n][1] \in Entities => subs[n][1] \in living \/ n \in late]_vars
=============================================================================
