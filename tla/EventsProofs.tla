---------------------------- MODULE EventsProofs ----------------------------
(***************************************************************************)
(* What holds of subscriptions and emissions for every number of entities, *)
(* event types and subscriptions, and every depth of nested emissions.     *)
(***************************************************************************)
EXTENDS Events, FiniteSetTheorems, TLAPS

-----------------------------------------------------------------------------
(* Sequences used as a stack and as a queue. *)

LEMMA Pushed ==
  ASSUME NEW S, NEW s \in Seq(S), NEW f \in S, NEW t, t = <<f>> \o s
  PROVE  /\ t \in Seq(S)
         /\ 1 \in DOMAIN t /\ t[1] = f
         /\ \A n \in DOMAIN t : n # 1 => n - 1 \in DOMAIN s /\ t[n] = s[n - 1]
  OBVIOUS

LEMMA Popped ==
  ASSUME NEW S, NEW s \in Seq(S), s # << >>, NEW t, t = Tail(s)
  PROVE  /\ t \in Seq(S)
         /\ Head(s) \in S
         /\ 1 \in DOMAIN s /\ Head(s) = s[1]
         /\ \A n \in DOMAIN t : n + 1 \in DOMAIN s /\ t[n] = s[n + 1]
  OBVIOUS

LEMMA Queued ==
  ASSUME NEW S, NEW s \in Seq(S), NEW x \in S, NEW t, t = Append(s, x)
  PROVE  /\ t \in Seq(S)
         /\ \A n \in DOMAIN t : \/ n = Len(s) + 1 /\ t[n] = x
                                \/ n \in DOMAIN s /\ t[n] = s[n]
         /\ \A n \in DOMAIN s : n \in DOMAIN t /\ t[n] = s[n]
         /\ Len(s) + 1 \in DOMAIN t /\ t[Len(s) + 1] = x
         /\ Len(s) + 1 \notin DOMAIN s
         /\ DOMAIN t = DOMAIN s \cup {Len(s) + 1}
  OBVIOUS

\* A set of positions has a first one: otherwise its lower bounds were closed
\* under the successor, an injection that misses 0.
LEMMA LeastPosition ==
  ASSUME NEW n \in Nat, NEW S \in SUBSET (1 .. n), S # {}
  PROVE  \E k \in S : \A j \in S : k <= j
<1> DEFINE T == {m \in 0 .. n : \A j \in S : m <= j}
           next == [m \in T |-> m + 1]
<1>1. SUFFICES ASSUME \A k \in S : \E j \in S : ~(k <= j) PROVE FALSE
  OBVIOUS
<1>2. IsFiniteSet(T)
  <2>1. IsFiniteSet(0 .. n)
    BY FS_Interval
  <2>. QED  BY <2>1, FS_Subset
<1>3. ASSUME NEW m \in T PROVE m + 1 \in T
  <2>1. m \notin S
    BY <1>1
  <2>2. \A j \in S : m + 1 <= j
    BY <2>1
  <2>3. PICK j \in S : m + 1 <= j
    BY <2>2
  <2>. QED  BY <2>2, <2>3
<1>4. next \in Injection(T, T)
  BY <1>3 DEF Injection, IsInjective
<1>5. next \in Surjection(T, T)
  <2>. HIDE DEF T, next
  <2>. QED  BY <1>2, <1>4, FS_Injection
<1>6. 0 \in T
  OBVIOUS
<1>7. PICK m \in T : next[m] = 0
  BY <1>5, <1>6 DEF Surjection
<1>. QED  BY <1>7

-----------------------------------------------------------------------------
(* Frames. *)

\* The subscriptions and the signals an emission may come across.
LEMMA SlotsFacts ==
  ASSUME TypeOK, NEW sig
  PROVE  /\ SlotsOf(sig) \in Seq(Subscriptions)
         /\ \A k \in DOMAIN SlotsOf(sig) : subs[SlotsOf(sig)[k]] = sig
<1>1. CASE sig \in DOMAIN signals
  <2> DEFINE N == {n \in Subscriptions : subs[n] = sig}
  <2>1. SlotsOf(sig) \in Seq(N)
    BY <1>1 DEF TypeOK, SlotsOf
  <2>2. N \subseteq Subscriptions /\ \A n \in N : subs[n] = sig
    OBVIOUS
  <2>. HIDE DEF N
  <2>. QED  BY <2>1, <2>2
<1>2. CASE sig \notin DOMAIN signals
  BY <1>2 DEF SlotsOf
<1>. QED  BY <1>1, <1>2

LEMMA AtNextSignalFields ==
  ASSUME TypeOK, NEW f \in Frames, f.rest # << >>, NEW g, g = AtNextSignal(f)
  PROVE  /\ g \in Frames
         /\ g.signal = Head(f.rest)
         /\ g.slots = SlotsOf(Head(f.rest))
         /\ g.rest = Tail(f.rest)
         /\ g.next = 1
         /\ g.destroys = f.destroys
         /\ g.called = f.called
         /\ g.due = f.due
<1>1. Head(f.rest) \in Signals /\ Tail(f.rest) \in Seq(Signals)
  BY DEF Frames
<1>2. SlotsOf(Head(f.rest)) \in Seq(Subscriptions)
  BY SlotsFacts
<1> DEFINE sig == Head(f.rest)
           slots == SlotsOf(Head(f.rest))
           rest == Tail(f.rest)
<1>3. g = [f EXCEPT !.signal = sig, !.slots = slots, !.rest = rest,
                    !.next = 1, !.running = FALSE]
  BY DEF AtNextSignal
<1>. HIDE DEF sig, slots, rest
<1>0. 1 \in Nat \ {0} /\ FALSE \in BOOLEAN
  OBVIOUS
<1>4. sig \in Signals /\ rest \in Seq(Signals) /\ slots \in Seq(Subscriptions)
  BY <1>1, <1>2 DEF sig, slots, rest
<1>5. /\ g \in Frames
      /\ g.signal = sig /\ g.slots = slots /\ g.rest = rest /\ g.next = 1
      /\ g.destroys = f.destroys /\ g.called = f.called /\ g.due = f.due
  <2>1. /\ g.signal = sig /\ g.slots = slots /\ g.rest = rest /\ g.next = 1
        /\ g.running = FALSE /\ g.erased = f.erased
        /\ g.destroys = f.destroys /\ g.called = f.called /\ g.due = f.due
    BY <1>3 DEF Frames
  <2>2. g = [signal |-> g.signal, slots |-> g.slots, rest |-> g.rest,
             next |-> g.next, running |-> g.running, erased |-> g.erased,
             destroys |-> g.destroys, called |-> g.called, due |-> g.due]
    BY <1>3 DEF Frames
  <2>3. /\ f.erased \in BOOLEAN /\ f.destroys \in BOOLEAN
        /\ f.called \in Seq(Subscriptions) /\ f.due \in SUBSET Subscriptions
    BY DEF Frames
  <2>4. g \in Frames
    BY <1>0, <1>4, <2>1, <2>2, <2>3 DEF Frames
  <2>. QED  BY <2>1, <2>4
<1>. QED  BY <1>5 DEF sig, slots, rest

LEMMA EmissionFields ==
  ASSUME TypeOK, NEW sigs \in Seq(Signals), sigs # << >>, NEW destroys \in BOOLEAN,
         NEW g, g = Emission(sigs, destroys)
  PROVE  /\ g \in Frames
         /\ g.signal = Head(sigs)
         /\ g.slots = SlotsOf(Head(sigs))
         /\ g.rest = Tail(sigs)
         /\ g.next = 1
         /\ g.destroys = destroys
         /\ g.called = << >>
         /\ g.due = {n \in Subscriptions :
                       IsActive(n) /\ \E k \in DOMAIN sigs : sigs[k] = subs[n]}
<1> DEFINE due == {n \in Subscriptions :
                     IsActive(n) /\ \E k \in DOMAIN sigs : sigs[k] = subs[n]}
           f == [signal |-> Head(sigs), slots |-> << >>, rest |-> sigs,
                 next |-> 1, running |-> FALSE, erased |-> FALSE,
                 destroys |-> destroys, called |-> << >>, due |-> due]
<1>1. g = AtNextSignal(f)
  BY DEF Emission
<1>2. due \subseteq Subscriptions
  OBVIOUS
<1>. HIDE DEF due
<1>3. f \in Frames
  BY <1>2 DEF Frames
<1>4. f.rest = sigs /\ f.destroys = destroys /\ f.called = << >> /\ f.due = due
  OBVIOUS
<1>. HIDE DEF f
<1>. QED  BY <1>1, <1>3, <1>4, AtNextSignalFields DEF due

\* The frame whose emission calls the next slot, the first of those callable.
LEMMA CallNextFields ==
  ASSUME TypeOK, CallNext
  PROVE  \E k \in DOMAIN Top.slots, g \in Frames :
           /\ stack # << >> /\ Top \in Frames
           /\ stack' = <<g>> \o Tail(stack)
           /\ k >= Top.next
           /\ Top.slots[k] \in connected
           /\ \A j \in Top.next .. k - 1 : Top.slots[j] \notin connected
           /\ g.signal = Top.signal
           /\ g.slots = Top.slots
           /\ g.rest = Top.rest
           /\ g.next = k + 1
           /\ g.destroys = Top.destroys
           /\ g.called = Append(Top.called, Top.slots[k])
           /\ g.due = Top.due
<1>1. stack # << >> /\ Callable(Top) # {}
  BY DEF CallNext
<1>2. /\ Top \in Frames
      /\ Top.next \in 1 .. Len(Top.slots) + 1
  <2>1. stack \in Seq(Frames)
    BY DEF TypeOK
  <2>2. 1 \in DOMAIN stack /\ Top = stack[1] /\ Top \in Frames
    BY <1>1, <2>1, Popped DEF Top
  <2>. QED  BY <2>2 DEF TypeOK
<1>3. /\ Top.slots \in Seq(Subscriptions) /\ Top.called \in Seq(Subscriptions)
      /\ Len(Top.slots) \in Nat /\ DOMAIN Top.slots = 1 .. Len(Top.slots)
  BY <1>2 DEF Frames
<1> DEFINE k == CHOOSE k \in Callable(Top) : \A j \in Callable(Top) : k <= j
<1>4. Callable(Top) \in SUBSET (1 .. Len(Top.slots))
  BY <1>2, <1>3 DEF Callable
<1>5. k \in Callable(Top) /\ \A j \in Callable(Top) : k <= j
  <2>1. \E j \in Callable(Top) : \A l \in Callable(Top) : j <= l
    BY <1>1, <1>3, <1>4, LeastPosition
  <2>. QED  BY <2>1
<1> DEFINE g == [Top EXCEPT !.next = k + 1, !.running = TRUE,
                            !.called = Append(@, Top.slots[k])]
<1>6. stack' = <<g>> \o Tail(stack)
  BY DEF CallNext
<1>. HIDE DEF k
<1>7. /\ k \in DOMAIN Top.slots /\ k >= Top.next /\ Top.slots[k] \in connected
      /\ \A j \in Top.next .. k - 1 : Top.slots[j] \notin connected
  BY <1>2, <1>3, <1>5 DEF Callable
<1>8. /\ Top.slots[k] \in Subscriptions
      /\ Append(Top.called, Top.slots[k]) \in Seq(Subscriptions)
      /\ k + 1 \in Nat \ {0}
  BY <1>3, <1>7
<1>9. /\ g \in Frames
      /\ g.signal = Top.signal
      /\ g.slots = Top.slots
      /\ g.rest = Top.rest
      /\ g.next = k + 1
      /\ g.destroys = Top.destroys
      /\ g.called = Append(Top.called, Top.slots[k])
      /\ g.due = Top.due
  BY <1>2, <1>8 DEF Frames
<1>. HIDE DEF g
<1>. QED  BY <1>1, <1>2, <1>6, <1>7, <1>9

\* The frames under a Destroy that returns: only erased may change.
LEMMA ErasedFields ==
  ASSUME NEW e, NEW s \in Seq(Frames), NEW t, t = Erased(e, s)
  PROVE  /\ t \in Seq(Frames)
         /\ DOMAIN t = DOMAIN s
         /\ \A k \in DOMAIN t :
              /\ t[k].signal = s[k].signal
              /\ t[k].slots = s[k].slots
              /\ t[k].rest = s[k].rest
              /\ t[k].next = s[k].next
              /\ t[k].destroys = s[k].destroys
              /\ t[k].called = s[k].called
              /\ t[k].due = s[k].due
<1>1. t = [k \in DOMAIN s |->
             [s[k] EXCEPT !.erased = @ \/ s[k].signal[1] = e]]
  BY DEF Erased
<1>2. DOMAIN t = DOMAIN s
  BY <1>1
<1>3. ASSUME NEW k \in DOMAIN t
      PROVE  /\ t[k] \in Frames
             /\ t[k].signal = s[k].signal
             /\ t[k].slots = s[k].slots
             /\ t[k].rest = s[k].rest
             /\ t[k].next = s[k].next
             /\ t[k].destroys = s[k].destroys
             /\ t[k].called = s[k].called
             /\ t[k].due = s[k].due
  <2>1. s[k] \in Frames
    BY <1>2
  <2> DEFINE b == s[k].erased \/ s[k].signal[1] = e
  <2>2. t[k] = [s[k] EXCEPT !.erased = b]
    BY <1>1, <1>2, <2>1 DEF Frames
  <2>3. b \in BOOLEAN
    BY <2>1 DEF Frames
  <2>. HIDE DEF b
  <2>. QED  BY <2>1, <2>2, <2>3 DEF Frames
<1>4. t \in Seq(Frames)
  <2>1. DOMAIN s = 1 .. Len(s) /\ Len(s) \in Nat
    OBVIOUS
  <2>2. t \in [1 .. Len(s) -> Frames]
    BY <1>1, <1>2, <1>3, <2>1
  <2>. QED  BY <2>1, <2>2
<1>. QED  BY <1>2, <1>3, <1>4

\* The innermost frame of a call that is under way.
LEMMA TopFacts ==
  ASSUME TypeOK, stack # << >>
  PROVE  /\ Top \in Frames /\ Top = stack[1] /\ 1 \in DOMAIN stack
         /\ Top.next \in 1 .. Len(Top.slots) + 1
         /\ Top.slots \in Seq(Subscriptions)
         /\ Top.rest \in Seq(Signals)
         /\ Top.signal \in Signals
         /\ Top.called \in Seq(Subscriptions)
         /\ Tail(stack) \in Seq(Frames)
         /\ \A n \in DOMAIN Tail(stack) :
              n + 1 \in DOMAIN stack /\ Tail(stack)[n] = stack[n + 1]
<1>1. stack \in Seq(Frames)
  BY DEF TypeOK
<1>2. Top \in Frames /\ Top = stack[1] /\ 1 \in DOMAIN stack
  BY <1>1, Popped DEF Top
<1>3. Top.next \in 1 .. Len(Top.slots) + 1
  BY <1>2 DEF TypeOK
<1>4. /\ Tail(stack) \in Seq(Frames)
      /\ \A n \in DOMAIN Tail(stack) :
           n + 1 \in DOMAIN stack /\ Tail(stack)[n] = stack[n + 1]
  BY <1>1, Popped
<1>. QED  BY <1>2, <1>3, <1>4 DEF Frames

LEMMA SignalFacts ==
  /\ \A e \in Entities, event \in EventTypes :
       /\ SignalsOf(e, event) \in Seq(Signals) /\ SignalsOf(e, event) # << >>
       /\ Len(SignalsOf(e, event)) = 2
       /\ SignalsOf(e, event)[1] = <<Any, event>>
       /\ SignalsOf(e, event)[2] = <<e, event>>
       /\ Head(SignalsOf(e, event)) = <<Any, event>>
       /\ Tail(SignalsOf(e, event)) \in Seq(Signals)
       /\ \A i \in DOMAIN Tail(SignalsOf(e, event)) : i = 1
       /\ Tail(SignalsOf(e, event))[1] = <<e, event>>
  /\ \A event \in EventTypes :
       /\ <<<<NoEntity, event>>>> \in Seq(Signals) /\ <<<<NoEntity, event>>>> # << >>
       /\ Head(<<<<NoEntity, event>>>>) = <<NoEntity, event>>
       /\ Tail(<<<<NoEntity, event>>>>) = << >>
  BY DEF Signals, SignalsOf

-----------------------------------------------------------------------------
(* The type invariant. *)

\* The frame is at a slot of its list, or behind the last.
Fits(f) == f.next \in 1 .. Len(f.slots) + 1

LEMMA FitsAtStart ==
  ASSUME NEW f \in Frames, f.next = 1
  PROVE  Fits(f)
  BY DEF Fits, Frames

LEMMA StackPushed ==
  ASSUME NEW s \in Seq(Frames), \A k \in DOMAIN s : Fits(s[k]),
         NEW f \in Frames, Fits(f), NEW t, t = <<f>> \o s
  PROVE  t \in Seq(Frames) /\ \A k \in DOMAIN t : Fits(t[k])
  BY Pushed

\* The stack after a step.
LEMMA StackType ==
  TypeOK /\ [Next]_vars =>
    stack' \in Seq(Frames) /\ \A k \in DOMAIN stack' : Fits(stack'[k])
<1>. SUFFICES ASSUME TypeOK, [Next]_vars
              PROVE  stack' \in Seq(Frames) /\ \A k \in DOMAIN stack' : Fits(stack'[k])
  OBVIOUS
<1>1. stack \in Seq(Frames) /\ \A k \in DOMAIN stack : Fits(stack[k])
  BY DEF TypeOK, Fits
<1>2. CASE stack' = stack
  BY <1>1, <1>2
<1>3. ASSUME NEW sigs \in Seq(Signals), sigs # << >>, NEW destroys \in BOOLEAN,
             stack' = <<Emission(sigs, destroys)>> \o stack
      PROVE  stack' \in Seq(Frames) /\ \A k \in DOMAIN stack' : Fits(stack'[k])
  BY <1>1, <1>3, EmissionFields, FitsAtStart, StackPushed
<1>4. ASSUME stack # << >>
      PROVE  Tail(stack) \in Seq(Frames) /\ \A k \in DOMAIN Tail(stack) : Fits(Tail(stack)[k])
  BY <1>1, <1>4, Popped
<1>5. CASE CallNext
  <2>1. PICK k \in DOMAIN Top.slots, g \in Frames :
          /\ stack # << >> /\ Top \in Frames
          /\ stack' = <<g>> \o Tail(stack)
          /\ g.slots = Top.slots /\ g.next = k + 1
    BY <1>5, CallNextFields
  <2>2. Fits(g)
    BY <2>1, TopFacts DEF Fits
  <2>. QED  BY <1>4, <2>1, <2>2, StackPushed
<1>6. CASE NextSignal
  <2>1. stack # << >> /\ Top.rest # << >> /\ stack' = <<AtNextSignal(Top)>> \o Tail(stack)
    BY <1>6 DEF NextSignal, SignalDone
  <2>. QED  BY <1>4, <2>1, TopFacts, AtNextSignalFields, FitsAtStart, StackPushed
<1>7. CASE EmitReturns \/ CallbackThrows
  BY <1>4, <1>7 DEF EmitReturns, SignalDone, CallbackThrows
<1>8. ASSUME NEW x \in Entities, Detaches(x)
      PROVE  stack' \in Seq(Frames) /\ \A k \in DOMAIN stack' : Fits(stack'[k])
  <2>1. PICK e : stack # << >> /\ stack' = Erased(e, Tail(stack))
    BY <1>8 DEF Detaches, SignalDone
  <2>2. PICK s \in Seq(Frames) :
          s = Tail(stack) /\ \A k \in DOMAIN s : Fits(s[k])
    BY <1>4, <2>1
  <2>3. PICK t : t = stack' /\ t = Erased(e, s)
    BY <2>1, <2>2
  <2>4. t \in Seq(Frames) /\ DOMAIN t = DOMAIN s
    BY <2>3, ErasedFields
  <2>5. \A k \in DOMAIN t : t[k].next = s[k].next /\ t[k].slots = s[k].slots
    BY <2>3, ErasedFields
  <2>6. \A k \in DOMAIN t : Fits(t[k])
    BY <2>2, <2>4, <2>5 DEF Fits
  <2>. QED  BY <2>3, <2>4, <2>6
<1>9. ASSUME NEW e \in issued, NEW event \in EventTypes, EmitOn(e, event)
      PROVE  stack' \in Seq(Frames) /\ \A k \in DOMAIN stack' : Fits(stack'[k])
  BY <1>3, <1>9, SignalFacts DEF EmitOn, TypeOK
<1>10. ASSUME NEW event \in EventTypes, Emit(event)
       PROVE  stack' \in Seq(Frames) /\ \A k \in DOMAIN stack' : Fits(stack'[k])
  BY <1>3, <1>10, SignalFacts DEF Emit
<1>11. ASSUME NEW e \in Entities, Destroy(e)
       PROVE  stack' \in Seq(Frames) /\ \A k \in DOMAIN stack' : Fits(stack'[k])
  BY <1>3, <1>11, SignalFacts DEF Destroy, EventTypes
<1>12. CASE \/ \E e \in Entities : NewEntity(e)
            \/ \E sig \in Signals : Subscribe(sig)
            \/ \E n \in Subscriptions : Unsubscribe(n)
            \/ UNCHANGED vars
  BY <1>2, <1>12 DEF NewEntity, Subscribe, Unsubscribe, vars
<1>. QED
  BY <1>5, <1>6, <1>7, <1>8, <1>9, <1>10, <1>11, <1>12
  DEF Next, DestroyReturns, DestroyThrows

\* What a step that adds no subscription has to keep.
LEMMA SameSubsType ==
  ASSUME TypeOK, [Next]_vars, subs' = subs,
         \A sig \in DOMAIN signals' : sig \in DOMAIN signals /\ signals'[sig] = signals[sig],
         connected' \subseteq connected, undefined' \in BOOLEAN,
         living' \subseteq issued', issued' \subseteq Entities,
         ended' \cup late' \cup lost' \subseteq Subscriptions, selfDestroyed' \subseteq Entities
  PROVE  TypeOK'
<1>1. Subscriptions' = Subscriptions /\ Frames' = Frames
  BY DEF Subscriptions, Frames
<1>2. stack' \in Seq(Frames) /\ \A k \in DOMAIN stack' : Fits(stack'[k])
  BY StackType
<1>. QED  BY <1>1, <1>2 DEF TypeOK, Fits

\* The lists of slots after Subscribe.
LEMMA SubscribeFacts ==
  ASSUME TypeOK, NEW sig \in Signals, Subscribe(sig), NEW n, n = Len(subs) + 1
  PROVE  /\ subs' \in Seq(Signals) /\ n \in Nat
         /\ n \notin Subscriptions
         /\ Subscriptions' = Subscriptions \cup {n}
         /\ subs'[n] = sig /\ \A m \in Subscriptions : subs'[m] = subs[m]
         /\ connected' = connected \cup {n}
         /\ DOMAIN signals' = DOMAIN signals \cup {sig}
         /\ SlotsOf(sig) \in Seq(Subscriptions)
         /\ signals'[sig] = Append(SlotsOf(sig), n)
         /\ \A s \in DOMAIN signals : s # sig => signals'[s] = signals[s]
         /\ late' = IF sig[1] \in Entities \ living THEN late \cup {n} ELSE late
         /\ lost' = lost
<1>1. /\ signals' = [s \in DOMAIN signals \cup {sig} |->
                       IF s = sig THEN Append(SlotsOf(s), n) ELSE signals[s]]
      /\ subs' = Append(subs, sig)
      /\ connected' = connected \cup {n}
      /\ late' = IF sig[1] \in Entities \ living THEN late \cup {n} ELSE late
      /\ lost' = lost
  BY DEF Subscribe
<1>2. subs \in Seq(Signals)
  BY DEF TypeOK
<1>3. /\ subs' \in Seq(Signals) /\ n \in Nat /\ n \notin DOMAIN subs
      /\ DOMAIN subs' = DOMAIN subs \cup {n}
      /\ subs'[n] = sig /\ \A m \in DOMAIN subs : subs'[m] = subs[m]
  BY <1>1, <1>2
<1>4. SlotsOf(sig) \in Seq(Subscriptions)
  BY SlotsFacts
<1>. QED  BY <1>1, <1>3, <1>4 DEF Subscriptions

LEMMA TypeSubscribe ==
  ASSUME TypeOK, NEW sig \in Signals, Subscribe(sig)
  PROVE  TypeOK'
<1> DEFINE n == Len(subs) + 1
<1>1. /\ subs' \in Seq(Signals) /\ n \notin Subscriptions
      /\ Subscriptions' = Subscriptions \cup {n}
      /\ subs'[n] = sig /\ \A m \in Subscriptions : subs'[m] = subs[m]
      /\ connected' = connected \cup {n}
      /\ DOMAIN signals' = DOMAIN signals \cup {sig}
      /\ SlotsOf(sig) \in Seq(Subscriptions)
      /\ signals'[sig] = Append(SlotsOf(sig), n)
      /\ \A s \in DOMAIN signals : s # sig => signals'[s] = signals[s]
      /\ late' \subseteq late \cup {n} /\ lost' = lost
  BY SubscribeFacts
<1>. HIDE DEF n
<1>2. ASSUME NEW s \in DOMAIN signals'
      PROVE  signals'[s] \in Seq({m \in Subscriptions' : subs'[m] = s})
  <2> DEFINE N == {m \in Subscriptions' : subs'[m] = s}
  <2>1. CASE s = sig
    <3>1. n \in N /\ \A k \in DOMAIN SlotsOf(sig) : SlotsOf(sig)[k] \in N
      BY <1>1, <2>1, SlotsFacts
    <3>. HIDE DEF N
    <3>2. SlotsOf(sig) \in Seq(N)
      BY <1>1, <3>1
    <3>3. signals'[s] \in Seq(N)
      BY <1>1, <2>1, <3>1, <3>2
    <3>. QED  BY <3>3 DEF N
  <2>2. CASE s # sig
    <3>1. signals'[s] = signals[s] /\ signals[s] \in Seq({m \in Subscriptions : subs[m] = s})
      BY <1>1, <1>2, <2>2 DEF TypeOK
    <3>2. {m \in Subscriptions : subs[m] = s} \subseteq N
      BY <1>1
    <3>. HIDE DEF N
    <3>3. signals'[s] \in Seq(N)
      BY <3>1, <3>2
    <3>. QED  BY <3>3 DEF N
  <2>. QED  BY <2>1, <2>2
<1>3. stack' = stack /\ undefined' = undefined /\ living' = living /\ issued' = issued
      /\ ended' = ended /\ selfDestroyed' = selfDestroyed
  BY DEF Subscribe, registry
<1>4. stack' \in Seq(Frames')
  <2>1. Frames \subseteq Frames'
    <3>1. /\ Seq(Subscriptions) \subseteq Seq(Subscriptions')
          /\ SUBSET Subscriptions \subseteq SUBSET (Subscriptions')
      BY <1>1
    <3>2. Signals' = Signals
      BY DEF Signals
    <3>. QED  BY <3>1, <3>2 DEF Frames
  <2>2. stack \in Seq(Frames)
    BY DEF TypeOK
  <2>. QED  BY <1>3, <2>1, <2>2
<1>. QED  BY <1>1, <1>2, <1>3, <1>4 DEF TypeOK

LEMMA TypeInvNext == TypeOK /\ [Next]_vars => TypeOK'
<1>. SUFFICES ASSUME TypeOK, [Next]_vars PROVE TypeOK'
  OBVIOUS
<1>0. /\ undefined \in BOOLEAN /\ living \subseteq issued /\ issued \subseteq Entities
      /\ ended \cup late \cup lost \subseteq Subscriptions /\ selfDestroyed \subseteq Entities
  BY DEF TypeOK
<1>1. ASSUME NEW sig \in Signals, Subscribe(sig) PROVE TypeOK'
  BY <1>1, TypeSubscribe
<1>2. ASSUME NEW e \in Entities, NewEntity(e) PROVE TypeOK'
  BY <1>0, <1>2, SameSubsType DEF NewEntity, history
<1>3. ASSUME NEW e \in Entities, Destroy(e) PROVE TypeOK'
  <2>1. selfDestroyed' \subseteq selfDestroyed \cup {e}
    BY <1>3 DEF Destroy
  <2>2. UNCHANGED <<signals, subs, connected, undefined, living, issued, ended, late,
                    lost>>
    BY <1>3 DEF Destroy, registry
  <2>. QED  BY <1>0, <2>1, <2>2, SameSubsType
<1>4. ASSUME NEW n \in Subscriptions, Unsubscribe(n) PROVE TypeOK'
  <2>1. connected' = connected \ {n} /\ ended' = ended \cup {n}
    BY <1>4 DEF Unsubscribe
  <2>2. UNCHANGED <<signals, subs, undefined, living, issued, late, lost,
                    selfDestroyed>>
    BY <1>4 DEF Unsubscribe, registry
  <2>. QED  BY <1>0, <2>1, <2>2, SameSubsType
<1>5. CASE \/ \E e \in issued, event \in EventTypes : EmitOn(e, event)
           \/ \E event \in EventTypes : Emit(event)
           \/ CallNext \/ NextSignal \/ UNCHANGED vars
  <2>1. UNCHANGED <<signals, subs, connected, undefined, living, issued, ended, late,
                    lost, selfDestroyed>>
    BY <1>5 DEF EmitOn, Emit, CallNext, NextSignal, vars, registry, history
  <2>. QED  BY <1>0, <2>1, SameSubsType
<1>6. CASE EmitReturns \/ CallbackThrows
  <2>1. undefined' \in BOOLEAN
    <3>1. stack # << >>
      BY <1>6 DEF EmitReturns, CallbackThrows, SignalDone
    <3>2. Top.erased \in BOOLEAN
      BY <3>1, TopFacts DEF Frames
    <3>. QED  BY <1>6, <3>2 DEF EmitReturns, CallbackThrows, CleansUp
  <2>2. UNCHANGED <<signals, subs, connected, living, issued, ended, late, lost,
                    selfDestroyed>>
    BY <1>6 DEF EmitReturns, CallbackThrows, registry, history
  <2>. QED  BY <1>0, <2>1, <2>2, SameSubsType
<1>7. ASSUME NEW e \in Entities, DestroyReturns(e) \/ DestroyThrows(e) PROVE TypeOK'
  <2>1. Detaches(e)
    BY <1>7 DEF DestroyReturns, DestroyThrows
  <2>2. undefined' \in BOOLEAN
    <3>1. stack # << >>
      BY <2>1 DEF Detaches, SignalDone
    <3>2. Top.erased \in BOOLEAN
      BY <3>1, TopFacts DEF Frames
    <3>. QED  BY <2>1, <3>2 DEF Detaches, CleansUp
  <2>3. /\ connected' \subseteq connected
        /\ \A sig \in DOMAIN signals' :
             sig \in DOMAIN signals /\ signals'[sig] = signals[sig]
        /\ UNCHANGED <<subs, issued, ended, late, selfDestroyed>>
    BY <2>1 DEF Detaches, Disconnected
  <2>4. living' \subseteq living /\ lost' \subseteq lost \cup Subscriptions
    BY <1>7 DEF DestroyReturns, DestroyThrows
  <2>. QED  BY <1>0, <2>2, <2>3, <2>4, SameSubsType
<1>. QED  BY <1>1, <1>2, <1>3, <1>4, <1>5, <1>6, <1>7 DEF Next

(***************************************************************************)
(* The lists of slots hold subscriptions to their own signal only, and no  *)
(* emission leaves the list it goes through, whatever callbacks subscribe, *)
(* unsubscribe, destroy or throw.                                          *)
(***************************************************************************)
THEOREM TypeCorrect == Spec => []TypeOK
<1>1. Init => TypeOK
  <2>. SUFFICES ASSUME Init PROVE TypeOK
    OBVIOUS
  <2>1. << >> \in Seq(Signals) /\ << >> \in Seq(Frames) /\ DOMAIN << >> = {}
    OBVIOUS
  <2>2. DOMAIN signals = {} /\ DOMAIN stack = {}
    BY DEF Init
  <2>3. /\ subs \in Seq(Signals) /\ stack \in Seq(Frames)
        /\ connected = {} /\ undefined \in BOOLEAN /\ living = {} /\ issued = {}
        /\ ended = {} /\ late = {} /\ lost = {} /\ selfDestroyed = {}
    BY <2>1 DEF Init
  <2>. QED  BY <2>2, <2>3 DEF TypeOK
<1>. QED  BY <1>1, TypeInvNext, PTL DEF Spec

-----------------------------------------------------------------------------
(***************************************************************************)
(* Who is connected.  The registry keeps the set connected apart from the  *)
(* lists of the signals, and Destroy drops whole lists: the two agree, and *)
(* the lists agree with what lives.                                        *)
(***************************************************************************)

\* The subscription n has its slot in the list of its signal.
InSignal(n) ==
  /\ subs[n] \in DOMAIN signals
  /\ \E k \in DOMAIN signals[subs[n]] : signals[subs[n]][k] = n

Connection(n) ==
  /\ n \in connected <=> n \notin ended /\ InSignal(n)
  /\ subs[n][1] \in Entities => subs[n][1] \in issued
  /\ n \in late => subs[n][1] \in Entities \ living
  /\ n \notin late =>
       (InSignal(n) <=> /\ n \notin lost
                        /\ subs[n][1] \in Entities => subs[n][1] \in living)
  /\ n \in lost => ~InSignal(n)

Connections == \A n \in Subscriptions : Connection(n)

\* Whatever signal holds a slot, it is the one that was subscribed to.
LEMMA OwnSignal ==
  ASSUME TypeOK, NEW sig \in DOMAIN signals, NEW k \in DOMAIN signals[sig]
  PROVE  /\ signals[sig][k] \in Subscriptions
         /\ subs[signals[sig][k]] = sig
         /\ InSignal(signals[sig][k])
<1>1. signals[sig] \in Seq({n \in Subscriptions : subs[n] = sig})
  BY DEF TypeOK
<1>2. signals[sig][k] \in {n \in Subscriptions : subs[n] = sig}
  BY <1>1
<1>. QED  BY <1>2 DEF InSignal

\* A step that leaves the lists and the subscriptions alone.
LEMMA SameListsConnection ==
  ASSUME NEW n, Connection(n), UNCHANGED <<signals, subs>>,
         living \subseteq living', issued \subseteq issued',
         \A e \in living' \ living : e \notin issued,
         n \in late' <=> n \in late, n \in lost' <=> n \in lost,
         n \in connected' <=> n \in connected /\ n \notin ended',
         n \in ended => n \in ended'
  PROVE  Connection(n)'
<1>1. InSignal(n)' <=> InSignal(n)
  BY DEF InSignal
<1>2. subs[n]' = subs[n]
  OBVIOUS
<1>. QED  BY <1>1, <1>2 DEF Connection

LEMMA SubscribeInSignal ==
  ASSUME TypeOK, NEW sig \in Signals, Subscribe(sig), NEW n, n = Len(subs) + 1
  PROVE  /\ InSignal(n)'
         /\ \A m \in Subscriptions : InSignal(m)' <=> InSignal(m)
<1>1. /\ n \notin Subscriptions /\ n \in Nat
      /\ subs'[n] = sig /\ \A m \in Subscriptions : subs'[m] = subs[m]
      /\ DOMAIN signals' = DOMAIN signals \cup {sig}
      /\ SlotsOf(sig) \in Seq(Subscriptions)
      /\ signals'[sig] = Append(SlotsOf(sig), n)
      /\ \A s \in DOMAIN signals : s # sig => signals'[s] = signals[s]
  BY SubscribeFacts
<1>2. PICK l \in Seq(Subscriptions) : l = SlotsOf(sig)
  BY <1>1
<1>3. PICK t : t = Append(l, n)
  OBVIOUS
<1>4. /\ \A k \in DOMAIN t : \/ t[k] = n
                             \/ k \in DOMAIN l /\ t[k] = l[k]
      /\ \A k \in DOMAIN l : k \in DOMAIN t /\ t[k] = l[k]
      /\ \E k \in DOMAIN t : t[k] = n
  <2>1. l \in Seq(Subscriptions \cup {n}) /\ n \in Subscriptions \cup {n}
    OBVIOUS
  <2>. QED  BY <1>3, <2>1, Queued
<1>5. signals'[sig] = t
  BY <1>1, <1>2, <1>3
<1>6. InSignal(n)'
  <2>1. subs'[n] \in DOMAIN signals' /\ subs'[n] = sig
    BY <1>1
  <2>2. \E k \in DOMAIN signals'[subs'[n]] : signals'[subs'[n]][k] = n
    BY <1>4, <1>5, <2>1
  <2>. QED  BY <2>1, <2>2 DEF InSignal
<1>7. ASSUME NEW m \in Subscriptions PROVE InSignal(m)' <=> InSignal(m)
  <2>1. m # n /\ subs'[m] = subs[m]
    BY <1>1
  <2>2. CASE subs[m] = sig
    <3>1. InSignal(m)' <=> \E k \in DOMAIN t : t[k] = m
      BY <1>1, <1>5, <2>1, <2>2 DEF InSignal
    <3>2. InSignal(m) <=> \E k \in DOMAIN l : l[k] = m
      <4>1. CASE sig \in DOMAIN signals
        BY <1>2, <2>2, <4>1 DEF InSignal, SlotsOf
      <4>2. CASE sig \notin DOMAIN signals
        <5>1. l = << >>
          BY <1>2, <4>2 DEF SlotsOf
        <5>2. DOMAIN l = {}
          BY <5>1
        <5>. QED  BY <2>2, <4>2, <5>2 DEF InSignal
      <4>. QED  BY <4>1, <4>2
    <3>3. (\E k \in DOMAIN t : t[k] = m) <=> (\E k \in DOMAIN l : l[k] = m)
      BY <1>4, <2>1
    <3>. QED  BY <3>1, <3>2, <3>3
  <2>3. CASE subs[m] # sig
    <3>1. subs[m] \in DOMAIN signals' <=> subs[m] \in DOMAIN signals
      BY <1>1, <2>3
    <3>2. subs[m] \in DOMAIN signals => signals'[subs[m]] = signals[subs[m]]
      BY <1>1, <2>3
    <3>. QED  BY <2>1, <3>1, <3>2 DEF InSignal
  <2>. QED  BY <2>2, <2>3
<1>. QED  BY <1>6, <1>7

LEMMA SubscribeConnection ==
  ASSUME TypeOK, Connections, NEW sig \in Signals, Subscribe(sig)
  PROVE  Connections'
<1>1. PICK n : n = Len(subs) + 1
  OBVIOUS
<1>2. /\ n \notin Subscriptions
      /\ Subscriptions' = Subscriptions \cup {n}
      /\ subs'[n] = sig /\ \A m \in Subscriptions : subs'[m] = subs[m]
      /\ connected' = connected \cup {n}
      /\ late' = IF sig[1] \in Entities \ living THEN late \cup {n} ELSE late
      /\ lost' = lost
  BY <1>1, SubscribeFacts
<1>3. InSignal(n)' /\ \A m \in Subscriptions : InSignal(m)' <=> InSignal(m)
  BY <1>1, SubscribeInSignal
<1>4. /\ living' = living /\ issued' = issued /\ ended' = ended
      /\ sig[1] \in Entities => sig[1] \in issued
  BY DEF Subscribe, registry
<1>5. ASSUME NEW m \in Subscriptions PROVE Connection(m)'
  <2>1. Connection(m)
    BY DEF Connections
  <2>2. /\ m \in connected' <=> m \in connected
        /\ m \in late' <=> m \in late
        /\ m \in lost' <=> m \in lost
        /\ subs'[m] = subs[m]
    BY <1>2
  <2>. QED  BY <1>3, <1>4, <2>1, <2>2 DEF Connection
<1>6. Connection(n)'
  <2>1. n \notin ended /\ n \notin late /\ n \notin lost
    BY <1>2 DEF TypeOK
  <2>2. n \in late' <=> sig[1] \in Entities \ living
    BY <1>2, <2>1
  <2>3. n \in connected'
    BY <1>2
  <2>. QED  BY <1>2, <1>3, <1>4, <2>1, <2>2, <2>3 DEF Connection
<1>. QED  BY <1>2, <1>5, <1>6 DEF Connections

\* Destroy drops the lists of the entity and disconnects who is in them, and
\* then kills the entity or throws.
LEMMA DetachesConnection ==
  ASSUME TypeOK, Connections, NEW e \in Entities, DestroyReturns(e) \/ DestroyThrows(e)
  PROVE  Connections'
<1>1. Detaches(e)
  BY DEF DestroyReturns, DestroyThrows
<1>2. /\ connected' = Disconnected(e)
      /\ signals' = [sig \in {s \in DOMAIN signals : s[1] # e} |-> signals[sig]]
      /\ subs' = subs /\ issued' = issued /\ ended' = ended /\ late' = late
  BY <1>1 DEF Detaches
<1>3. \/ living' = living \ {e} /\ lost' = lost
      \/ living' = living /\ lost' = lost \cup {n \in Subscriptions : subs[n][1] = e}
  BY DEF DestroyReturns, DestroyThrows
<1>4. ASSUME NEW n \in Subscriptions PROVE Connection(n)'
  <2>1. Connection(n) /\ subs'[n] = subs[n]
    BY <1>2 DEF Connections
  <2>2. CASE subs[n][1] = e
    <3>1. ~InSignal(n)'
      BY <1>2, <2>2 DEF InSignal
    <3>2. n \notin connected'
      BY <1>2, <2>1, <2>2 DEF Disconnected, InSignal, Connection
    <3>3. subs[n][1] \in Entities /\ (subs[n][1] \notin living' \/ n \in lost')
      BY <1>3, <2>2
    <3>4. n \in late => subs[n][1] \notin living'
      BY <1>3, <2>1 DEF Connection
    <3>. QED  BY <1>2, <2>1, <3>1, <3>2, <3>3, <3>4 DEF Connection
  <2>3. CASE subs[n][1] # e
    <3>1. InSignal(n)' <=> InSignal(n)
      BY <1>2, <2>3 DEF InSignal
    <3>2. n \in connected' <=> n \in connected
      BY <1>2, <2>3, OwnSignal DEF Disconnected
    <3>3. /\ subs[n][1] \in living' <=> subs[n][1] \in living
          /\ n \in lost' <=> n \in lost
      BY <1>3, <2>3
    <3>. QED  BY <1>2, <2>1, <3>1, <3>2, <3>3 DEF Connection
  <2>. QED  BY <2>2, <2>3
<1>5. Subscriptions' = Subscriptions
  BY <1>2 DEF Subscriptions
<1>. QED  BY <1>4, <1>5 DEF Connections

LEMMA ConnectionsNext == TypeOK /\ Connections /\ [Next]_vars => Connections'
<1>. SUFFICES ASSUME TypeOK, Connections, [Next]_vars PROVE Connections'
  OBVIOUS
<1>1. ASSUME NEW sig \in Signals, Subscribe(sig) PROVE Connections'
  BY <1>1, SubscribeConnection
<1>2. ASSUME NEW e \in Entities, DestroyReturns(e) \/ DestroyThrows(e) PROVE Connections'
  BY <1>2, DetachesConnection
<1>3. ASSUME subs' = subs,
             \A n \in Subscriptions : Connection(n)'
      PROVE  Connections'
  BY <1>3 DEF Connections, Subscriptions
<1>4. ASSUME NEW e \in Entities, NewEntity(e) PROVE Connections'
  <2>1. /\ living' = living \cup {e} /\ issued' = issued \cup {e} /\ e \notin issued
        /\ signals' = signals /\ subs' = subs /\ connected' = connected
        /\ ended' = ended /\ late' = late /\ lost' = lost
    BY <1>4 DEF NewEntity, history
  <2>2. ASSUME NEW n \in Subscriptions PROVE Connection(n)'
    <3>1. Connection(n)
      BY DEF Connections
    <3>2. n \in connected => n \notin ended
      BY <3>1 DEF Connection
    <3>. QED  BY <2>1, <3>1, <3>2, SameListsConnection
  <2>. QED  BY <1>3, <2>1, <2>2
<1>5. ASSUME NEW n \in Subscriptions, Unsubscribe(n) PROVE Connections'
  <2>1. /\ living' = living /\ issued' = issued /\ signals' = signals /\ subs' = subs
        /\ connected' = connected \ {n} /\ ended' = ended \cup {n} /\ late' = late
        /\ lost' = lost
    BY <1>5 DEF Unsubscribe, registry
  <2>2. ASSUME NEW m \in Subscriptions PROVE Connection(m)'
    <3>1. Connection(m)
      BY DEF Connections
    <3>2. m \in connected => m \notin ended
      BY <3>1 DEF Connection
    <3>. QED  BY <2>1, <3>1, <3>2, SameListsConnection
  <2>. QED  BY <1>3, <2>1, <2>2
<1>6. CASE UNCHANGED <<signals, subs, connected, living, issued, ended, late, lost>>
  <2>1. ASSUME NEW m \in Subscriptions PROVE Connection(m)'
    <3>1. Connection(m)
      BY DEF Connections
    <3>2. m \in connected => m \notin ended
      BY <3>1 DEF Connection
    <3>. QED  BY <1>6, <3>1, <3>2, SameListsConnection
  <2>. QED  BY <1>3, <1>6, <2>1
<1>7. CASE \/ \E e \in Entities : Destroy(e)
           \/ \E e \in issued, event \in EventTypes : EmitOn(e, event)
           \/ \E event \in EventTypes : Emit(event)
           \/ CallNext \/ NextSignal \/ EmitReturns \/ CallbackThrows
           \/ UNCHANGED vars
  BY <1>6, <1>7 DEF Destroy, EmitOn, Emit, CallNext, NextSignal, EmitReturns,
     CallbackThrows, vars, registry, history
<1>. QED  BY <1>1, <1>2, <1>4, <1>5, <1>7 DEF Next

LEMMA ConnectionsAlways == Spec => []Connections
<1>1. Init => Connections
  <2>1. DOMAIN << >> = {}
    OBVIOUS
  <2>. QED  BY <2>1 DEF Init, Connections, Subscriptions
<1>. QED  BY <1>1, TypeCorrect, ConnectionsNext, PTL DEF Spec

(***************************************************************************)
(* Subscription::IsActive answers true exactly for the subscriptions whose *)
(* callback can still be called: the client has not ended them, their      *)
(* entity lives, and no Destroy of it has thrown half way since.           *)
(***************************************************************************)
THEOREM ActiveTellsTheTruth == Spec => []ActiveIsExact
<1>1. TypeOK /\ Connections => ActiveIsExact
  <2>. SUFFICES ASSUME TypeOK, Connections, NEW n \in Subscriptions \ late
                PROVE  IsActive(n) <=> /\ n \notin ended \cup lost
                                       /\ subs[n][1] \in Entities => subs[n][1] \in living
    BY DEF ActiveIsExact
  <2>1. Connection(n)
    BY DEF Connections
  <2>2. InSignal(n) => InLists(n)
    BY DEF InSignal, InLists
  <2>. QED  BY <2>1, <2>2 DEF Connection, IsActive
<1>. QED  BY <1>1, TypeCorrect, ConnectionsAlways, PTL

-----------------------------------------------------------------------------
(***************************************************************************)
(* Which signals are erased under an emission.  A frame that is to destroy *)
(* e has e in its signal or in the signals to come from the very start, so *)
(* it can be told before Destroy erases anything which emissions it will   *)
(* pull the signal from under: these were there when Destroy was called.   *)
(***************************************************************************)

Destroys(f, e) ==
  f.destroys /\ (f.signal[1] = e \/ \E i \in DOMAIN f.rest : f.rest[i][1] = e)

VictimsNoted ==
  \A k \in DOMAIN stack : \A j \in 1 .. k - 1 : \A e \in Entities :
    Destroys(stack[j], e) /\ stack[k].signal[1] = e => e \in selfDestroyed

LEMMA Replaced ==
  ASSUME NEW S, NEW s \in Seq(S), s # << >>, NEW f \in S, NEW t, t = <<f>> \o Tail(s)
  PROVE  /\ t \in Seq(S)
         /\ DOMAIN t = DOMAIN s
         /\ 1 \in DOMAIN t /\ t[1] = f
         /\ \A n \in DOMAIN t : n # 1 => t[n] = s[n]
  OBVIOUS

\* The frame that goes to its next signal still destroys what it did.
LEMMA NextSignalVictims ==
  ASSUME TypeOK, NEW f \in Frames, f.rest # << >>, NEW g, g = AtNextSignal(f),
         NEW e, Destroys(g, e)
  PROVE  Destroys(f, e)
<1>1. /\ g.signal = Head(f.rest) /\ g.rest = Tail(f.rest) /\ g.destroys = f.destroys
  BY AtNextSignalFields
<1>2. f.rest \in Seq(Signals)
  BY DEF Frames
<1>3. 1 \in DOMAIN f.rest /\ Head(f.rest) = f.rest[1]
  BY <1>2, Popped
<1>4. \A n \in DOMAIN Tail(f.rest) :
        n + 1 \in DOMAIN f.rest /\ Tail(f.rest)[n] = f.rest[n + 1]
  BY <1>2, Popped
<1>. QED  BY <1>1, <1>3, <1>4 DEF Destroys

\* Frames of the new stack were d places further down in the old one.
LEMMA ShiftedVictims ==
  ASSUME VictimsNoted, NEW d \in Nat, stack' \in Seq(Frames'),
         \A k \in DOMAIN stack' :
           /\ k + d \in DOMAIN stack
           /\ k # 1 => stack'[k].signal = stack[k + d].signal
           /\ \A e \in Entities : Destroys(stack'[k], e) => Destroys(stack[k + d], e),
         selfDestroyed \subseteq selfDestroyed'
  PROVE  VictimsNoted'
<1>. SUFFICES ASSUME NEW k \in DOMAIN stack', NEW j \in 1 .. k - 1, NEW e \in Entities,
                     Destroys(stack'[j], e), stack'[k].signal[1] = e
              PROVE  e \in selfDestroyed'
  BY DEF VictimsNoted, Destroys
<1>1. k \in Nat /\ j \in Nat /\ 1 <= j /\ j < k /\ j \in DOMAIN stack' /\ k # 1
  OBVIOUS
<1>2. Destroys(stack[j + d], e) /\ stack[k + d].signal[1] = e
  BY <1>1
<1>3. k + d \in DOMAIN stack /\ j + d \in 1 .. (k + d) - 1
  BY <1>1
<1>. QED  BY <1>2, <1>3 DEF VictimsNoted

\* A new emission destroys nothing, or notes whom it will find under way.
LEMMA PushedVictims ==
  ASSUME VictimsNoted, stack \in Seq(Frames), NEW f \in Frames, stack' = <<f>> \o stack,
         \A k \in DOMAIN stack : \A e \in Entities :
           Destroys(f, e) /\ stack[k].signal[1] = e => e \in selfDestroyed',
         selfDestroyed \subseteq selfDestroyed'
  PROVE  VictimsNoted'
<1>. SUFFICES ASSUME NEW k \in DOMAIN stack', NEW j \in 1 .. k - 1, NEW e \in Entities,
                     Destroys(stack'[j], e), stack'[k].signal[1] = e
              PROVE  e \in selfDestroyed'
  BY DEF VictimsNoted, Destroys
<1>0. stack' \in Seq(Frames) /\ stack'[1] = f
      /\ \A n \in DOMAIN stack' : n # 1 => n - 1 \in DOMAIN stack /\ stack'[n] = stack[n - 1]
  BY Pushed
<1>1. k \in Nat /\ j \in Nat /\ 1 <= j /\ j < k /\ j \in DOMAIN stack' /\ k # 1
  BY <1>0
<1>2. k - 1 \in DOMAIN stack /\ stack[k - 1].signal[1] = e
  BY <1>0, <1>1
<1>3. CASE j = 1
  BY <1>0, <1>2, <1>3
<1>4. CASE j # 1
  <2>1. j - 1 \in 1 .. (k - 1) - 1 /\ Destroys(stack[j - 1], e)
    BY <1>0, <1>1, <1>4
  <2>. QED  BY <1>2, <2>1 DEF VictimsNoted
<1>. QED  BY <1>3, <1>4

LEMMA VictimsNext == TypeOK /\ VictimsNoted /\ [Next]_vars => VictimsNoted'
<1>. SUFFICES ASSUME TypeOK, VictimsNoted, [Next]_vars PROVE VictimsNoted'
  OBVIOUS
<1>0. /\ stack \in Seq(Frames) /\ stack' \in Seq(Frames')
      /\ issued \subseteq Entities
  <2>1. TypeOK'
    BY TypeInvNext
  <2>. QED  BY <2>1 DEF TypeOK
<1>1. ASSUME selfDestroyed \subseteq selfDestroyed', NEW d \in Nat,
             \A k \in DOMAIN stack' : k + d \in DOMAIN stack /\ stack'[k] = stack[k + d]
      PROVE  VictimsNoted'
  BY <1>0, <1>1, ShiftedVictims
<1>2. CASE stack' = stack /\ selfDestroyed' = selfDestroyed
  <2>1. \A k \in DOMAIN stack' : k + 0 \in DOMAIN stack /\ stack'[k] = stack[k + 0]
    BY <1>0, <1>2
  <2>. QED  BY <1>1, <1>2, <2>1
<1>3. CASE stack # << >> /\ stack' = Tail(stack) /\ selfDestroyed' = selfDestroyed
  <2>1. \A k \in DOMAIN stack' : k + 1 \in DOMAIN stack /\ stack'[k] = stack[k + 1]
    BY <1>3, TopFacts
  <2>. QED  BY <1>1, <1>3, <2>1
<1>4. ASSUME NEW sigs \in Seq(Signals), sigs # << >>,
             stack' = <<Emission(sigs, FALSE)>> \o stack, selfDestroyed' = selfDestroyed
      PROVE  VictimsNoted'
  <2>1. PICK g \in Frames : g = Emission(sigs, FALSE) /\ g.destroys = FALSE
    BY <1>4, EmissionFields
  <2>2. \A e : ~Destroys(g, e)
    BY <2>1 DEF Destroys
  <2>. QED  BY <1>0, <1>4, <2>1, <2>2, PushedVictims
<1>5. ASSUME NEW e \in Entities, Destroy(e) PROVE VictimsNoted'
  <2> DEFINE sigs == SignalsOf(e, EntityDestruction)
  <2>1. /\ sigs \in Seq(Signals) /\ sigs # << >>
        /\ Head(sigs) = <<Any, EntityDestruction>>
        /\ Tail(sigs) \in Seq(Signals) /\ \A i \in DOMAIN Tail(sigs) : i = 1
        /\ Tail(sigs)[1] = <<e, EntityDestruction>>
    BY SignalFacts DEF EventTypes
  <2>2. stack' = <<Emission(sigs, TRUE)>> \o stack
    BY <1>5 DEF Destroy
  <2>3. PICK g \in Frames : /\ g = Emission(sigs, TRUE)
                            /\ g.signal = Head(sigs) /\ g.rest = Tail(sigs)
    BY <2>1, EmissionFields
  <2>4. PICK r \in Seq(Signals) : r = Tail(sigs)
    BY <2>1
  <2>. HIDE DEF sigs
  <2>5. g.signal[1] = Any /\ g.rest = r /\ \A i \in DOMAIN r : r[i][1] = e
    <3>1. \A i \in DOMAIN r : i = 1
      BY <2>1, <2>4
    <3>2. g.signal = <<Any, EntityDestruction>> /\ r[1] = <<e, EntityDestruction>>
      BY <2>1, <2>3, <2>4
    <3>3. g.rest = r
      BY <2>3, <2>4
    <3>. QED  BY <3>1, <3>2, <3>3
  <2>6. \A x \in Entities : Destroys(g, x) => x = e
    BY <2>5, EventsAssumption DEF Destroys
  <2>7. /\ selfDestroyed \subseteq selfDestroyed'
        /\ \A k \in DOMAIN stack : stack[k].signal[1] = e => e \in selfDestroyed'
    BY <1>5 DEF Destroy, CallsOwn
  <2>. QED  BY <1>0, <2>2, <2>3, <2>6, <2>7, PushedVictims
<1>6. ASSUME stack # << >>, NEW g \in Frames, stack' = <<g>> \o Tail(stack),
             \A e \in Entities : Destroys(g, e) => Destroys(Top, e),
             selfDestroyed' = selfDestroyed
      PROVE  VictimsNoted'
  <2>1. \A k \in DOMAIN stack' :
          /\ k \in DOMAIN stack
          /\ k # 1 => stack'[k] = stack[k]
          /\ k = 1 => stack'[k] = g /\ stack[k] = Top
    BY <1>0, <1>6, TopFacts, Replaced
  <2>2. \A k \in DOMAIN stack' :
          /\ k + 0 \in DOMAIN stack
          /\ k # 1 => stack'[k].signal = stack[k + 0].signal
          /\ \A e \in Entities : Destroys(stack'[k], e) => Destroys(stack[k + 0], e)
    <3>1. \A k \in DOMAIN stack' : k + 0 = k
      BY <1>0
    <3>. QED  BY <1>6, <2>1, <3>1
  <2>. QED  BY <1>0, <1>6, <2>2, ShiftedVictims
<1>7. CASE CallNext
  <2>1. PICK k \in DOMAIN Top.slots, g \in Frames :
          /\ stack # << >> /\ stack' = <<g>> \o Tail(stack)
          /\ g.signal = Top.signal /\ g.rest = Top.rest /\ g.destroys = Top.destroys
    BY <1>7, CallNextFields
  <2>2. \A e \in Entities : Destroys(g, e) => Destroys(Top, e)
    BY <2>1 DEF Destroys
  <2>3. selfDestroyed' = selfDestroyed
    BY <1>7 DEF CallNext, history
  <2>. QED  BY <1>6, <2>1, <2>2, <2>3
<1>8. CASE NextSignal
  <2>1. stack # << >> /\ Top.rest # << >> /\ stack' = <<AtNextSignal(Top)>> \o Tail(stack)
    BY <1>8 DEF NextSignal, SignalDone
  <2>2. PICK g \in Frames : g = AtNextSignal(Top)
    BY <2>1, TopFacts, AtNextSignalFields
  <2>3. \A e \in Entities : Destroys(g, e) => Destroys(Top, e)
    BY <2>1, <2>2, TopFacts, NextSignalVictims
  <2>4. selfDestroyed' = selfDestroyed
    BY <1>8 DEF NextSignal, history
  <2>. QED  BY <1>6, <2>1, <2>2, <2>3, <2>4
<1>9. ASSUME NEW y \in Entities, Detaches(y) PROVE VictimsNoted'
  <2>1. PICK x : stack # << >> /\ stack' = Erased(x, Tail(stack))
    BY <1>9 DEF Detaches, SignalDone
  <2>2. PICK s \in Seq(Frames) :
          /\ s = Tail(stack)
          /\ \A k \in DOMAIN s : k + 1 \in DOMAIN stack /\ s[k] = stack[k + 1]
    BY <2>1, TopFacts
  <2>3. PICK t : t = stack' /\ t = Erased(x, s)
    BY <2>1, <2>2
  <2>4. /\ DOMAIN t = DOMAIN s
        /\ \A k \in DOMAIN t : /\ t[k].signal = s[k].signal /\ t[k].rest = s[k].rest
                               /\ t[k].destroys = s[k].destroys
    BY <2>3, ErasedFields
  <2>5. \A k \in DOMAIN stack' :
          /\ k + 1 \in DOMAIN stack
          /\ k # 1 => stack'[k].signal = stack[k + 1].signal
          /\ \A e \in Entities : Destroys(stack'[k], e) => Destroys(stack[k + 1], e)
    BY <2>2, <2>3, <2>4 DEF Destroys
  <2>6. selfDestroyed' = selfDestroyed
    BY <1>9 DEF Detaches
  <2>. QED  BY <1>0, <2>5, <2>6, ShiftedVictims
<1>10. ASSUME NEW e \in issued, NEW event \in EventTypes, EmitOn(e, event)
       PROVE  VictimsNoted'
  BY <1>0, <1>4, <1>10, SignalFacts DEF EmitOn, history
<1>11. ASSUME NEW event \in EventTypes, Emit(event) PROVE VictimsNoted'
  BY <1>4, <1>11, SignalFacts DEF Emit, history
<1>12. CASE EmitReturns \/ CallbackThrows
  BY <1>3, <1>12 DEF EmitReturns, SignalDone, CallbackThrows, history
<1>13. CASE \/ \E e \in Entities : NewEntity(e)
            \/ \E sig \in Signals : Subscribe(sig)
            \/ \E n \in Subscriptions : Unsubscribe(n)
            \/ UNCHANGED vars
  BY <1>2, <1>13 DEF NewEntity, Subscribe, Unsubscribe, vars, history
<1>. QED
  BY <1>5, <1>7, <1>8, <1>9, <1>10, <1>11, <1>12, <1>13
  DEF Next, DestroyReturns, DestroyThrows

\* The disjunction of RunningSignalsExist for one emission.
Runs(f) ==
  \/ f.slots = << >>
  \/ f.signal \in DOMAIN signals
  \/ f.signal[1] \in selfDestroyed

\* What goes on running when no list of slots is erased.
LEMMA StillRuns ==
  ASSUME NEW f, NEW g, Runs(f), g.slots = f.slots, g.signal = f.signal,
         DOMAIN signals \subseteq DOMAIN signals', selfDestroyed \subseteq selfDestroyed'
  PROVE  g.slots = << >> \/ g.signal \in DOMAIN signals' \/ g.signal[1] \in selfDestroyed'
  BY DEF Runs

LEMMA RunningNext ==
  TypeOK /\ VictimsNoted /\ RunningSignalsExist /\ [Next]_vars => RunningSignalsExist'
<1> DEFINE RunsNext(f) ==
             f.slots = << >> \/ f.signal \in DOMAIN signals' \/ f.signal[1] \in selfDestroyed'
<1>. SUFFICES ASSUME TypeOK, VictimsNoted, RunningSignalsExist, [Next]_vars
              PROVE  \A k \in DOMAIN stack' : RunsNext(stack'[k])
  BY DEF RunningSignalsExist
<1>0. /\ \A k \in DOMAIN stack : Runs(stack[k])
      /\ stack \in Seq(Frames) /\ issued \subseteq Entities
  BY DEF RunningSignalsExist, Runs, TypeOK
<1>1. ASSUME DOMAIN signals \subseteq DOMAIN signals', selfDestroyed \subseteq selfDestroyed',
             NEW f, Runs(f), NEW g, g.slots = f.slots, g.signal = f.signal
      PROVE  RunsNext(g)
  BY <1>1, StillRuns
<1>2. CASE /\ stack' = stack /\ DOMAIN signals \subseteq DOMAIN signals'
           /\ selfDestroyed \subseteq selfDestroyed'
  BY <1>0, <1>1, <1>2
<1>3. CASE /\ stack # << >> /\ stack' = Tail(stack)
           /\ UNCHANGED <<signals, selfDestroyed>>
  <2>1. \A k \in DOMAIN stack' : Runs(stack'[k])
    BY <1>0, <1>3, TopFacts
  <2>. QED  BY <1>3, <2>1 DEF Runs
<1>4. ASSUME NEW f \in Frames, f.slots = SlotsOf(f.signal), UNCHANGED signals
      PROVE  RunsNext(f)
  BY <1>4 DEF SlotsOf
<1>5. ASSUME NEW sigs \in Seq(Signals), sigs # << >>, NEW destroys \in BOOLEAN,
             stack' = <<Emission(sigs, destroys)>> \o stack,
             UNCHANGED signals, selfDestroyed \subseteq selfDestroyed'
      PROVE  \A k \in DOMAIN stack' : RunsNext(stack'[k])
  <2>1. PICK g \in Frames : g = Emission(sigs, destroys) /\ g.slots = SlotsOf(g.signal)
    BY <1>5, EmissionFields
  <2>2. RunsNext(g)
    BY <1>4, <1>5, <2>1
  <2>3. \A k \in DOMAIN stack : RunsNext(stack[k])
    BY <1>0, <1>1, <1>5
  <2>4. \A k \in DOMAIN stack' : \/ stack'[k] = g
                                 \/ k - 1 \in DOMAIN stack /\ stack'[k] = stack[k - 1]
    BY <1>0, <1>5, <2>1, Pushed
  <2>. HIDE DEF RunsNext
  <2>. QED  BY <2>2, <2>3, <2>4
<1>6. ASSUME stack # << >>, NEW g \in Frames, stack' = <<g>> \o Tail(stack), RunsNext(g),
             UNCHANGED <<signals, selfDestroyed>>
      PROVE  \A k \in DOMAIN stack' : RunsNext(stack'[k])
  <2>1. \A k \in DOMAIN stack' : \/ stack'[k] = g
                                 \/ k \in DOMAIN stack /\ stack'[k] = stack[k]
    BY <1>0, <1>6, Replaced
  <2>2. \A k \in DOMAIN stack : RunsNext(stack[k])
    BY <1>0, <1>1, <1>6
  <2>. HIDE DEF RunsNext
  <2>. QED  BY <1>6, <2>1, <2>2
<1>7. CASE CallNext
  <2>1. PICK k \in DOMAIN Top.slots, g \in Frames :
          /\ stack # << >> /\ stack' = <<g>> \o Tail(stack)
          /\ g.signal = Top.signal /\ g.slots = Top.slots
    BY <1>7, CallNextFields
  <2>2. UNCHANGED <<signals, selfDestroyed>>
    BY <1>7 DEF CallNext, history
  <2>3. Runs(Top)
    BY <1>0, <2>1, TopFacts
  <2>4. RunsNext(g)
    BY <1>1, <2>1, <2>2, <2>3
  <2>. QED  BY <1>6, <2>1, <2>2, <2>4
<1>8. CASE NextSignal
  <2>1. stack # << >> /\ Top.rest # << >> /\ stack' = <<AtNextSignal(Top)>> \o Tail(stack)
    BY <1>8 DEF NextSignal, SignalDone
  <2>2. PICK g \in Frames : g = AtNextSignal(Top) /\ g.slots = SlotsOf(g.signal)
    BY <2>1, TopFacts, AtNextSignalFields
  <2>3. UNCHANGED <<signals, selfDestroyed>>
    BY <1>8 DEF NextSignal, history
  <2>4. RunsNext(g)
    BY <1>4, <2>2, <2>3
  <2>. QED  BY <1>6, <2>1, <2>2, <2>3, <2>4
<1>9. ASSUME NEW x \in Entities, Detaches(x)
      PROVE  \A k \in DOMAIN stack' : RunsNext(stack'[k])
  <2>1. PICK e \in Entities :
          /\ stack # << >> /\ Top.destroys /\ Top.signal[1] = e
          /\ stack' = Erased(e, Tail(stack))
          /\ signals' = [sig \in {s \in DOMAIN signals : s[1] # e} |-> signals[sig]]
    BY <1>9 DEF Detaches, SignalDone
  <2>2. PICK s \in Seq(Frames) :
          /\ s = Tail(stack)
          /\ \A k \in DOMAIN s : k + 1 \in DOMAIN stack /\ s[k] = stack[k + 1]
    BY <2>1, TopFacts
  <2>3. PICK t : t = stack' /\ t = Erased(e, s)
    BY <2>1, <2>2
  <2>4. /\ DOMAIN t = DOMAIN s
        /\ \A k \in DOMAIN t : t[k].signal = s[k].signal /\ t[k].slots = s[k].slots
    BY <2>3, ErasedFields
  <2>5. selfDestroyed' = selfDestroyed
    BY <1>9 DEF Detaches
  <2>6. ASSUME NEW k \in DOMAIN s PROVE RunsNext(t[k])
    <3>1. Runs(stack[k + 1]) /\ s[k] = stack[k + 1] /\ k + 1 \in DOMAIN stack
      BY <1>0, <2>2, <2>6
    <3>2. CASE s[k].signal[1] = e
      <4>1. Destroys(stack[1], e) /\ 1 \in 1 .. (k + 1) - 1
        BY <2>1, TopFacts DEF Destroys
      <4>2. e \in selfDestroyed
        BY <3>1, <3>2, <4>1 DEF VictimsNoted
      <4>. QED  BY <2>4, <2>5, <3>2, <4>2
    <3>3. CASE s[k].signal[1] # e
      BY <2>1, <2>4, <2>5, <3>1, <3>3 DEF Runs
    <3>. QED  BY <3>2, <3>3
  <2>. HIDE DEF RunsNext
  <2>. QED  BY <2>3, <2>4, <2>6
<1>10. ASSUME NEW e \in issued, NEW event \in EventTypes, EmitOn(e, event)
       PROVE  \A k \in DOMAIN stack' : RunsNext(stack'[k])
  BY <1>0, <1>5, <1>10, SignalFacts DEF EmitOn, history
<1>11. ASSUME NEW event \in EventTypes, Emit(event)
       PROVE  \A k \in DOMAIN stack' : RunsNext(stack'[k])
  BY <1>5, <1>11, SignalFacts DEF Emit, history
<1>12. ASSUME NEW e \in Entities, Destroy(e)
       PROVE  \A k \in DOMAIN stack' : RunsNext(stack'[k])
  <2>1. selfDestroyed \subseteq selfDestroyed' /\ UNCHANGED signals
    BY <1>12 DEF Destroy
  <2>2. stack' = <<Emission(SignalsOf(e, EntityDestruction), TRUE)>> \o stack
    BY <1>12 DEF Destroy
  <2>. QED  BY <1>5, <2>1, <2>2, SignalFacts DEF EventTypes
<1>13. CASE EmitReturns \/ CallbackThrows
  BY <1>3, <1>13 DEF EmitReturns, SignalDone, CallbackThrows, history
<1>14. ASSUME NEW sig \in Signals, Subscribe(sig)
       PROVE  \A k \in DOMAIN stack' : RunsNext(stack'[k])
  <2>1. DOMAIN signals \subseteq DOMAIN signals'
    BY <1>14 DEF Subscribe
  <2>2. stack' = stack /\ selfDestroyed' = selfDestroyed
    BY <1>14 DEF Subscribe
  <2>. QED  BY <1>2, <2>1, <2>2
<1>15. CASE \/ \E e \in Entities : NewEntity(e)
            \/ \E n \in Subscriptions : Unsubscribe(n)
            \/ UNCHANGED vars
  BY <1>2, <1>15 DEF NewEntity, Unsubscribe, vars, history
<1>. QED
  BY <1>7, <1>8, <1>9, <1>10, <1>11, <1>12, <1>13, <1>14, <1>15
  DEF Next, DestroyReturns, DestroyThrows

(***************************************************************************)
(* Whatever the callbacks of an emission destroy, subscribe to or throw,   *)
(* the signal it goes through is not erased under it, unless a callback    *)
(* subscribed to one entity destroyed that very entity.                    *)
(***************************************************************************)
THEOREM SignalsOutliveEmissions == Spec => []RunningSignalsExist
<1>1. Init => VictimsNoted /\ RunningSignalsExist
  <2>1. DOMAIN << >> = {}
    OBVIOUS
  <2>. QED  BY <2>1 DEF Init, VictimsNoted, RunningSignalsExist
<1>. QED  BY <1>1, TypeCorrect, VictimsNext, RunningNext, PTL DEF Spec

\* Only the slot that is called is called once more, and it is connected.
LEMMA CallsConnected ==
  ASSUME TypeOK, Connections, CallNext, NEW n \in Subscriptions,
         TimesCalled(Top', n) > TimesCalled(Top, n)
  PROVE  n \in connected
<1>1. PICK k \in DOMAIN Top.slots, g \in Frames :
        /\ stack # << >> /\ stack' = <<g>> \o Tail(stack)
        /\ Top.slots[k] \in connected
        /\ g.called = Append(Top.called, Top.slots[k])
  BY CallNextFields
<1>2. /\ Top.called \in Seq(Subscriptions) /\ Top.slots[k] \in Subscriptions
      /\ Tail(stack) \in Seq(Frames)
  BY <1>1, TopFacts
<1>3. Top' = g
  <2>1. Head(stack') = g
    BY <1>1, <1>2
  <2>. QED  BY <2>1 DEF Top
<1>4. PICK m : m = Top.slots[k]
  OBVIOUS
<1>. SUFFICES ASSUME n # m PROVE FALSE
  BY <1>1, <1>4
<1>5. PICK c \in Seq(Subscriptions) : c = Top.called
  BY <1>2
<1>6. {i \in DOMAIN g.called : g.called[i] = n} = {i \in DOMAIN c : c[i] = n}
  <2>1. PICK d : d = Append(c, m)
    OBVIOUS
  <2>2. /\ \A i \in DOMAIN d : \/ d[i] = m
                               \/ i \in DOMAIN c /\ d[i] = c[i]
        /\ \A i \in DOMAIN c : i \in DOMAIN d /\ d[i] = c[i]
    BY <1>2, <1>4, <2>1, Queued
  <2>3. g.called = d
    BY <1>1, <1>4, <1>5, <2>1
  <2>. QED  BY <2>2, <2>3
<1>7. TimesCalled(Top', n) = TimesCalled(Top, n)
  <2>1. TimesCalled(g, n) = TimesCalled(Top, n)
    BY <1>5, <1>6 DEF TimesCalled
  <2>2. TimesCalled(Top', n) = TimesCalled(g, n)
    BY <1>3
  <2>. QED  BY <2>1, <2>2
<1>8. TimesCalled(Top, n) \in Nat
  <2>1. IsFiniteSet(DOMAIN c)
    <3>1. DOMAIN c = 1 .. Len(c) /\ Len(c) \in Nat
      OBVIOUS
    <3>. QED  BY <3>1, FS_Interval
  <2>2. IsFiniteSet({i \in DOMAIN c : c[i] = n})
    BY <2>1, FS_Subset
  <2>. QED  BY <1>5, <2>2, FS_CardinalityType DEF TimesCalled
<1>. QED  BY <1>7, <1>8

(***************************************************************************)
(* Nobody is called who has unsubscribed, or whose entity is gone: an      *)
(* emission looks at the connection when it comes to a slot, not when it   *)
(* began, and Destroy disconnects the slots it drops.                      *)
(***************************************************************************)
THEOREM NobodyCalledAfterTheEnd == Spec => EndedNeverCalled
<1> DEFINE Calls ==
      \A n \in Subscriptions :
        CallNext /\ TimesCalled(Top', n) > TimesCalled(Top, n) =>
          /\ n \notin ended \cup lost
          /\ subs[n][1] \in Entities => subs[n][1] \in living \/ n \in late
<1>1. TypeOK /\ Connections => Calls
  <2>. SUFFICES ASSUME TypeOK, Connections, NEW n \in Subscriptions, CallNext,
                       TimesCalled(Top', n) > TimesCalled(Top, n)
                PROVE  /\ n \notin ended \cup lost
                       /\ subs[n][1] \in Entities => subs[n][1] \in living \/ n \in late
    OBVIOUS
  <2>1. n \in connected
    BY CallsConnected
  <2>2. Connection(n)
    BY DEF Connections
  <2>. QED  BY <2>1, <2>2 DEF Connection
<1>2. TypeOK /\ Connections /\ [Next]_vars => [Calls]_vars
  BY <1>1
<1>3. Spec => [][Calls]_vars
  <2>. HIDE DEF Calls
  <2>. QED  BY <1>2, TypeCorrect, ConnectionsAlways, PTL DEF Spec
<1>. QED  BY <1>3 DEF EndedNeverCalled

-----------------------------------------------------------------------------
(***************************************************************************)
(* How far an emission has come, in terms of the subscriptions sub and the *)
(* connected ones among them, conn: each subscription it has called is     *)
(* behind it, and each that was there at the start and is still connected  *)
(* has been called or is ahead.  As no list and no queue of signals has    *)
(* anything twice, nothing is both.                                        *)
(***************************************************************************)

Distinct(s) == \A i, j \in DOMAIN s : s[i] = s[j] => i = j

Heard(f, n) == \E i \in DOMAIN f.called : f.called[i] = n

Behind(f, n, sub) ==
  \/ sub[n] = f.signal /\ \E k \in 1 .. f.next - 1 : f.slots[k] = n
  \/ sub[n] # f.signal /\ \A j \in DOMAIN f.rest : f.rest[j] # sub[n]

Ahead(f, n, sub) ==
  \/ \E k \in f.next .. Len(f.slots) : f.slots[k] = n
  \/ \E j \in DOMAIN f.rest : f.rest[j] = sub[n]

Progress(f, sub, conn) ==
  /\ Distinct(f.slots) /\ Distinct(f.rest) /\ Distinct(f.called)
  /\ \A k \in DOMAIN f.slots : sub[f.slots[k]] = f.signal
  /\ \A j \in DOMAIN f.rest : f.rest[j] # f.signal
  /\ \A i \in DOMAIN f.called : Behind(f, f.called[i], sub)
  /\ \A n \in f.due \cap conn : Heard(f, n) \/ Ahead(f, n, sub)

ListsDistinct == \A sig \in DOMAIN signals : Distinct(signals[sig])

EmissionsProgress == \A k \in DOMAIN stack : Progress(stack[k], subs, connected)

\* The head and the tail of a queue make it up.
LEMMA Dequeued ==
  ASSUME NEW S, NEW q \in Seq(S), q # << >>
  PROVE  /\ Head(q) = q[1] /\ 1 \in DOMAIN q
         /\ Tail(q) \in Seq(S)
         /\ \A j \in DOMAIN Tail(q) :
              j + 1 \in DOMAIN q /\ Tail(q)[j] = q[j + 1] /\ j \in Nat \ {0}
         /\ \A i \in DOMAIN q :
              i # 1 => i - 1 \in DOMAIN Tail(q) /\ Tail(q)[i - 1] = q[i]
<1>1. Len(q) \in Nat \ {0} /\ DOMAIN q = 1 .. Len(q) /\ Head(q) = q[1]
  OBVIOUS
<1>2. /\ Tail(q) \in Seq(S) /\ DOMAIN Tail(q) = 1 .. Len(q) - 1
      /\ \A j \in 1 .. Len(q) - 1 : Tail(q)[j] = q[j + 1]
  BY <1>1
<1>3. ASSUME NEW i \in DOMAIN q, i # 1
      PROVE  i - 1 \in DOMAIN Tail(q) /\ Tail(q)[i - 1] = q[i]
  <2>1. i - 1 \in 1 .. Len(q) - 1 /\ (i - 1) + 1 = i
    BY <1>1, <1>3
  <2>2. Tail(q)[i - 1] = q[(i - 1) + 1]
    BY <1>2, <2>1, Zenon
  <2>. QED  BY <1>2, <2>1, <2>2, Zenon
<1>4. ASSUME NEW j \in 1 .. Len(q) - 1 PROVE j + 1 \in DOMAIN q /\ j \in Nat \ {0}
  BY <1>1
<1>5. \A j \in DOMAIN Tail(q) :
        j + 1 \in DOMAIN q /\ Tail(q)[j] = q[j + 1] /\ j \in Nat \ {0}
  BY <1>2, <1>4, Zenon
<1>6. 1 \in DOMAIN q
  BY <1>1
<1>7. \A i \in DOMAIN q :
        i # 1 => i - 1 \in DOMAIN Tail(q) /\ Tail(q)[i - 1] = q[i]
  BY <1>3
<1>8. Head(q) = q[1] /\ Tail(q) \in Seq(S)
  BY <1>1, <1>2
<1>. QED  BY <1>5, <1>6, <1>7, <1>8, Zenon

\* Others subscribe, unsubscribe or are disconnected: nothing changes for f.
LEMMA SameProgress ==
  ASSUME NEW f \in Frames, Progress(f, subs, connected), NEW g, NEW sub, NEW conn,
         g.signal = f.signal, g.slots = f.slots, g.rest = f.rest, g.next = f.next,
         g.called = f.called, g.due = f.due,
         \A m \in Subscriptions : sub[m] = subs[m],
         conn \cap Subscriptions \subseteq connected
  PROVE  Progress(g, sub, conn)
<1>1. /\ f.due \subseteq Subscriptions
      /\ \A k \in DOMAIN f.slots : f.slots[k] \in Subscriptions
      /\ \A i \in DOMAIN f.called : f.called[i] \in Subscriptions
  BY DEF Frames
<1>2. /\ Distinct(f.slots) /\ Distinct(f.rest) /\ Distinct(f.called)
      /\ \A k \in DOMAIN f.slots : subs[f.slots[k]] = f.signal
      /\ \A j \in DOMAIN f.rest : f.rest[j] # f.signal
      /\ \A i \in DOMAIN f.called : Behind(f, f.called[i], subs)
      /\ \A n \in f.due \cap connected : Heard(f, n) \/ Ahead(f, n, subs)
  BY DEF Progress
<1>3. ASSUME NEW i \in DOMAIN g.called PROVE Behind(g, g.called[i], sub)
  <2>1. Behind(f, f.called[i], subs) /\ sub[f.called[i]] = subs[f.called[i]]
    BY <1>1, <1>2
  <2>. QED  BY <2>1 DEF Behind
<1>4. ASSUME NEW n \in g.due \cap conn PROVE Heard(g, n) \/ Ahead(g, n, sub)
  <2>1. (Heard(f, n) \/ Ahead(f, n, subs)) /\ sub[n] = subs[n]
    BY <1>1, <1>2
  <2>. QED  BY <2>1 DEF Heard, Ahead
<1>5. \A k \in DOMAIN g.slots : sub[g.slots[k]] = g.signal
  BY <1>1, <1>2
<1>. QED  BY <1>2, <1>3, <1>4, <1>5 DEF Progress

\* The list an emission finds when it looks a signal up.
LEMMA ListsFacts ==
  ASSUME TypeOK, Connections, ListsDistinct, NEW sig
  PROVE  /\ Distinct(SlotsOf(sig))
         /\ \A n \in connected : subs[n] = sig =>
              \E k \in 1 .. Len(SlotsOf(sig)) : SlotsOf(sig)[k] = n
<1>1. CASE sig \in DOMAIN signals
  <2>1. SlotsOf(sig) = signals[sig]
    BY <1>1 DEF SlotsOf
  <2>2. DOMAIN SlotsOf(sig) = 1 .. Len(SlotsOf(sig))
    BY SlotsFacts
  <2>3. ASSUME NEW n \in connected, subs[n] = sig
        PROVE  \E k \in DOMAIN signals[sig] : signals[sig][k] = n
    <3>1. n \in Subscriptions
      BY DEF TypeOK
    <3>. QED  BY <2>3, <3>1 DEF Connections, Connection, InSignal
  <2>. QED  BY <1>1, <2>1, <2>2, <2>3 DEF ListsDistinct
<1>2. CASE sig \notin DOMAIN signals
  <2>1. SlotsOf(sig) = << >>
    BY <1>2 DEF SlotsOf
  <2>2. ASSUME NEW n \in connected PROVE subs[n] # sig
    <3>1. n \in Subscriptions
      BY DEF TypeOK
    <3>. QED  BY <1>2, <3>1 DEF Connections, Connection, InSignal
  <2>. QED  BY <2>1, <2>2 DEF Distinct
<1>. QED  BY <1>1, <1>2

\* An emission starts with everyone who is due ahead of it.
LEMMA EmissionProgress ==
  ASSUME TypeOK, Connections, ListsDistinct,
         NEW sigs \in Seq(Signals), sigs # << >>, Distinct(sigs),
         NEW destroys \in BOOLEAN, NEW g, g = Emission(sigs, destroys)
  PROVE  Progress(g, subs, connected)
<1>1. /\ g.signal = Head(sigs) /\ g.slots = SlotsOf(Head(sigs)) /\ g.rest = Tail(sigs)
      /\ g.next = 1 /\ g.called = << >>
      /\ g.due = {n \in Subscriptions :
                    IsActive(n) /\ \E k \in DOMAIN sigs : sigs[k] = subs[n]}
  BY EmissionFields
<1>2. PICK s : s = Head(sigs)
  OBVIOUS
<1>3. PICK r : r = Tail(sigs)
  OBVIOUS
<1>4. /\ s = sigs[1] /\ 1 \in DOMAIN sigs
      /\ \A j \in DOMAIN r : j + 1 \in DOMAIN sigs /\ r[j] = sigs[j + 1] /\ j \in Nat \ {0}
      /\ \A i \in DOMAIN sigs : i # 1 => i - 1 \in DOMAIN r /\ r[i - 1] = sigs[i]
  BY <1>2, <1>3, Dequeued
<1>5. /\ Distinct(SlotsOf(s))
      /\ \A n \in connected : subs[n] = s =>
           \E k \in 1 .. Len(SlotsOf(s)) : SlotsOf(s)[k] = n
      /\ \A k \in DOMAIN SlotsOf(s) : subs[SlotsOf(s)[k]] = s
  BY ListsFacts, SlotsFacts
<1>6. Distinct(r) /\ \A j \in DOMAIN r : r[j] # s
  BY <1>4 DEF Distinct
<1>7. g.signal = s /\ g.slots = SlotsOf(s) /\ g.rest = r
  BY <1>1, <1>2, <1>3
<1>8. ASSUME NEW n \in g.due \cap connected PROVE Ahead(g, n, subs)
  <2>1. PICK i \in DOMAIN sigs : sigs[i] = subs[n]
    BY <1>1
  <2>2. CASE i = 1
    <3>1. subs[n] = s
      BY <1>4, <2>1, <2>2
    <3>. QED  BY <1>1, <1>5, <1>7, <3>1 DEF Ahead
  <2>3. CASE i # 1
    BY <1>4, <1>7, <2>1, <2>3 DEF Ahead
  <2>. QED  BY <2>2, <2>3
<1>9. DOMAIN g.called = {}
  BY <1>1
<1>10. Distinct(g.called)
  BY <1>9 DEF Distinct
<1>. QED  BY <1>5, <1>6, <1>7, <1>8, <1>9, <1>10 DEF Progress

\* The slots of a signal are used up: who is due is due in those to come.
LEMMA NextSignalProgress ==
  ASSUME TypeOK, Connections, ListsDistinct, NEW f \in Frames, f.rest # << >>,
         f.next \in 1 .. Len(f.slots) + 1,
         Callable(f) = {}, Progress(f, subs, connected), NEW g, g = AtNextSignal(f)
  PROVE  Progress(g, subs, connected)
<1>1. /\ g.signal = Head(f.rest) /\ g.slots = SlotsOf(Head(f.rest))
      /\ g.rest = Tail(f.rest) /\ g.next = 1 /\ g.called = f.called /\ g.due = f.due
  BY AtNextSignalFields
<1>2. PICK s : s = Head(f.rest)
  OBVIOUS
<1>3. PICK r : r = Tail(f.rest)
  OBVIOUS
<1>4. PICK q \in Seq(Signals) : q = f.rest /\ q # << >>
  BY DEF Frames
<1>5. /\ s = q[1] /\ 1 \in DOMAIN q
      /\ \A j \in DOMAIN r : j + 1 \in DOMAIN q /\ r[j] = q[j + 1] /\ j \in Nat \ {0}
      /\ \A i \in DOMAIN q : i # 1 => i - 1 \in DOMAIN r /\ r[i - 1] = q[i]
  BY <1>2, <1>3, <1>4, Dequeued
<1>6. /\ Distinct(SlotsOf(s))
      /\ \A n \in connected : subs[n] = s =>
           \E k \in 1 .. Len(SlotsOf(s)) : SlotsOf(s)[k] = n
      /\ \A k \in DOMAIN SlotsOf(s) : subs[SlotsOf(s)[k]] = s
  BY ListsFacts, SlotsFacts
<1>7. /\ Distinct(q) /\ Distinct(f.called)
      /\ \A j \in DOMAIN q : q[j] # f.signal
      /\ \A i \in DOMAIN f.called : Behind(f, f.called[i], subs)
      /\ \A n \in f.due \cap connected : Heard(f, n) \/ Ahead(f, n, subs)
  BY <1>4 DEF Progress
<1>8. Distinct(r) /\ \A j \in DOMAIN r : r[j] # s
  BY <1>5, <1>7 DEF Distinct
<1>9. g.signal = s /\ g.slots = SlotsOf(s) /\ g.rest = r
  BY <1>1, <1>2, <1>3
<1>10. ASSUME NEW i \in DOMAIN g.called PROVE Behind(g, g.called[i], subs)
  <2>1. PICK n : n = f.called[i] /\ n = g.called[i] /\ Behind(f, n, subs)
    BY <1>1, <1>7
  <2>2. \A j \in DOMAIN q : q[j] # subs[n]
    BY <1>4, <1>7, <2>1 DEF Behind
  <2>3. subs[n] # s /\ \A j \in DOMAIN r : r[j] # subs[n]
    BY <1>5, <2>2
  <2>. QED  BY <1>9, <2>1, <2>3 DEF Behind
<1>11. ASSUME NEW n \in g.due \cap connected PROVE Heard(g, n) \/ Ahead(g, n, subs)
  <2>1. CASE Heard(f, n)
    BY <1>1, <2>1 DEF Heard
  <2>2. CASE \E k \in f.next .. Len(f.slots) : f.slots[k] = n
    BY <1>11, <2>2 DEF Callable
  <2>3. CASE \E i \in DOMAIN q : q[i] = subs[n]
    <3>1. PICK i \in DOMAIN q : q[i] = subs[n]
      BY <2>3
    <3>2. CASE i = 1
      <4>1. subs[n] = s
        BY <1>5, <3>1, <3>2
      <4>. QED  BY <1>1, <1>6, <1>9, <4>1 DEF Ahead
    <3>3. CASE i # 1
      BY <1>5, <1>9, <3>1, <3>3 DEF Ahead
    <3>. QED  BY <3>2, <3>3
  <2>. QED  BY <1>1, <1>4, <1>7, <2>1, <2>2, <2>3 DEF Ahead
<1>12. Distinct(g.called)
  BY <1>1, <1>7
<1>. QED  BY <1>6, <1>8, <1>9, <1>10, <1>11, <1>12 DEF Progress

\* The next slot is called: those that are passed over are disconnected.
LEMMA CallProgress ==
  ASSUME NEW f \in Frames, f.next \in 1 .. Len(f.slots) + 1,
         Progress(f, subs, connected),
         NEW k \in DOMAIN f.slots, k >= f.next,
         \A j \in f.next .. k - 1 : f.slots[j] \notin connected,
         NEW g, g.signal = f.signal, g.slots = f.slots, g.rest = f.rest,
         g.next = k + 1, g.called = Append(f.called, f.slots[k]), g.due = f.due
  PROVE  Progress(g, subs, connected)
<1>1. /\ f.slots \in Seq(Subscriptions) /\ f.called \in Seq(Subscriptions)
      /\ DOMAIN f.slots = 1 .. Len(f.slots) /\ Len(f.slots) \in Nat
      /\ f.next \in Nat /\ k \in Nat
  BY DEF Frames
<1>2. /\ Distinct(f.slots) /\ Distinct(f.rest) /\ Distinct(f.called)
      /\ \A j \in DOMAIN f.slots : subs[f.slots[j]] = f.signal
      /\ \A j \in DOMAIN f.rest : f.rest[j] # f.signal
      /\ \A i \in DOMAIN f.called : Behind(f, f.called[i], subs)
      /\ \A n \in f.due \cap connected : Heard(f, n) \/ Ahead(f, n, subs)
  BY DEF Progress
<1>3. PICK m \in Subscriptions : m = f.slots[k] /\ subs[m] = f.signal
  BY <1>1, <1>2
<1>4. PICK c \in Seq(Subscriptions) : c = f.called
  BY <1>1
<1>5. PICK d : d = Append(c, m)
  OBVIOUS
<1>6. /\ \A n \in DOMAIN d : \/ n = Len(c) + 1 /\ d[n] = m
                             \/ n \in DOMAIN c /\ d[n] = c[n]
      /\ \A n \in DOMAIN c : n \in DOMAIN d /\ d[n] = c[n]
      /\ Len(c) + 1 \in DOMAIN d /\ d[Len(c) + 1] = m
  BY <1>5, Queued
<1>7. g.called = d
  BY <1>3, <1>4, <1>5
<1>8. \A i \in DOMAIN c : c[i] # m
  <2>. SUFFICES ASSUME NEW i \in DOMAIN c, c[i] = m PROVE FALSE
    OBVIOUS
  <2>1. Behind(f, m, subs)
    BY <1>2, <1>4
  <2>2. PICK j \in 1 .. f.next - 1 : f.slots[j] = m
    BY <1>3, <2>1 DEF Behind
  <2>3. j \in DOMAIN f.slots /\ j # k
    BY <1>1, <2>2
  <2>. QED  BY <1>2, <1>3, <2>2, <2>3 DEF Distinct
<1>9. Distinct(d)
  BY <1>2, <1>4, <1>6, <1>8 DEF Distinct
<1>10. ASSUME NEW i \in DOMAIN d PROVE Behind(g, d[i], subs)
  <2>1. CASE d[i] = m
    <3>1. k \in 1 .. g.next - 1
      BY <1>1
    <3>. QED  BY <1>3, <2>1, <3>1 DEF Behind
  <2>2. CASE i \in DOMAIN c /\ d[i] = c[i]
    <3>1. PICK n : n = d[i] /\ Behind(f, n, subs)
      BY <1>2, <1>4, <2>2
    <3>2. 1 .. f.next - 1 \subseteq 1 .. g.next - 1
      BY <1>1
    <3>3. Behind(g, n, subs)
      BY <3>1, <3>2 DEF Behind
    <3>. QED  BY <3>1, <3>3
  <2>. QED  BY <1>6, <2>1, <2>2
<1>11. ASSUME NEW n \in g.due \cap connected PROVE Heard(g, n) \/ Ahead(g, n, subs)
  <2>1. CASE Heard(f, n)
    BY <1>4, <1>6, <1>7, <2>1 DEF Heard
  <2>2. CASE \E j \in f.next .. Len(f.slots) : f.slots[j] = n
    <3>1. PICK j \in f.next .. Len(f.slots) : f.slots[j] = n
      BY <2>2
    <3>2. j >= k
      BY <1>1, <1>11, <3>1
    <3>3. CASE j = k
      BY <1>3, <1>6, <1>7, <3>1, <3>3 DEF Heard
    <3>4. CASE j # k
      <4>1. j \in g.next .. Len(g.slots)
        BY <1>1, <3>1, <3>2, <3>4
      <4>. QED  BY <3>1, <4>1 DEF Ahead
    <3>. QED  BY <3>3, <3>4
  <2>3. CASE \E j \in DOMAIN f.rest : f.rest[j] = subs[n]
    BY <2>3 DEF Ahead
  <2>. QED  BY <1>2, <2>1, <2>2, <2>3 DEF Ahead
<1>. QED  BY <1>2, <1>7, <1>9, <1>10, <1>11 DEF Progress

LEMMA ListsNext == TypeOK /\ ListsDistinct /\ [Next]_vars => ListsDistinct'
<1>. SUFFICES ASSUME TypeOK, ListsDistinct, [Next]_vars PROVE ListsDistinct'
  OBVIOUS
<1>1. ASSUME \A sig \in DOMAIN signals' : sig \in DOMAIN signals /\ signals'[sig] = signals[sig]
      PROVE  ListsDistinct'
  BY <1>1 DEF ListsDistinct, Distinct
<1>2. ASSUME NEW sig \in Signals, Subscribe(sig) PROVE ListsDistinct'
  <2>1. PICK n : n = Len(subs) + 1
    OBVIOUS
  <2>2. /\ n \notin Subscriptions /\ n \in Nat
        /\ DOMAIN signals' = DOMAIN signals \cup {sig}
        /\ SlotsOf(sig) \in Seq(Subscriptions)
        /\ signals'[sig] = Append(SlotsOf(sig), n)
        /\ \A s \in DOMAIN signals : s # sig => signals'[s] = signals[s]
    BY <1>2, <2>1, SubscribeFacts
  <2>3. PICK l \in Seq(Subscriptions) : l = SlotsOf(sig)
    BY <2>2
  <2>4. Distinct(l)
    <3>1. CASE sig \in DOMAIN signals
      BY <2>3, <3>1 DEF ListsDistinct, SlotsOf
    <3>2. CASE sig \notin DOMAIN signals
      <4>1. DOMAIN l = {}
        BY <2>3, <3>2 DEF SlotsOf
      <4>. QED  BY <4>1 DEF Distinct
    <3>. QED  BY <3>1, <3>2
  <2>5. PICK t : t = Append(l, n)
    OBVIOUS
  <2>6. \A i \in DOMAIN t : \/ i = Len(l) + 1 /\ t[i] = n
                            \/ i \in DOMAIN l /\ t[i] = l[i]
    <3>1. l \in Seq(Subscriptions \cup {n}) /\ n \in Subscriptions \cup {n}
      OBVIOUS
    <3>. QED  BY <2>5, <3>1, Queued
  <2>7. \A i \in DOMAIN l : l[i] # n
    <3>1. \A i \in DOMAIN l : l[i] \in Subscriptions
      BY <2>3
    <3>. QED  BY <2>2, <3>1
  <2>8. Distinct(t)
    BY <2>4, <2>6, <2>7 DEF Distinct
  <2>9. signals'[sig] = t
    BY <2>2, <2>3, <2>5
  <2>10. \A s \in DOMAIN signals' : Distinct(signals'[s])
    BY <2>2, <2>8, <2>9 DEF ListsDistinct
  <2>. QED  BY <2>10 DEF ListsDistinct, Distinct
<1>3. ASSUME NEW e \in Entities, Detaches(e) PROVE ListsDistinct'
  BY <1>1, <1>3 DEF Detaches
<1>4. CASE \/ \E e \in Entities : NewEntity(e) \/ Destroy(e)
           \/ \E n \in Subscriptions : Unsubscribe(n)
           \/ \E e \in issued, event \in EventTypes : EmitOn(e, event)
           \/ \E event \in EventTypes : Emit(event)
           \/ CallNext \/ NextSignal \/ EmitReturns \/ CallbackThrows
           \/ UNCHANGED vars
  <2>1. signals' = signals
    BY <1>4 DEF NewEntity, Destroy, Unsubscribe, EmitOn, Emit, CallNext, NextSignal,
       EmitReturns, CallbackThrows, vars
  <2>. QED  BY <1>1, <2>1
<1>. QED  BY <1>2, <1>3, <1>4 DEF Next, DestroyReturns, DestroyThrows

\* What was subscribed to is for ever, and nobody is connected again.
LEMMA NobodyReturns ==
  ASSUME TypeOK, [Next]_vars
  PROVE  /\ \A m \in Subscriptions : subs'[m] = subs[m]
         /\ connected' \cap Subscriptions \subseteq connected
<1>1. ASSUME NEW sig \in Signals, Subscribe(sig)
      PROVE  /\ \A m \in Subscriptions : subs'[m] = subs[m]
             /\ connected' \cap Subscriptions \subseteq connected
  <2>1. PICK n : n = Len(subs) + 1
    OBVIOUS
  <2>2. /\ n \notin Subscriptions
        /\ \A m \in Subscriptions : subs'[m] = subs[m]
        /\ connected' = connected \cup {n}
    BY <1>1, <2>1, SubscribeFacts
  <2>. QED  BY <2>2
<1>2. CASE \/ \E e \in Entities : NewEntity(e) \/ Destroy(e)
           \/ \E n \in Subscriptions : Unsubscribe(n)
           \/ \E e \in issued, event \in EventTypes : EmitOn(e, event)
           \/ \E event \in EventTypes : Emit(event)
           \/ CallNext \/ NextSignal \/ EmitReturns \/ CallbackThrows
           \/ \E e \in Entities : Detaches(e)
           \/ UNCHANGED vars
  <2>1. subs' = subs /\ connected' \subseteq connected
    BY <1>2 DEF NewEntity, Destroy, Unsubscribe, EmitOn, Emit, CallNext, NextSignal,
       EmitReturns, Detaches, Disconnected, CallbackThrows, vars
  <2>. QED  BY <2>1
<1>. QED  BY <1>1, <1>2 DEF Next, DestroyReturns, DestroyThrows

LEMMA ProgressNext ==
  TypeOK /\ Connections /\ ListsDistinct /\ EmissionsProgress /\ [Next]_vars
    => EmissionsProgress'
<1>. SUFFICES ASSUME TypeOK, Connections, ListsDistinct, EmissionsProgress, [Next]_vars
              PROVE  \A k \in DOMAIN stack' : Progress(stack'[k], subs', connected')
  BY DEF EmissionsProgress
<1>0. /\ stack \in Seq(Frames) /\ issued \subseteq Entities
      /\ \A k \in DOMAIN stack : stack[k] \in Frames
      /\ \A k \in DOMAIN stack : Progress(stack[k], subs, connected)
  BY DEF TypeOK, EmissionsProgress
<1>1. ASSUME NEW k \in DOMAIN stack, NEW g,
             g.signal = stack[k].signal, g.slots = stack[k].slots, g.rest = stack[k].rest,
             g.next = stack[k].next, g.called = stack[k].called, g.due = stack[k].due
      PROVE  Progress(g, subs', connected')
  <2>1. PICK f \in Frames : f = stack[k]
    BY <1>0
  <2>2. PICK sub : sub = subs'
    OBVIOUS
  <2>3. PICK conn : conn = connected'
    OBVIOUS
  <2>4. Progress(g, sub, conn)
    BY <1>0, <1>1, <2>1, <2>2, <2>3, NobodyReturns, SameProgress
  <2>. QED  BY <2>2, <2>3, <2>4
<1>2. \A k \in DOMAIN stack : Progress(stack[k], subs', connected')
  BY <1>1
<1>3. CASE stack' = stack
  BY <1>2, <1>3
<1>4. CASE stack # << >> /\ stack' = Tail(stack)
  <2>1. \A k \in DOMAIN stack' : k + 1 \in DOMAIN stack /\ stack'[k] = stack[k + 1]
    BY <1>4, TopFacts
  <2>. QED  BY <1>2, <2>1
<1>5. ASSUME NEW sigs \in Seq(Signals), sigs # << >>, Distinct(sigs),
             NEW destroys \in BOOLEAN,
             stack' = <<Emission(sigs, destroys)>> \o stack,
             UNCHANGED <<subs, connected>>
      PROVE  \A k \in DOMAIN stack' : Progress(stack'[k], subs', connected')
  <2>1. PICK g \in Frames : g = Emission(sigs, destroys)
    BY <1>5, EmissionFields
  <2>2. Progress(g, subs, connected)
    BY <1>5, <2>1, EmissionProgress
  <2>3. Progress(g, subs', connected')
    BY <1>5, <2>2
  <2>4. \A k \in DOMAIN stack' : \/ stack'[k] = g
                                 \/ k - 1 \in DOMAIN stack /\ stack'[k] = stack[k - 1]
    BY <1>0, <1>5, <2>1, Pushed
  <2>. QED  BY <1>2, <2>3, <2>4
<1>6. ASSUME stack # << >>, NEW g \in Frames, stack' = <<g>> \o Tail(stack),
             Progress(g, subs, connected), UNCHANGED <<subs, connected>>
      PROVE  \A k \in DOMAIN stack' : Progress(stack'[k], subs', connected')
  <2>1. \A k \in DOMAIN stack' : \/ stack'[k] = g
                                 \/ k \in DOMAIN stack /\ stack'[k] = stack[k]
    BY <1>0, <1>6, Replaced
  <2>2. Progress(g, subs', connected')
    BY <1>6
  <2>. QED  BY <1>2, <2>1, <2>2
<1>7. CASE CallNext
  <2>1. PICK k \in DOMAIN Top.slots, g \in Frames :
          /\ stack # << >> /\ Top \in Frames
          /\ stack' = <<g>> \o Tail(stack)
          /\ k >= Top.next
          /\ \A j \in Top.next .. k - 1 : Top.slots[j] \notin connected
          /\ g.signal = Top.signal /\ g.slots = Top.slots /\ g.rest = Top.rest
          /\ g.next = k + 1 /\ g.called = Append(Top.called, Top.slots[k])
          /\ g.due = Top.due
    BY <1>7, CallNextFields
  <2>2. PICK f \in Frames : f = Top
    BY <2>1
  <2>3. f.next \in 1 .. Len(f.slots) + 1 /\ Progress(f, subs, connected)
    BY <1>0, <2>1, <2>2, TopFacts
  <2>4. Progress(g, subs, connected)
    BY <2>1, <2>2, <2>3, CallProgress
  <2>5. UNCHANGED <<subs, connected>>
    BY <1>7 DEF CallNext
  <2>. QED  BY <1>6, <2>1, <2>4, <2>5
<1>8. CASE NextSignal
  <2>1. /\ stack # << >> /\ Callable(Top) = {} /\ Top.rest # << >>
        /\ stack' = <<AtNextSignal(Top)>> \o Tail(stack)
        /\ UNCHANGED <<subs, connected>>
    BY <1>8 DEF NextSignal, SignalDone
  <2>2. PICK f \in Frames : f = Top
    BY <2>1, TopFacts
  <2>3. f.next \in 1 .. Len(f.slots) + 1 /\ Progress(f, subs, connected)
    BY <1>0, <2>1, <2>2, TopFacts
  <2>4. PICK g \in Frames : g = AtNextSignal(f)
    BY <2>1, <2>2, AtNextSignalFields
  <2>5. Progress(g, subs, connected)
    BY <2>1, <2>2, <2>3, <2>4, NextSignalProgress
  <2>. QED  BY <1>6, <2>1, <2>2, <2>4, <2>5
<1>9. ASSUME NEW x \in Entities, Detaches(x)
      PROVE  \A k \in DOMAIN stack' : Progress(stack'[k], subs', connected')
  <2>1. PICK e : stack # << >> /\ stack' = Erased(e, Tail(stack))
    BY <1>9 DEF Detaches, SignalDone
  <2>2. PICK s \in Seq(Frames) :
          /\ s = Tail(stack)
          /\ \A k \in DOMAIN s : k + 1 \in DOMAIN stack /\ s[k] = stack[k + 1]
    BY <2>1, TopFacts
  <2>3. PICK t : t = stack' /\ t = Erased(e, s)
    BY <2>1, <2>2
  <2>4. /\ DOMAIN t = DOMAIN s
        /\ \A k \in DOMAIN t :
             /\ t[k].signal = s[k].signal /\ t[k].slots = s[k].slots
             /\ t[k].rest = s[k].rest /\ t[k].next = s[k].next
             /\ t[k].called = s[k].called /\ t[k].due = s[k].due
    BY <2>3, ErasedFields
  <2>5. \A k \in DOMAIN t : Progress(t[k], subs', connected')
    BY <1>1, <2>2, <2>4
  <2>. QED  BY <2>3, <2>5
<1>10. ASSUME NEW e \in Entities, NEW event \in EventTypes
       PROVE  /\ SignalsOf(e, event) \in Seq(Signals) /\ SignalsOf(e, event) # << >>
              /\ Distinct(SignalsOf(e, event))
  <2>1. <<Any, event>> # <<e, event>>
    BY EventsAssumption
  <2>2. \A i \in DOMAIN SignalsOf(e, event) : i = 1 \/ i = 2
    BY DEF SignalsOf
  <2>3. SignalsOf(e, event)[1] # SignalsOf(e, event)[2]
    BY <2>1, SignalFacts
  <2>. QED  BY <2>2, <2>3, SignalFacts DEF Distinct
<1>11. ASSUME NEW e \in issued, NEW event \in EventTypes, EmitOn(e, event)
       PROVE  \A k \in DOMAIN stack' : Progress(stack'[k], subs', connected')
  BY <1>0, <1>5, <1>10, <1>11 DEF EmitOn
<1>12. ASSUME NEW event \in EventTypes, Emit(event)
       PROVE  \A k \in DOMAIN stack' : Progress(stack'[k], subs', connected')
  <2>1. Distinct(<<<<NoEntity, event>>>>)
    BY DEF Distinct
  <2>. QED  BY <1>5, <1>12, <2>1, SignalFacts DEF Emit
<1>13. ASSUME NEW e \in Entities, Destroy(e)
       PROVE  \A k \in DOMAIN stack' : Progress(stack'[k], subs', connected')
  <2>1. /\ stack' = <<Emission(SignalsOf(e, EntityDestruction), TRUE)>> \o stack
        /\ UNCHANGED <<subs, connected>>
    BY <1>13 DEF Destroy
  <2>2. EntityDestruction \in EventTypes
    BY DEF EventTypes
  <2>. QED  BY <1>5, <1>10, <2>1, <2>2
<1>14. CASE EmitReturns \/ CallbackThrows
  BY <1>4, <1>14 DEF EmitReturns, SignalDone, CallbackThrows
<1>15. CASE \/ \E e \in Entities : NewEntity(e)
            \/ \E sig \in Signals : Subscribe(sig)
            \/ \E n \in Subscriptions : Unsubscribe(n)
            \/ UNCHANGED vars
  BY <1>3, <1>15 DEF NewEntity, Subscribe, Unsubscribe, vars
<1>. QED
  BY <1>7, <1>8, <1>9, <1>11, <1>12, <1>13, <1>14, <1>15
  DEF Next, DestroyReturns, DestroyThrows

LEMMA ProgressAlways == Spec => [](ListsDistinct /\ EmissionsProgress)
<1>1. Init => ListsDistinct /\ EmissionsProgress
  <2>1. DOMAIN << >> = {}
    OBVIOUS
  <2>. QED  BY <2>1 DEF Init, ListsDistinct, EmissionsProgress
<1>. QED
  BY <1>1, TypeCorrect, ConnectionsAlways, ListsNext, ProgressNext, PTL DEF Spec

\* The times somebody occurs in a sequence without repetitions.
LEMMA CalledOnce ==
  ASSUME NEW f, Distinct(f.called), NEW n
  PROVE  /\ TimesCalled(f, n) \in {0, 1}
         /\ Heard(f, n) => TimesCalled(f, n) = 1
<1>1. CASE Heard(f, n)
  <2>1. PICK i \in DOMAIN f.called : f.called[i] = n
    BY <1>1 DEF Heard
  <2>2. {k \in DOMAIN f.called : f.called[k] = n} = {i}
    BY <2>1 DEF Distinct
  <2>. QED  BY <2>2, FS_Singleton DEF TimesCalled
<1>2. CASE ~Heard(f, n)
  <2>1. {k \in DOMAIN f.called : f.called[k] = n} = {}
    BY <1>2 DEF Heard
  <2>. QED  BY <1>2, <2>1, FS_EmptySet DEF TimesCalled
<1>. QED  BY <1>1, <1>2

(***************************************************************************)
(* An Emit that is over, in a Destroy or not, has called everyone who was  *)
(* subscribed when it began and still is exactly once, and nobody twice,   *)
(* whatever the callbacks did to the lists it went through.                *)
(***************************************************************************)
THEOREM EmissionsReachAll == Spec => EmitReachesAll
<1> DEFINE Reaches ==
      EmitReturns \/ (\E e \in Entities : Detaches(e)) =>
        \A n \in Subscriptions :
          /\ TimesCalled(Top, n) <= 1
          /\ /\ n \in Top.due \ (ended \cup lost)
             /\ subs[n][1] \in Entities => subs[n][1] \in living
             => TimesCalled(Top, n) = 1
<1>1. TypeOK /\ Connections /\ EmissionsProgress => Reaches
  <2>. SUFFICES ASSUME TypeOK, Connections, EmissionsProgress,
                       EmitReturns \/ (\E e \in Entities : Detaches(e)), NEW n \in Subscriptions
                PROVE  /\ TimesCalled(Top, n) <= 1
                       /\ /\ n \in Top.due \ (ended \cup lost)
                          /\ subs[n][1] \in Entities => subs[n][1] \in living
                          => TimesCalled(Top, n) = 1
    OBVIOUS
  <2>1. stack # << >> /\ Callable(Top) = {} /\ Top.rest = << >>
    BY DEF EmitReturns, Detaches, SignalDone
  <2>2. Progress(Top, subs, connected)
    BY <2>1, TopFacts DEF EmissionsProgress
  <2>3. TimesCalled(Top, n) \in {0, 1} /\ (Heard(Top, n) => TimesCalled(Top, n) = 1)
    BY <2>2, CalledOnce DEF Progress
  <2>4. ASSUME n \in Top.due \ (ended \cup lost),
               subs[n][1] \in Entities => subs[n][1] \in living
        PROVE  Heard(Top, n)
    <3>1. n \in connected
      BY <2>4 DEF Connections, Connection
    <3>2. ~Ahead(Top, n, subs)
      <4>1. DOMAIN Top.rest = {}
        BY <2>1
      <4>. QED  BY <2>1, <3>1, <4>1 DEF Ahead, Callable
    <3>. QED  BY <2>2, <2>4, <3>1, <3>2 DEF Progress
  <2>. QED  BY <2>3, <2>4
<1>2. TypeOK /\ Connections /\ EmissionsProgress /\ [Next]_vars => [Reaches]_vars
  BY <1>1
<1>3. Spec => [][Reaches]_vars
  <2>. HIDE DEF Reaches
  <2>. QED  BY <1>2, TypeCorrect, ConnectionsAlways, ProgressAlways, PTL DEF Spec
<1>. QED  BY <1>3 DEF EmitReachesAll
=============================================================================
