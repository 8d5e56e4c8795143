--------------------------- MODULE EntityIdProofs ---------------------------
(***************************************************************************)
(* What packing an index and a generation into an id keeps of them.        *)
(***************************************************************************)
EXTENDS EntityId, TLAPS

\* Quotient and remainder of an integer put together from the two.
LEMMA DivideSum ==
  ASSUME NEW s \in Nat \ {0}, NEW r \in 0 .. s - 1, NEW q \in Nat
  PROVE  /\ (q * s + r) % s = r
         /\ (q * s + r) \div s = q
  OBVIOUS

\* Quotient and remainder of a natural number.
LEMMA Division ==
  ASSUME NEW s \in Nat \ {0}, NEW n \in Nat
  PROVE  /\ n % s \in 0 .. s - 1
         /\ n \div s \in Nat
         /\ n = (n \div s) * s + (n % s)
         /\ n % s <= n
<1>1. n % s \in 0 .. s - 1 /\ n \div s \in Nat
  OBVIOUS
<1>2. n = (n \div s) * s + (n % s)
  OBVIOUS
<1>3. (n \div s) * s \in Nat
  BY <1>1
<1>. QED  BY <1>1, <1>2, <1>3

\* A product below a bound has its quotient below the quotient of the bound.
LEMMA QuotientBelow ==
  ASSUME NEW s \in Nat \ {0}, NEW k \in Nat, NEW n \in 0 .. s * k - 1
  PROVE  n \div s < k
  OBVIOUS

\* Numbers below the modulus are their own remainders.
LEMMA SmallRemainder ==
  ASSUME NEW s \in Nat \ {0}, NEW n \in 0 .. s - 1
  PROVE  n % s = n
  OBVIOUS

\* An id keeps the index it is made of, Index() == index in the constructor,
\* and never has a larger generation than the one it is made of.
LEMMA PackedParts ==
  ASSUME NEW i \in Indexes, NEW g \in Nat
  PROVE  /\ IdIndex(Pack(i, g)) = i
         /\ IdGeneration(Pack(i, g)) = g % IdGenSpan
         /\ IdGeneration(Pack(i, g)) <= g
<1> DEFINE h == g % IdGenSpan
<1>1. h \in 0 .. IdGenSpan - 1 /\ h <= g
  BY Division, SpanAssumption
<1>2. h \in 0 .. GenSpan - 1
  BY <1>1, SpanAssumption
<1>3. i \in 0 .. IndexSpan - 1 /\ i % IndexSpan = i
  BY SmallRemainder, SpanAssumption DEF Indexes
<1>4. Pack(i, g) = h * IndexSpan + i
  BY <1>3 DEF Pack
<1>5. /\ (h * IndexSpan + i) % IndexSpan = i
      /\ (h * IndexSpan + i) \div IndexSpan = h
  <2>. HIDE DEF h
  <2>. QED  BY <1>1, <1>3, DivideSum, SpanAssumption
<1>6. h % GenSpan = h
  BY <1>2, SmallRemainder, SpanAssumption
<1>. QED
  BY <1>1, <1>4, <1>5, <1>6 DEF IdIndex, IdGeneration

\* The assertions of the constructor hold for every index and generation
\* that fit in the id.
LEMMA PackRoundTrips ==
  ASSUME NEW i \in Indexes, NEW g \in 0 .. IdGenSpan - 1
  PROVE  RoundTrips(i, g) /\ IdGeneration(Pack(i, g)) = g
  BY PackedParts, SmallRemainder, SpanAssumption DEF RoundTrips

\* The constructor makes a value of eid_t, whatever it is given.
LEMMA PackInRange ==
  ASSUME NEW i \in Nat, NEW g \in Nat
  PROVE  Pack(i, g) \in RawIds
<1> DEFINE h == g % IdGenSpan
           j == i % IndexSpan
<1>1. h \in 0 .. IdGenSpan - 1 /\ j \in 0 .. IndexSpan - 1
  BY Division, SpanAssumption
<1>2. h * IndexSpan + j \in 0 .. IndexSpan * IdGenSpan - 1
  <2>. HIDE DEF h, j
  <2>1. h * IndexSpan <= (IdGenSpan - 1) * IndexSpan
    BY <1>1, SpanAssumption
  <2>2. (IdGenSpan - 1) * IndexSpan = IndexSpan * IdGenSpan - IndexSpan
    BY SpanAssumption
  <2>3. h * IndexSpan \in Nat /\ IndexSpan * IdGenSpan \in Nat
    BY <1>1, SpanAssumption
  <2>. QED  BY <1>1, <2>1, <2>2, <2>3, SpanAssumption
<1>. QED  BY <1>2 DEF Pack, RawIds

\* An id is made of its own index and generation.
LEMMA IdParts ==
  ASSUME NEW e \in RawIds
  PROVE  /\ IdIndex(e) \in Indexes
         /\ IdGeneration(e) \in Generations
         /\ e = Pack(IdIndex(e), IdGeneration(e))
<1> DEFINE q == e \div IndexSpan
           r == e % IndexSpan
<1>0. e \in Nat /\ e \in 0 .. IndexSpan * IdGenSpan - 1
  BY SpanAssumption DEF RawIds
<1>1. q \in Nat /\ r \in 0 .. IndexSpan - 1 /\ e = q * IndexSpan + r
  BY <1>0, Division, SpanAssumption
<1>2. q \in 0 .. IdGenSpan - 1 /\ q \in 0 .. GenSpan - 1
  <2>1. e \div IndexSpan < IdGenSpan
    BY <1>0, QuotientBelow, SpanAssumption
  <2>. QED  BY <1>1, <2>1, SpanAssumption
<1>3. q % IdGenSpan = q /\ q % GenSpan = q /\ r % IndexSpan = r
  <2>. HIDE DEF q, r
  <2>. QED  BY <1>1, <1>2, SmallRemainder, SpanAssumption
<1>4. IdIndex(e) = r /\ IdGeneration(e) = q
  BY <1>3 DEF IdIndex, IdGeneration
<1>5. Pack(r, q) = q * IndexSpan + r
  BY <1>3 DEF Pack
<1>. QED
  BY <1>1, <1>2, <1>4, <1>5 DEF Indexes, Generations
=============================================================================
