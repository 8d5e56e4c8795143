------------------------------ MODULE EntityId ------------------------------
(***************************************************************************)
(* Entity::Id: one unsigned integer that packs an entity's index (its low  *)
(* INDEX_BITS bits) and its generation (the bits above).  The spans are    *)
(* the numbers of values of each part: IndexSpan is 2^INDEX_BITS, and      *)
(* GenSpan 2^16, the width of gen_t; IdGenSpan is what is left for the     *)
(* generation in the integer: 2^16 for 64-bit ids, 2^10 for 32-bit ids.    *)
(***************************************************************************)
EXTENDS Integers

CONSTANTS IndexSpan,  \* 2^INDEX_BITS
          IdGenSpan,  \* 2^(width of eid_t - INDEX_BITS)
          GenSpan     \* 2^(width of gen_t)

ASSUME SpanAssumption ==
  /\ IndexSpan \in Nat \ {0}
  /\ IdGenSpan \in Nat \ {0}
  /\ GenSpan \in Nat \ {0}
  /\ IdGenSpan <= GenSpan

Indexes == 0 .. IndexSpan - 1
Generations == 0 .. GenSpan - 1

\* The values of eid_t.
RawIds == 0 .. IndexSpan * IdGenSpan - 1

(***************************************************************************)
(* The constructor Id(index, generation).  The shift drops the bits of the *)
(* generation that do not fit; INDEX_MASK drops those of the index.        *)
(***************************************************************************)
Pack(index, gen) == ((gen % IdGenSpan) * IndexSpan) + (index % IndexSpan)

IdIndex(id) == id % IndexSpan

\* The shifted integer is returned as a gen_t.
IdGeneration(id) == (id \div IndexSpan) % GenSpan

\* The two assertions at the end of the constructor.
RoundTrips(index, gen) ==
  /\ IdIndex(Pack(index, gen)) = index
  /\ IdGeneration(Pack(index, gen)) = gen

\* The id of a default-constructed Entity::Id.
NULL_ID == 0
=============================================================================
