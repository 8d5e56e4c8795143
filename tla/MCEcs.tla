------------------------------- MODULE MCEcs -------------------------------
EXTENDS Ecs, TLC

\* Two entities, and one of their indexes recycled.
MCIds == [index : {1, 2}, gen : {0}] \cup [index : {1}, gen : {1}]

\* The component types are numbered as they come: any two are alike.
MCSymmetry == Permutations(CompTypes)

\* The slots an operation may read: those in use, and those the map leads to.
InReach(p) == Slots(p) \cup {p.entIndexToCompIndex[i] : i \in Mapped(p)}

\* What slots that were given up still hold is overwritten before it is read
\* again, unless a constructor throws: a view for runs in which none does.
ViewOf(p) ==
  [p EXCEPT !.components = [k \in DOMAIN @ |->
                              IF k \in InReach(p) THEN @[k] ELSE NullId]]

MCView ==
  <<compTypeToCompIndex, [n \in Numbers |-> ViewOf(componentPools[n])],
    entCompMasks, entIndexToGen, indexIsAlive, loops, terminated, taint>>
=============================================================================
