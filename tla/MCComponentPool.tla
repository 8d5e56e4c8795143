-------------------------- MODULE MCComponentPool --------------------------
EXTENDS ComponentPool

\* Three entities, and one index's next generation.
MCIds == [index : 1 .. 3, gen : {0}] \cup [index : {1}, gen : {1}]
=============================================================================
