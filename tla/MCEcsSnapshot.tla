--------------------------- MODULE MCEcsSnapshot ---------------------------
EXTENDS EcsSnapshot

\* Two entities.
MCIds == [index : {1, 2}, gen : {0}]
=============================================================================
