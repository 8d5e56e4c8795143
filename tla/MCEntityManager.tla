-------------------------- MODULE MCEntityManager --------------------------
EXTENDS EntityManager
=============================================================================
