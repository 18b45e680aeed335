------------------------------ MODULE MCMutex ------------------------------
EXTENDS MutexRefinement
=============================================================================
