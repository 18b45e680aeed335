---------------------------- MODULE MCWaitGroup ----------------------------
EXTENDS WaitGroup

AddArguments == {-1, 1, 2}
=============================================================================
