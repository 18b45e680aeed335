------------------------------ MODULE MCOnce ------------------------------
EXTENDS Once
=============================================================================
