------------------------------ MODULE MCRunner ------------------------------
EXTENDS Runner, TLC

CONSTANTS a, b, c, d

\* d has no suffix .xml (NoXml) and the output files of b cannot be created (CannotOpen).
Args == <<a, d, b, c>>
ArgNames == a :> a @@ b :> b @@ c :> c @@ d :> d
=============================================================================
