---------------------- MODULE MCWriteRestartFileEvents ----------------------
(* WriteRestartFileEvents at the report steps around the word boundaries.  *)
EXTENDS WriteRestartFileEvents

Boundaries == {0, 1, 31, 32, 62, 63, 64, 65, 127, 128}
=============================================================================
