------------------------------ MODULE MCStartup ------------------------------
(* Instance of Startup for TLC: an int of 14 bits, an unsigned long of 28. *)
EXTENDS Startup

\* Numbers around the ends of the types and those that wrap to small ones.
SomeNumbers == {-LongSize, -1, 0, 1, 2, 6, IntMax + 1, IntSize, IntSize + 1, LongSize - 1, LongSize}
=============================================================================
