---------------------------- MODULE MCBacktrace ----------------------------
(* The TLC instance of BacktraceRegistry: two threads racing the first     *)
(* attach, two object addresses that the allocator reuses, a buffer of 4   *)
(* slots (3 records) so that eviction happens.                             *)
EXTENDS BacktraceProofs

MCCbSize == 4
=============================================================================
