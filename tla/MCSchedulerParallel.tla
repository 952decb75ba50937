------------------------- MODULE MCSchedulerParallel -------------------------
(***************************************************************************)
(* SchedulerParallel instantiated for TLC: blocks of BlockLen transactions *)
(* over two keys, each transaction reading at most one key and writing at  *)
(* most one key.  This is enough for a chunk to read what an earlier chunk *)
(* writes, directly before it or further back.                            *)
(***************************************************************************)
EXTENDS SchedulerParallel

CONSTANT BlockLen

Programs == [reads : {{}} \cup {{k} : k \in Keys},
             writes : {{}} \cup {{k} : k \in Keys}]

MCBlocks == [1 .. BlockLen -> Programs]

KeySymmetry == Permutations(Keys)
=============================================================================
