------------------------------- MODULE GoInts -------------------------------
(***************************************************************************)
(* Go's int64: the type of the counts in the status of a pool.  Arithmetic *)
(* wraps around; a big.Int is cut to its low 64 bits by Int64().           *)
(***************************************************************************)
EXTENDS Integers

CONSTANT Int64Limit   \* 2^63; an instance may make its integers narrower

ASSUME Int64Assumption == Int64Limit \in Nat \ {0}

Int64s == -Int64Limit .. Int64Limit - 1

Int64(n) == ((n + Int64Limit) % (2 * Int64Limit)) - Int64Limit
=============================================================================
