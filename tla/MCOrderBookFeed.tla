--------------------------- MODULE MCOrderBookFeed ---------------------------
(***************************************************************************)
(* Instance of OrderBookFeed for TLC.                                      *)
(***************************************************************************)
EXTENDS OrderBookFeed, TLC

\* The engine passes connection ids through and compares none of them.
ConnSymmetry == Permutations(Conns)
=============================================================================
