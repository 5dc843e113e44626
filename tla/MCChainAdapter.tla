--------------------------- MODULE MCChainAdapter ---------------------------
(* Two adapters of one Astar chain and one of an OAK chain, a fourth        *)
(* without an api; overlapping, failing and repeated initializations.       *)
EXTENDS ChainAdapter, TLC

CONSTANTS shiden1, shiden2, turing, orphan, shidenChain, turingChain,
          i1, i2, i3, i4, i5, i6

MCChainOf == (shiden1 :> shidenChain) @@ (shiden2 :> shidenChain)
               @@ (turing :> turingChain) @@ (orphan :> turingChain)
MCTarget == (i1 :> shiden1) @@ (i2 :> shiden1) @@ (i3 :> shiden2)
              @@ (i4 :> turing) @@ (i5 :> turing) @@ (i6 :> orphan)
=============================================================================
