---------------------------- MODULE MCDelegation ----------------------------
(* Two collators, and two overlapping sequences of calls of one account: a  *)
(* delegation, setAutoCompound and bondMore, in the order of the tests in   *)
(* test/compound/; a delegation of exactly the minimum, and after all these *)
(* one below it;                                                            *)
(* reads of the first delegation and its percentage after what set them.    *)
EXTENDS Delegation, TLC

CONSTANTS k1, k2, first, second, small, auto, more, amount, percentage

MCCollator == (first :> k1) @@ (second :> k2) @@ (small :> k2)
                @@ (auto :> k1) @@ (more :> k1) @@ (amount :> k1) @@ (percentage :> k1)
MCAmount == (first :> 2) @@ (second :> 1) @@ (small :> 0) @@ (more :> 1)
MCPercentage == (first :> 50) @@ (second :> 0) @@ (small :> 50)
                  @@ (auto :> 100)
MCAfter == (first :> {}) @@ (second :> {}) @@ (small :> {second, more})
             @@ (auto :> {first}) @@ (more :> {first, auto})
             @@ (amount :> {first, auto, more}) @@ (percentage :> {first, auto})
MCCrowd == (k1 :> 1) @@ (k2 :> 0)
=============================================================================
