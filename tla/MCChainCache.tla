---------------------------- MODULE MCChainCache ----------------------------
(* ChainCache for TLC: the two pairs of keys of the routing service and     *)
(* which of them its loaders ask the cache for.                             *)
EXTENDS ChainCache, TLC

PoolNeeds == ("poolStakeMap" :> "bondingManager") @@ ("bondingManager" :> NoKey)
UriNeeds  == ("serviceUri" :> "serviceRegistry") @@ ("serviceRegistry" :> NoKey)

BothNeeds == PoolNeeds @@ UriNeeds
=============================================================================
