---------------------------- MODULE MCChainProxy ----------------------------
(* ChainProxy with two connections and chains of up to two proxies.         *)
EXTENDS ChainProxy

=============================================================================
