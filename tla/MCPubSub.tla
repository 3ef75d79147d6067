------------------------------ MODULE MCPubSub ------------------------------
EXTENDS PubSub, TLC

Symmetry == Permutations(Client) \cup Permutations(Res)
=============================================================================
