------------------------------ MODULE MCTxPool ------------------------------
EXTENDS TxPool
CONSTANTS a, b, r, s, d, k1, k2, k3
MCArrival == <<d, r, a, b, s>>
MCKey == a :> k1 @@ b :> k3 @@ r :> k2 @@ s :> k2 @@ d :> k2
=============================================================================
