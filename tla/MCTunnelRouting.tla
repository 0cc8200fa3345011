-------------------------- MODULE MCTunnelRouting --------------------------
EXTENDS TunnelRouting

MCChain == [t \in Tunnel |-> IF t = 1 THEN <<1, 2, 3>> ELSE <<1, 2>>]
=============================================================================
