----------------------------- MODULE DataPlane -----------------------------
(***************************************************************************)
(* The data plane of one rule on one agent: UdpRelay for a UDP rule,       *)
(* TcpListener and, per connection, TcpBridge for a TCP rule.  The three   *)
(* share nothing but the start and the stop of the rule, which each module *)
(* has (Stop and Bind, StopSeen and StartAgain, Broken).  So a behaviour   *)
(* here is one of one part, chosen at the start; the other parts stay as   *)
(* they begin, where no fair action of theirs is enabled.                  *)
(***************************************************************************)
EXTENDS UdpRelay, TcpListener, TcpBridge

VARIABLE part

dataVars == <<part, udpVars, lsnVars, brVars>>

DataInit ==
    /\ part \in {"udp", "listener", "bridge"}
    /\ UdpInit /\ ListenerInit /\ BridgeInit
    /\ part # "udp" => via = "direct"
    /\ part # "listener" => role = "relay"
    /\ part # "bridge" => route = "splice"

DataNext ==
    \/ part = "udp" /\ UdpNext /\ UNCHANGED <<part, lsnVars, brVars>>
    \/ part = "listener" /\ ListenerNext /\ UNCHANGED <<part, udpVars, brVars>>
    \/ part = "bridge" /\ BridgeNext /\ UNCHANGED <<part, udpVars, lsnVars>>

DataSpec ==
    /\ DataInit /\ [][DataNext]_dataVars
    /\ UdpFairness /\ ListenerFairness /\ BridgeFairness
=============================================================================
