--------------------------- MODULE TunnelRouting ---------------------------
(***************************************************************************)
(* Where the traffic of a tunnel rule comes out.  The panel splits a rule  *)
(* into one part per hop of its tunnel (grpc/tunnel_split.rs) and sends    *)
(* each part to the agent of the hop; the agents start listeners           *)
(* (tunnel/task.rs): the entry dials the second hop, every mid hop the     *)
(* next one, and the exit connects to the target of the rule.              *)
(*                                                                         *)
(* A hop listens on the inter-port its tunnel has on that node, so the     *)
(* rules of one tunnel meet on the same ports; a port is given to another  *)
(* tunnel as soon as its tunnel is deleted.  Panel handlers are serial     *)
(* here: their races are the subject of RuleSync.                          *)
(***************************************************************************)
EXTENDS Integers, Sequences, FiniteSets, SequencesExt

CONSTANTS Node,         \* nodes
          Tunnel,       \* tunnels that may be created, integers
          Rule,         \* rules that may be created, integers
          Chain,        \* Chain[t]: the nodes of t, entry first
          Secure,       \* tunnels with transport tls or wss
          Port,         \* port pool of every node, integers
          Shared,       \* TRUE: several rules use one tunnel
          MaxAttempts,  \* MAX_ATTEMPTS of retry.rs
          MaxDrops      \* bound: broken streams

None == 0         \* no tunnel
NoPart == [rule |-> None]     \* no listener
NoRetry == [failures |-> 0]   \* nothing to be retried
EntryPort == 0    \* the listen port of a rule, which no other rule of the node has
Exit == 0         \* in place of a next hop

ASSUME TunnelAssumption ==
  /\ Exit \notin Node /\ IsFiniteSet(Rule)
  /\ Tunnel \subseteq Nat \ {None} /\ Rule \subseteq Nat \ {None} /\ Port \subseteq Nat \ {EntryPort}
  /\ Chain \in [Tunnel -> Seq(Node)]
  /\ \A t \in Tunnel : Len(Chain[t]) >= 2 /\ IsInjective(Chain[t])
  /\ Secure \subseteq Tunnel /\ Shared \in BOOLEAN
  /\ MaxAttempts \in Nat \ {0} /\ MaxDrops \in Nat

VARIABLES
  inter,    \* inter[t][n]: inter-port of t on n (tunnel_hops); <<>> before and after t exists
  created,  \* tunnels and rules whose id was issued
  tunnelOf, \* tunnelOf[r]: the tunnel of the undeleted row of r, or None
  online,   \* nodes with a command stream
  inbox,    \* inbox[n]: commands in the stream
  part,     \* part[n][r]: the part of r that listens on n, or NoPart
  pending,  \* pending[n][r]: the failed part of r to be retried, or NoRetry
  drops     \* counter of a bound

panelVars == <<inter, created, tunnelOf>>
routeVars == <<inter, created, tunnelOf, online, inbox, part, pending, drops>>

Hops(t) == ToSet(Chain[t])
Live(t) == inter[t] # <<>>

\* At first every node is connected and nothing exists.
RouteInit ==
  /\ inter = [t \in Tunnel |-> <<>>]
  /\ created = [tunnels |-> {}, rules |-> {}]
  /\ tunnelOf = [r \in Rule |-> None]
  /\ online = Node
  /\ inbox = [n \in Node |-> <<>>]
  /\ part = [n \in Node |-> [r \in Rule |-> NoPart]]
  /\ pending = [n \in Node |-> [r \in Rule |-> NoRetry]]
  /\ drops = 0
-----------------------------------------------------------------------------
(* The panel. *)

\* Inter-ports of n that tunnels hold.
Taken(n) == {inter[t][n] : t \in {u \in Tunnel : Live(u) /\ n \in Hops(u) \ {Head(Chain[u])}}}

\* create: every hop after the entry gets the first free port of its node.  The
\* status column says online of a node for a while after its stream broke.
CreateTunnel(t) ==
  /\ t \notin created.tunnels
  /\ \A n \in Hops(t) \ {Head(Chain[t])} : Port \ Taken(n) # {}
  /\ inter' = [inter EXCEPT ![t] = [n \in Hops(t) |->
                 IF n = Head(Chain[t]) THEN EntryPort ELSE Min(Port \ Taken(n))]]
  /\ created' = [created EXCEPT !.tunnels = @ \cup {t}]
  /\ UNCHANGED <<tunnelOf, online, inbox, part, pending, drops>>

\* delete: refused while rules use the tunnel; its ports are free at once.
DeleteTunnel(t) ==
  /\ Live(t)
  /\ \A r \in Rule : tunnelOf[r] # t
  /\ inter' = [inter EXCEPT ![t] = <<>>]
  /\ UNCHANGED <<created, tunnelOf, online, inbox, part, pending, drops>>

\* Mutation: a mid hop dials the port it listens on itself, not that of the next hop.
SplitOwnPort(r, t, i) ==
  [rule |-> r, tunnel |-> t, port |-> inter[t][Chain[t][i]],
   next |-> IF i = Len(Chain[t]) THEN Exit ELSE Chain[t][i + 1],
   nextPort |-> IF i = Len(Chain[t]) THEN EntryPort
                ELSE inter[t][Chain[t][IF i = 1 THEN 2 ELSE i]]]

\* split_tunnel_rule: the part of r for the i-th hop.
Split(r, t, i) ==
  [rule |-> r, tunnel |-> t, port |-> inter[t][Chain[t][i]],
   next |-> IF i = Len(Chain[t]) THEN Exit ELSE Chain[t][i + 1],
   nextPort |-> IF i = Len(Chain[t]) THEN EntryPort ELSE inter[t][Chain[t][i + 1]]]

PartFor(r, t, n) == Split(r, t, CHOOSE i \in DOMAIN Chain[t] : Chain[t][i] = n)

ApplyRule(p) == [op |-> "apply", part |-> p]
RemoveRule(r) == [op |-> "remove", rule |-> r]
ReconcileRules(keep) == [op |-> "reconcile", keep |-> keep]

CreateRule(r, t) ==
  /\ r \notin created.rules
  /\ Live(t)
  /\ Shared \/ \A q \in Rule : tunnelOf[q] # t
  /\ tunnelOf' = [tunnelOf EXCEPT ![r] = t]
  /\ created' = [created EXCEPT !.rules = @ \cup {r}]
  /\ inbox' = [n \in Node |-> IF n \in Hops(t) \cap online
                              THEN Append(inbox[n], ApplyRule(PartFor(r, t, n))) ELSE inbox[n]]
  /\ UNCHANGED <<inter, online, part, pending, drops>>

\* Mutation: the removal goes to the node in the rule's row, the entry, alone.
DeleteAtEntry(r) ==
  /\ tunnelOf[r] # None
  /\ tunnelOf' = [tunnelOf EXCEPT ![r] = None]
  /\ inbox' = [n \in Node |-> IF n \in {Head(Chain[tunnelOf[r]])} \cap online
                              THEN Append(inbox[n], RemoveRule(r)) ELSE inbox[n]]
  /\ UNCHANGED <<inter, created, online, part, pending, drops>>

DeleteRule(r) ==
  /\ tunnelOf[r] # None
  /\ tunnelOf' = [tunnelOf EXCEPT ![r] = None]
  /\ inbox' = [n \in Node |-> IF n \in Hops(tunnelOf[r]) \cap online
                              THEN Append(inbox[n], RemoveRule(r)) ELSE inbox[n]]
  /\ UNCHANGED <<inter, created, online, part, pending, drops>>

RulesAt(n) == {r \in Rule : tunnelOf[r] # None /\ n \in Hops(tunnelOf[r])}

\* The orders in which reconcile_commands_for_node may list the rules S: tunnel by
\* tunnel, and those of a tunnel by id.
Listings(S) ==
  {ids \in [1..Cardinality(S) -> S] :
     /\ \A r \in S : \E i \in DOMAIN ids : ids[i] = r
     /\ \A i, j \in DOMAIN ids : i < j =>
          \/ tunnelOf[ids[i]] < tunnelOf[ids[j]]
          \/ tunnelOf[ids[i]] = tunnelOf[ids[j]] /\ ids[i] < ids[j]}

\* reconcile_commands_for_node, in the order ids, then the full set of ids.
Replay(n, ids) ==
  Append([i \in DOMAIN ids |-> ApplyRule(PartFor(ids[i], tunnelOf[ids[i]], n))],
         ReconcileRules(RulesAt(n)))
-----------------------------------------------------------------------------
(* The agents. *)

\* The inter-port of p is free once the old part of its rule is stopped.
Free(n, p) ==
  \/ p.port = EntryPort
  \/ \A q \in Rule \ {p.rule} : part[n][q] = NoPart \/ part[n][q].port # p.port

\* RuleManager::apply of p, after n failures: a bind that fails is retried later.
Apply(n, p, failures) ==
  IF Free(n, p)
  THEN /\ part' = [part EXCEPT ![n][p.rule] = p]
       /\ pending' = [pending EXCEPT ![n][p.rule] = NoRetry]
  ELSE /\ part' = [part EXCEPT ![n][p.rule] = NoPart]
       /\ pending' = [pending EXCEPT ![n][p.rule] =
            IF failures + 1 >= MaxAttempts THEN NoRetry ELSE [part |-> p, failures |-> failures + 1]]

Receive(n) ==
  /\ inbox[n] # <<>>
  /\ LET cmd == Head(inbox[n]) IN
       CASE cmd.op = "apply" -> Apply(n, cmd.part, 0)
         [] cmd.op = "remove" -> /\ part' = [part EXCEPT ![n][cmd.rule] = NoPart]
                                 /\ pending' = [pending EXCEPT ![n][cmd.rule] = NoRetry]
         [] cmd.op = "reconcile" ->
              /\ part' = [part EXCEPT ![n] = [r \in Rule |-> IF r \in cmd.keep THEN @[r] ELSE NoPart]]
              /\ UNCHANGED pending
  /\ inbox' = [inbox EXCEPT ![n] = Tail(@)]
  /\ UNCHANGED <<panelVars, online, drops>>

\* RETRY_DELAY is long enough for the agent to empty its stream before.
RetryDue(n, r) ==
  /\ n \in online /\ inbox[n] = <<>>
  /\ pending[n][r] # NoRetry
  /\ Apply(n, pending[n][r].part, pending[n][r].failures)
  /\ UNCHANGED <<panelVars, online, inbox, drops>>

\* The listeners stay; commands in the stream and retries are lost.
Disconnect(n) ==
  /\ n \in online
  /\ drops < MaxDrops /\ drops' = drops + 1
  /\ online' = online \ {n}
  /\ inbox' = [inbox EXCEPT ![n] = <<>>]
  /\ pending' = [pending EXCEPT ![n] = [r \in Rule |-> NoRetry]]
  /\ UNCHANGED <<panelVars, part>>

Connect(n) ==
  /\ n \notin online
  /\ online' = online \cup {n}
  /\ \E ids \in Listings(RulesAt(n)) : inbox' = [inbox EXCEPT ![n] = Replay(n, ids)]
  /\ UNCHANGED <<panelVars, part, pending, drops>>

AgentStep(n) == Receive(n) \/ Connect(n) \/ \E r \in Rule : RetryDue(n, r)

RouteNext ==
  \/ \E t \in Tunnel : CreateTunnel(t) \/ DeleteTunnel(t) \/ \E r \in Rule : CreateRule(r, t)
  \/ \E r \in Rule : DeleteRule(r)
  \/ \E n \in Node : AgentStep(n) \/ Disconnect(n)

RouteSpec == RouteInit /\ [][RouteNext]_routeVars

\* Agents read their streams, retry and reconnect.
FairRouteSpec == RouteSpec /\ \A n \in Node : WF_routeVars(AgentStep(n))
-----------------------------------------------------------------------------
(* The data plane. *)

\* A tls or wss hop answers only the hop before it of its own tunnel (SNI and SAN);
\* a tcp hop answers anyone who speaks plain.
Answers(t, u) == t \in Secure \/ u \in Secure => t = u

\* The listeners: pairs of a node and a rule that has a part running there.
Listeners == {l \in Node \X Rule : part[l[1]][l[2]] # NoPart}
PartOf(l) == part[l[1]][l[2]]

\* The connection that listener l opens for a client may be taken by listener m.
Dials(l, m) ==
  /\ PartOf(l).next = m[1] /\ PartOf(l).nextPort = PartOf(m).port
  /\ Answers(PartOf(l).tunnel, PartOf(m).tunnel)

\* The listeners a client of r may come by: the least set that holds the entry of r
\* and with every listener those it dials.
Passed(r) ==
  {m \in Listeners :
     \A S \in SUBSET Listeners :
       /\ \A l \in Listeners : l = <<Head(Chain[tunnelOf[r]]), r>> => l \in S
       /\ \A l \in S, k \in Listeners : Dials(l, k) => k \in S
       => m \in S}

\* The rules whose targets a client of r may reach.
Reached(r) == {l[2] : l \in {m \in Passed(r) : PartOf(m).next = Exit}}
-----------------------------------------------------------------------------
RouteTypeOK ==
  /\ \A t \in Tunnel : Live(t) => inter[t] \in [Hops(t) -> Port \cup {EntryPort}]
  /\ \A r \in Rule : tunnelOf[r] # None => Live(tunnelOf[r])
  /\ online \subseteq Node
  /\ \A n \in Node \ online : inbox[n] = <<>>

Settled == online = Node /\ \A n \in Node : inbox[n] = <<>>

\* Once every agent is connected and has read its stream, a client of a rule reaches
\* the target of that rule or nothing: never the target of another rule, of an older
\* rule of the tunnel, or of a deleted tunnel whose port was given away.
OwnTarget ==
  Settled => \A r \in Rule : tunnelOf[r] # None => Reached(r) \subseteq {r}

\* Once every agent is connected and has read its stream, nothing listens for deleted
\* rules, also on nodes that were away when the rule was deleted.
NoOrphans == Settled => \A n \in Node, r \in Rule : part[n][r] # NoPart => r \in RulesAt(n)

\* In the end every rule is reachable through all of its hops, although a replayed
\* rule may meet the listener of its predecessor first.
Complete == <>[](\A r \in Rule : tunnelOf[r] # None => Reached(r) = {r})
=============================================================================
