------------------------ MODULE TunnelRoutingProofs ------------------------
(***************************************************************************)
(* Where the traffic of tunnel rules comes out, for any nodes, tunnels,    *)
(* rules and ports.                                                        *)
(***************************************************************************)
EXTENDS TunnelRouting, FiniteSetTheorems, WellFoundedInduction, TLAPS

PartRows == [rule : Rule, tunnel : Tunnel, port : Port \cup {EntryPort},
             next : Node \cup {Exit}, nextPort : Port \cup {EntryPort}]
RetryRows == {NoRetry} \cup [part : PartRows, failures : Nat]
Commands == [op : {"apply"}, part : PartRows] \cup [op : {"remove"}, rule : Rule]
              \cup [op : {"reconcile"}, keep : SUBSET Rule]

RouteTypes ==
  /\ inter \in [Tunnel -> {<<>>} \cup UNION {[Hops(t) -> Port \cup {EntryPort}] : t \in Tunnel}]
  /\ created \in [tunnels : SUBSET Tunnel, rules : SUBSET Rule]
  /\ tunnelOf \in [Rule -> Tunnel \cup {None}]
  /\ online \subseteq Node
  /\ inbox \in [Node -> Seq(Commands)]
  /\ part \in [Node -> [Rule -> PartRows \cup {NoPart}]]
  /\ pending \in [Node -> [Rule -> RetryRows]]

\* Inter-ports: a tunnel has one on every hop but its entry, and shares none with
\* another tunnel.
HasPorts(t) ==
  /\ t \in created.tunnels
  /\ inter[t] \in [Hops(t) -> Port \cup {EntryPort}]
  /\ \A n \in Hops(t) : IF n = Head(Chain[t]) THEN inter[t][n] = EntryPort ELSE inter[t][n] \in Port
PortsApart(t, u) ==
  \A n \in Hops(t) \cap Hops(u) :
    t # u /\ n # Head(Chain[t]) /\ n # Head(Chain[u]) => inter[t][n] # inter[u][n]
TunnelsApart ==
  /\ \A t \in Tunnel : Live(t) => HasPorts(t)
  /\ \A t, u \in Tunnel : Live(t) /\ Live(u) => PortsApart(t, u)

RulesHoused ==
  /\ \A r \in Rule : tunnelOf[r] # None => Live(tunnelOf[r]) /\ r \in created.rules
  /\ ~Shared => \A r, q \in Rule : tunnelOf[r] # None /\ tunnelOf[r] = tunnelOf[q] => r = q

\* p is the part that node n has of its rule, if that rule is not deleted.
Right(n, p) ==
  /\ p.rule \in created.rules
  /\ tunnelOf[p.rule] # None =>
       n \in Hops(tunnelOf[p.rule]) /\ p = PartFor(p.rule, tunnelOf[p.rule], n)

\* Whatever runs, is to be retried or is on its way is the right part of its rule.
RunsRight(n, r) == \A p \in PartRows : part[n][r] = p => p.rule = r /\ Right(n, p)
RetriesRight(n, r) ==
  \A p \in PartRows : pending[n][r] # NoRetry /\ pending[n][r].part = p => p.rule = r /\ Right(n, p)
ComesRight(n) ==
  \A p \in PartRows : (\E i \in DOMAIN inbox[n] : inbox[n][i] = ApplyRule(p)) => Right(n, p)
PartsRight ==
  \A n \in Node : ComesRight(n) /\ \A r \in Rule : RunsRight(n, r) /\ RetriesRight(n, r)

\* What a connected node still has of a rule that it should not have, a command on
\* its way puts an end to.
EndsAt(n, r, i) == inbox[n][i] = RemoveRule(r)
LeavesOut(n, r, i) == inbox[n][i].op = "reconcile" /\ r \notin inbox[n][i].keep
Doomed(n, r) ==
  /\ \A i \in DOMAIN inbox[n] : inbox[n][i].op = "apply" /\ inbox[n][i].part.rule = r =>
       \E j \in DOMAIN inbox[n] : j > i /\ EndsAt(n, r, j)
  /\ pending[n][r] # NoRetry => \E i \in DOMAIN inbox[n] : EndsAt(n, r, i)
  /\ part[n][r] # NoPart => \E i \in DOMAIN inbox[n] : EndsAt(n, r, i) \/ LeavesOut(n, r, i)
RestDoomed == \A n \in online, r \in Rule : r \notin RulesAt(n) => Doomed(n, r)

Away == \A n \in Node \ online : inbox[n] = <<>> /\ \A r \in Rule : pending[n][r] = NoRetry

RouteInv == RouteTypes /\ TunnelsApart /\ RulesHoused /\ PartsRight /\ RestDoomed /\ Away
-----------------------------------------------------------------------------
(* Sequences, ports and the parts of a rule. *)

LEMMA AppendFacts ==
  ASSUME NEW S, NEW s \in Seq(S), NEW e \in S
  PROVE  /\ Append(s, e) \in Seq(S) /\ DOMAIN s = 1..Len(s) /\ Len(s) \in Nat
         /\ DOMAIN Append(s, e) = 1..(Len(s) + 1) /\ Append(s, e)[Len(s) + 1] = e
         /\ \A i \in DOMAIN s : i \in DOMAIN Append(s, e) /\ Append(s, e)[i] = s[i]
OBVIOUS

LEMMA TailFacts ==
  ASSUME NEW S, NEW s \in Seq(S), s # <<>>
  PROVE  /\ Tail(s) \in Seq(S) /\ DOMAIN s = 1..Len(s) /\ Len(s) \in Nat /\ Len(s) >= 1
         /\ Head(s) = s[1] /\ Head(s) \in S /\ DOMAIN Tail(s) = 1..(Len(s) - 1)
         /\ \A i \in DOMAIN Tail(s) : i + 1 \in DOMAIN s /\ Tail(s)[i] = s[i + 1]
         /\ \A i \in DOMAIN s : i > 1 => i - 1 \in DOMAIN Tail(s) /\ Tail(s)[i - 1] = s[i]
OBVIOUS

\* A non-empty set of ports has a least element, so the first free port is free.
LEMMA FirstFree == ASSUME NEW S, S \subseteq Nat, S # {} PROVE Min(S) \in S
<1>1. PICK x \in S : \A y \in S : ~ (<<y, x>> \in OpToRel(<, Nat))
  BY NatLessThanWellFounded, WFMin
<1>2. \A y \in S : x <= y
  <2>1. SUFFICES ASSUME NEW y \in S, y < x PROVE FALSE
    OBVIOUS
  <2>2. <<y, x>> \in Nat \X Nat /\ <<y, x>>[1] < <<y, x>>[2]
    BY <2>1
  <2> QED
    BY <1>1, <2>2 DEF OpToRel
<1> QED
  BY <1>1, <1>2 DEF Min

LEMMA ChainFacts ==
  ASSUME NEW t \in Tunnel
  PROVE  /\ DOMAIN Chain[t] = 1..Len(Chain[t]) /\ Len(Chain[t]) \in Nat /\ Len(Chain[t]) >= 2
         /\ Head(Chain[t]) = Chain[t][1] /\ Hops(t) = {Chain[t][i] : i \in 1..Len(Chain[t])}
         /\ Hops(t) \subseteq Node /\ Head(Chain[t]) \in Hops(t)
         /\ \A i, j \in 1..Len(Chain[t]) : Chain[t][i] = Chain[t][j] => i = j
<1>1. Chain[t] \in Seq(Node) /\ Len(Chain[t]) >= 2 /\ IsInjective(Chain[t])
  BY TunnelAssumption
<1>2. /\ DOMAIN Chain[t] = 1..Len(Chain[t]) /\ Len(Chain[t]) \in Nat
      /\ Head(Chain[t]) = Chain[t][1] /\ \A i \in 1..Len(Chain[t]) : Chain[t][i] \in Node
  BY <1>1
<1>3. Hops(t) = {Chain[t][i] : i \in 1..Len(Chain[t])}
  BY <1>2 DEF Hops, ToSet
<1> QED
  BY <1>1, <1>2, <1>3 DEF IsInjective

\* The part of rule r for a hop of its tunnel, field by field.
LEMMA PartFields ==
  ASSUME NEW r \in Rule, NEW t \in Tunnel, NEW n \in Hops(t), HasPorts(t)
  PROVE  LET p == PartFor(r, t, n) IN
           /\ p \in PartRows /\ p.rule = r /\ p.tunnel = t /\ p.port = inter[t][n] /\ p # NoPart
           /\ p.next # Exit => /\ p.next \in Hops(t) /\ p.next # Head(Chain[t])
                               /\ p.nextPort = inter[t][p.next]
<1> DEFINE i == CHOOSE i \in DOMAIN Chain[t] : Chain[t][i] = n
<1>1. i \in 1..Len(Chain[t]) /\ Chain[t][i] = n
  BY ChainFacts
<1>2. PartFor(r, t, n) = Split(r, t, i)
  BY DEF PartFor
<1> HIDE DEF i
<1>3. inter[t][n] \in Port \cup {EntryPort}
  BY DEF HasPorts
<1>4. CASE i = Len(Chain[t])
  <2>1. PartFor(r, t, n) = [rule |-> r, tunnel |-> t, port |-> inter[t][n],
                            next |-> Exit, nextPort |-> EntryPort]
    BY <1>1, <1>2, <1>4 DEF Split
  <2> QED
    BY <1>3, <2>1, TunnelAssumption DEF PartRows, NoPart, None
<1>5. CASE i # Len(Chain[t])
  <2> DEFINE m == Chain[t][i + 1]
  <2>1. i + 1 \in 1..Len(Chain[t]) /\ i + 1 # 1
    BY <1>1, <1>5, ChainFacts
  <2>2. m \in Hops(t) /\ m # Head(Chain[t]) /\ m \in Node
    BY <2>1, ChainFacts
  <2>3. inter[t][m] \in Port \cup {EntryPort}
    BY <2>2 DEF HasPorts
  <2>4. PartFor(r, t, n) = [rule |-> r, tunnel |-> t, port |-> inter[t][n],
                            next |-> m, nextPort |-> inter[t][m]]
    BY <1>1, <1>2, <1>5 DEF Split
  <2> HIDE DEF m
  <2> QED
    BY <1>3, <2>2, <2>3, <2>4, TunnelAssumption DEF PartRows, NoPart, None
<1> QED
  BY <1>4, <1>5

LEMMA PartKept ==
  ASSUME NEW r, NEW t, NEW n, inter'[t] = inter[t]
  PROVE  PartFor(r, t, n)' = PartFor(r, t, n)
BY DEF PartFor, Split

LEMMA CommandFacts ==
  /\ \A p \in PartRows : ApplyRule(p) \in Commands /\ ApplyRule(p).op = "apply" /\ ApplyRule(p).part = p
  /\ \A r \in Rule : RemoveRule(r) \in Commands /\ RemoveRule(r).op = "remove" /\ RemoveRule(r).rule = r
  /\ \A k \in SUBSET Rule : /\ ReconcileRules(k) \in Commands
                            /\ ReconcileRules(k).op = "reconcile" /\ ReconcileRules(k).keep = k
BY DEF Commands, ApplyRule, RemoveRule, ReconcileRules
-----------------------------------------------------------------------------
(* The panel. *)

PanelStep ==
  \/ \E t \in Tunnel : CreateTunnel(t) \/ DeleteTunnel(t) \/ \E r \in Rule : CreateRule(r, t)
  \/ \E r \in Rule : DeleteRule(r)

\* What the panel changes about a rule that exists is at most that it is deleted, and
\* it never creates a rule again.
Moves ==
  /\ created.rules \subseteq created'.rules
  /\ \A r \in created.rules \cap Rule : tunnelOf'[r] \in {None, tunnelOf[r]}
  /\ \A r \in Rule : tunnelOf[r] # None /\ tunnelOf'[r] # None =>
       tunnelOf'[r] = tunnelOf[r] /\ inter'[tunnelOf[r]] = inter[tunnelOf[r]]
  /\ UNCHANGED <<online, part, pending>>

LEMMA RulesMove == ASSUME RouteInv, PanelStep PROVE Moves
<1> USE DEF RouteInv, RouteTypes, Moves
<1>1. ASSUME NEW t \in Tunnel, CreateTunnel(t) PROVE Moves
  <2>1. \A r \in Rule : tunnelOf[r] # None => tunnelOf[r] \in Tunnel /\ tunnelOf[r] # t
    BY <1>1 DEF CreateTunnel, RulesHoused, TunnelsApart, HasPorts
  <2> QED
    BY <1>1, <2>1 DEF CreateTunnel
<1>2. ASSUME NEW t \in Tunnel, DeleteTunnel(t) PROVE Moves
  BY <1>2 DEF DeleteTunnel
<1>3. ASSUME NEW t \in Tunnel, NEW q \in Rule, CreateRule(q, t) PROVE Moves
  BY <1>3 DEF CreateRule, RulesHoused
<1>4. ASSUME NEW q \in Rule, DeleteRule(q) PROVE Moves
  BY <1>4 DEF DeleteRule
<1> QED
  BY <1>1, <1>2, <1>3, <1>4 DEF PanelStep

LEMMA RightKept ==
  ASSUME RouteInv, Moves, NEW n \in Node, NEW p \in PartRows, Right(n, p)
  PROVE  Right(n, p)'
<1>1. p.rule \in Rule /\ p.rule \in created.rules /\ p.rule \in created'.rules
  BY DEF Right, Moves, PartRows
<1>2. CASE tunnelOf'[p.rule] = None
  BY <1>1, <1>2 DEF Right
<1>3. CASE tunnelOf'[p.rule] # None
  <2>1. tunnelOf[p.rule] # None /\ tunnelOf'[p.rule] = tunnelOf[p.rule]
        /\ inter'[tunnelOf[p.rule]] = inter[tunnelOf[p.rule]]
    BY <1>1, <1>3 DEF Moves
  <2>2. n \in Hops(tunnelOf[p.rule]) /\ p = PartFor(p.rule, tunnelOf[p.rule], n)
    BY <2>1 DEF Right
  <2> DEFINE t == tunnelOf[p.rule]
  <2>3. PartFor(p.rule, t, n) = Split(p.rule, t, CHOOSE i \in DOMAIN Chain[t] : Chain[t][i] = n)
    BY DEF PartFor
  <2>4. PartFor(p.rule, tunnelOf[p.rule], n)' = PartFor(p.rule, t, n)
    BY <2>1 DEF PartFor, Split
  <2> QED
    BY <1>1, <2>1, <2>2, <2>4 DEF Right
<1> QED
  BY <1>2, <1>3

\* What a step of the panel puts on the way: right parts of rules, and for a rule that
\* is deleted the command that ends it.
Queues(n) ==
  \/ inbox'[n] = inbox[n]
  \/ /\ n \in online
     /\ \E c \in Commands :
          /\ inbox'[n] = Append(inbox[n], c)
          /\ c.op = "apply" => Right(n, c.part)' /\ c.part.rule \in RulesAt(n)'
EndsDeleted(n) ==
  \A r \in RulesAt(n) : n \in online /\ r \notin RulesAt(n)' =>
     inbox'[n] = Append(inbox[n], RemoveRule(r))

LEMMA QueuesKeepParts ==
  ASSUME RouteInv, Moves, NEW n \in Node, Queues(n)
  PROVE  ComesRight(n)' /\ \A r \in Rule : RunsRight(n, r)' /\ RetriesRight(n, r)'
<1>1. inbox[n] \in Seq(Commands) /\ part' = part /\ pending' = pending
  BY DEF RouteInv, RouteTypes, Moves
<1>2. ASSUME NEW p \in PartRows, Right(n, p) PROVE Right(n, p)'
  BY <1>2, RightKept
<1>3. ComesRight(n) /\ \A r \in Rule : RunsRight(n, r) /\ RetriesRight(n, r)
  BY DEF RouteInv, PartsRight
<1>4. ASSUME NEW p \in PartRows, NEW i \in DOMAIN inbox'[n], inbox'[n][i] = ApplyRule(p)
      PROVE  Right(n, p)'
  <2>1. CASE inbox'[n] = inbox[n]
    BY <1>2, <1>3, <1>4, <2>1 DEF ComesRight
  <2>2. ASSUME NEW c \in Commands, inbox'[n] = Append(inbox[n], c), c.op = "apply" => Right(n, c.part)'
        PROVE  Right(n, p)'
    <3>1. CASE i \in DOMAIN inbox[n]
      BY <1>1, <1>2, <1>3, <1>4, <2>2, <3>1, AppendFacts DEF ComesRight
    <3>2. CASE i = Len(inbox[n]) + 1
      <4>1. c = ApplyRule(p)
        BY <1>1, <1>4, <2>2, <3>2, AppendFacts
      <4> QED
        BY <2>2, <4>1, CommandFacts
    <3> QED
      BY <1>1, <2>2, <3>1, <3>2, AppendFacts
  <2> QED
    BY <2>1, <2>2 DEF Queues
<1>5. ComesRight(n)'
  BY <1>4 DEF ComesRight
<1>6. ASSUME NEW r \in Rule PROVE RunsRight(n, r)' /\ RetriesRight(n, r)'
  BY <1>1, <1>2, <1>3 DEF RunsRight, RetriesRight
<1> QED
  BY <1>5, <1>6

LEMMA QueuesDoom ==
  ASSUME RouteInv, Moves, NEW n \in online, Queues(n), EndsDeleted(n), NEW r \in Rule, r \notin RulesAt(n)'
  PROVE  Doomed(n, r)'
<1>1. inbox[n] \in Seq(Commands) /\ part' = part /\ pending' = pending /\ n \in Node
  BY DEF RouteInv, RouteTypes, Moves
<1>2. CASE r \in RulesAt(n)
  <2>1. inbox'[n] = Append(inbox[n], RemoveRule(r)) /\ RemoveRule(r) \in Commands
    BY <1>2, CommandFacts DEF EndsDeleted
  <2> DEFINE e == Len(inbox[n]) + 1
  <2>2. e \in DOMAIN inbox'[n] /\ inbox'[n][e] = RemoveRule(r)
        /\ \A i \in DOMAIN inbox'[n] : inbox'[n][i].op = "apply" => i < e
    BY <1>1, <2>1, AppendFacts DEF RemoveRule
  <2> HIDE DEF e
  <2> QED
    BY <2>2 DEF Doomed, EndsAt
<1>3. CASE r \notin RulesAt(n)
  <2>1. Doomed(n, r)
    BY <1>3 DEF RouteInv, RestDoomed
  <2>2. CASE inbox'[n] = inbox[n]
    BY <1>1, <2>1, <2>2 DEF Doomed, EndsAt, LeavesOut
  <2>3. ASSUME NEW c \in Commands, inbox'[n] = Append(inbox[n], c), c.op = "apply" => c.part.rule \in RulesAt(n)'
        PROVE  Doomed(n, r)'
    <3>1. /\ \A i \in DOMAIN inbox[n] : i \in DOMAIN inbox'[n] /\ inbox'[n][i] = inbox[n][i]
          /\ \A i \in DOMAIN inbox'[n] : i \in DOMAIN inbox[n] \/ inbox'[n][i] = c
      BY <1>1, <2>3, AppendFacts
    <3>2. \A i \in DOMAIN inbox'[n] : inbox'[n][i].op = "apply" /\ inbox'[n][i].part.rule = r => i \in DOMAIN inbox[n]
      BY <2>3, <3>1
    <3>3. \A i \in DOMAIN inbox'[n] : inbox'[n][i].op = "apply" /\ inbox'[n][i].part.rule = r =>
            \E j \in DOMAIN inbox'[n] : j > i /\ EndsAt(n, r, j)'
      BY <2>1, <3>1, <3>2 DEF Doomed, EndsAt
    <3>4. pending'[n][r] # NoRetry => \E i \in DOMAIN inbox'[n] : EndsAt(n, r, i)'
      BY <1>1, <2>1, <3>1 DEF Doomed, EndsAt
    <3>5. part'[n][r] # NoPart => \E i \in DOMAIN inbox'[n] : EndsAt(n, r, i)' \/ LeavesOut(n, r, i)'
      BY <1>1, <2>1, <3>1 DEF Doomed, EndsAt, LeavesOut
    <3> QED
      BY <3>3, <3>4, <3>5 DEF Doomed
  <2> QED
    BY <2>2, <2>3 DEF Queues
<1> QED
  BY <1>2, <1>3

\* The four operations of the panel.
Panel(n) == Queues(n) /\ EndsDeleted(n)

LEMMA CreateTunnelKeeps ==
  ASSUME RouteInv, NEW t \in Tunnel, CreateTunnel(t)
  PROVE  RouteTypes' /\ TunnelsApart' /\ RulesHoused' /\ \A n \in Node : Panel(n)
<1> USE DEF CreateTunnel
<1>1. RouteTypes /\ TunnelsApart /\ RulesHoused
  BY DEF RouteInv
<1> DEFINE ports == [n \in Hops(t) |-> IF n = Head(Chain[t]) THEN EntryPort ELSE Min(Port \ Taken(n))]
<1>2. \A n \in Hops(t) : n # Head(Chain[t]) => Min(Port \ Taken(n)) \in Port \ Taken(n)
  BY FirstFree, TunnelAssumption
<1>3. /\ ports \in [Hops(t) -> Port \cup {EntryPort}]
      /\ \A n \in Hops(t) : IF n = Head(Chain[t]) THEN ports[n] = EntryPort ELSE ports[n] \in Port \ Taken(n)
  BY <1>2
<1>4. /\ inter' = [inter EXCEPT ![t] = ports] /\ created' = [created EXCEPT !.tunnels = @ \cup {t}]
      /\ UNCHANGED <<tunnelOf, online, inbox, part, pending>> /\ t \notin created.tunnels
  OBVIOUS
<1> HIDE DEF ports, CreateTunnel
<1>5. /\ inter'[t] = ports /\ \A u \in Tunnel : u # t => inter'[u] = inter[u]
      /\ created'.tunnels = created.tunnels \cup {t} /\ created'.rules = created.rules
  BY <1>1, <1>4 DEF RouteTypes
<1>6. RouteTypes'
  BY <1>1, <1>3, <1>4 DEF RouteTypes
<1>7. \A u \in Tunnel : Live(u) => u # t
  BY <1>1, <1>4 DEF TunnelsApart, HasPorts
<1>8. TunnelsApart'
  <2>1. ASSUME NEW u \in Tunnel, Live(u)' PROVE HasPorts(u)'
    <3>1. CASE u = t
      BY <1>3, <1>5, <3>1 DEF HasPorts
    <3>2. CASE u # t
      BY <1>1, <1>5, <2>1, <3>2 DEF TunnelsApart, HasPorts, Live
    <3> QED
      BY <3>1, <3>2
  <2>2. ASSUME NEW u \in Tunnel, u # t, Live(u), NEW n \in Hops(t) \cap Hops(u),
               n # Head(Chain[t]), n # Head(Chain[u])
        PROVE  ports[n] # inter[u][n]
    BY <1>3, <2>2 DEF Taken
  <2>3. ASSUME NEW u \in Tunnel, NEW v \in Tunnel, Live(u)', Live(v)' PROVE PortsApart(u, v)'
    <3>1. CASE u = t /\ v # t
      BY <1>5, <2>2, <2>3, <3>1 DEF PortsApart, Live
    <3>2. CASE u # t /\ v = t
      BY <1>5, <2>2, <2>3, <3>2 DEF PortsApart, Live
    <3>3. CASE u # t /\ v # t
      BY <1>1, <1>5, <2>3, <3>3 DEF PortsApart, Live, TunnelsApart
    <3>4. CASE u = v
      BY <3>4 DEF PortsApart
    <3> QED
      BY <3>1, <3>2, <3>3, <3>4
  <2> QED
    BY <2>1, <2>3 DEF TunnelsApart
<1>9. RulesHoused'
  <2>1. \A r \in Rule : tunnelOf[r] # None => tunnelOf[r] \in Tunnel /\ Live(tunnelOf[r])
    BY <1>1 DEF RouteTypes, RulesHoused
  <2> QED
    BY <1>1, <1>4, <1>5, <1>7, <2>1 DEF RulesHoused, Live
<1>10. \A n \in Node : Panel(n)
  BY <1>4 DEF Panel, Queues, EndsDeleted, RulesAt
<1> QED
  BY <1>6, <1>8, <1>9, <1>10

LEMMA DeleteTunnelKeeps ==
  ASSUME RouteInv, NEW t \in Tunnel, DeleteTunnel(t)
  PROVE  RouteTypes' /\ TunnelsApart' /\ RulesHoused' /\ \A n \in Node : Panel(n)
<1>1. RouteTypes /\ TunnelsApart /\ RulesHoused
  BY DEF RouteInv
<1>2. /\ inter' = [inter EXCEPT ![t] = <<>>] /\ \A r \in Rule : tunnelOf[r] # t
      /\ UNCHANGED <<created, tunnelOf, online, inbox, part, pending>>
  BY DEF DeleteTunnel
<1>3. inter'[t] = <<>> /\ \A u \in Tunnel : u # t => inter'[u] = inter[u]
  BY <1>1, <1>2 DEF RouteTypes
<1>4. RouteTypes'
  BY <1>1, <1>2 DEF RouteTypes
<1>5. \A u \in Tunnel : Live(u)' => u # t /\ Live(u)
  BY <1>3 DEF Live
<1>6. TunnelsApart'
  BY <1>1, <1>2, <1>3, <1>5 DEF TunnelsApart, HasPorts, PortsApart
<1>7. RulesHoused'
  BY <1>1, <1>2, <1>3 DEF RulesHoused, RouteTypes, Live
<1>8. \A n \in Node : Panel(n)
  BY <1>2 DEF Panel, Queues, EndsDeleted, RulesAt
<1> QED
  BY <1>4, <1>6, <1>7, <1>8

LEMMA CreateRuleKeeps ==
  ASSUME RouteInv, NEW t \in Tunnel, NEW q \in Rule, CreateRule(q, t)
  PROVE  RouteTypes' /\ TunnelsApart' /\ RulesHoused' /\ \A n \in Node : Panel(n)
<1>1. RouteTypes /\ TunnelsApart /\ RulesHoused
  BY DEF RouteInv
<1>2. /\ q \notin created.rules /\ Live(t) /\ (~Shared => \A r \in Rule : tunnelOf[r] # t)
      /\ tunnelOf' = [tunnelOf EXCEPT ![q] = t] /\ created' = [created EXCEPT !.rules = @ \cup {q}]
      /\ inbox' = [n \in Node |-> IF n \in Hops(t) \cap online
                                  THEN Append(inbox[n], ApplyRule(PartFor(q, t, n))) ELSE inbox[n]]
      /\ UNCHANGED <<inter, online, part, pending>>
  BY TunnelAssumption DEF CreateRule
<1>3. /\ tunnelOf'[q] = t /\ \A r \in Rule : r # q => tunnelOf'[r] = tunnelOf[r]
      /\ created'.tunnels = created.tunnels /\ created'.rules = created.rules \cup {q}
  BY <1>1, <1>2 DEF RouteTypes
<1>4. HasPorts(t)
  BY <1>1, <1>2 DEF TunnelsApart
<1>5. \A n \in Hops(t) : PartFor(q, t, n) \in PartRows /\ PartFor(q, t, n).rule = q
  BY <1>4, PartFields
<1>6. \A n \in Node : inbox'[n] \in Seq(Commands)
  BY <1>1, <1>2, <1>5, AppendFacts, CommandFacts DEF RouteTypes
<1>7. RouteTypes'
  <2>1. inbox' \in [Node -> Seq(Commands)]
    BY <1>2, <1>6
  <2> QED
    BY <1>1, <1>2, <2>1 DEF RouteTypes
<1>8. TunnelsApart'
  BY <1>1, <1>2, <1>3 DEF TunnelsApart, HasPorts, PortsApart, Live
<1>9. RulesHoused'
  <2>1. ~Shared => \A r, p \in Rule : tunnelOf'[r] # None /\ tunnelOf'[r] = tunnelOf'[p] => r = p
    BY <1>1, <1>2, <1>3 DEF RulesHoused
  <2>2. \A r \in Rule : tunnelOf'[r] # None => (Live(tunnelOf[r]) /\ r \in created.rules)'
    BY <1>1, <1>2, <1>3 DEF RulesHoused, Live
  <2> QED
    BY <2>1, <2>2 DEF RulesHoused
<1>10. ASSUME NEW n \in Node PROVE Panel(n)
  <2>1. CASE n \notin Hops(t) \cap online
    BY <1>1, <1>2, <1>3, <2>1 DEF Panel, Queues, EndsDeleted, RulesAt, RulesHoused
  <2>2. CASE n \in Hops(t) \cap online
    <3>1. PICK p \in PartRows : p = PartFor(q, t, n)
      BY <1>5, <2>2
    <3>2. inbox'[n] = Append(inbox[n], ApplyRule(p)) /\ ApplyRule(p) \in Commands
          /\ ApplyRule(p).op = "apply" /\ ApplyRule(p).part = p /\ p.rule = q
      BY <1>2, <1>5, <2>2, <3>1, CommandFacts
    <3>3. PartFor(q, t, n)' = PartFor(q, t, n)
      BY <1>2, PartKept
    <3>4. Right(n, p)' /\ q \in RulesAt(n)'
      BY <1>3, <2>2, <3>1, <3>2, <3>3, TunnelAssumption DEF Right, RulesAt
    <3>5. Queues(n)
      BY <2>2, <3>2, <3>4 DEF Queues
    <3>6. EndsDeleted(n)
      BY <1>1, <1>2, <1>3 DEF EndsDeleted, RulesAt, RulesHoused
    <3> QED
      BY <3>5, <3>6 DEF Panel
  <2> QED
    BY <2>1, <2>2
<1> QED
  BY <1>7, <1>8, <1>9, <1>10

LEMMA DeleteRuleKeeps ==
  ASSUME RouteInv, NEW q \in Rule, DeleteRule(q)
  PROVE  RouteTypes' /\ TunnelsApart' /\ RulesHoused' /\ \A n \in Node : Panel(n)
<1>1. RouteTypes /\ TunnelsApart /\ RulesHoused
  BY DEF RouteInv
<1>2. /\ tunnelOf[q] # None /\ tunnelOf' = [tunnelOf EXCEPT ![q] = None]
      /\ inbox' = [n \in Node |-> IF n \in Hops(tunnelOf[q]) \cap online
                                  THEN Append(inbox[n], RemoveRule(q)) ELSE inbox[n]]
      /\ UNCHANGED <<inter, created, online, part, pending>>
  BY DEF DeleteRule
<1>3. tunnelOf'[q] = None /\ \A r \in Rule : r # q => tunnelOf'[r] = tunnelOf[r]
  BY <1>1, <1>2 DEF RouteTypes
<1>4. RouteTypes'
  <2>1. \A n \in Node : inbox'[n] \in Seq(Commands)
    BY <1>1, <1>2, AppendFacts, CommandFacts DEF RouteTypes
  <2>2. inbox' \in [Node -> Seq(Commands)]
    BY <1>2, <2>1
  <2> QED
    BY <1>1, <1>2, <2>2 DEF RouteTypes
<1>5. TunnelsApart'
  BY <1>1, <1>2 DEF TunnelsApart, HasPorts, PortsApart, Live
<1>6. RulesHoused'
  BY <1>1, <1>2, <1>3 DEF RulesHoused, Live
<1>7. ASSUME NEW n \in Node PROVE Panel(n)
  <2>1. Queues(n)
    BY <1>2, CommandFacts DEF Queues, RemoveRule
  <2>2. EndsDeleted(n)
    <3>1. SUFFICES ASSUME NEW r \in RulesAt(n), n \in online, r \notin RulesAt(n)'
                   PROVE  inbox'[n] = Append(inbox[n], RemoveRule(r))
      BY DEF EndsDeleted
    <3>2. r = q
      BY <1>3, <3>1 DEF RulesAt
    <3> QED
      BY <1>2, <3>1, <3>2 DEF RulesAt
  <2> QED
    BY <2>1, <2>2 DEF Panel
<1> QED
  BY <1>4, <1>5, <1>6, <1>7

LEMMA PanelKeeps == ASSUME RouteInv, PanelStep PROVE RouteInv'
<1>1. Moves
  BY RulesMove
<1>2. RouteTypes' /\ TunnelsApart' /\ RulesHoused' /\ \A n \in Node : Panel(n)
  BY CreateTunnelKeeps, DeleteTunnelKeeps, CreateRuleKeeps, DeleteRuleKeeps DEF PanelStep
<1>3. ASSUME NEW n \in Node
      PROVE  ComesRight(n)' /\ \A r \in Rule : RunsRight(n, r)' /\ RetriesRight(n, r)'
  BY <1>1, <1>2, QueuesKeepParts DEF Panel
<1>4. PartsRight'
  BY <1>3 DEF PartsRight
<1>5. online' = online /\ pending' = pending /\ online \subseteq Node
  BY <1>1 DEF Moves, RouteInv, RouteTypes
<1>6. ASSUME NEW n \in online, NEW r \in Rule, r \notin RulesAt(n)' PROVE Doomed(n, r)'
  BY <1>1, <1>2, <1>5, <1>6, QueuesDoom DEF Panel
<1>7. RestDoomed'
  BY <1>5, <1>6 DEF RestDoomed
<1>8. Away'
  BY <1>2, <1>5 DEF RouteInv, Away, Panel, Queues
<1> QED
  BY <1>2, <1>4, <1>7, <1>8 DEF RouteInv
-----------------------------------------------------------------------------
(* The agents. *)

LEMMA PanelRests ==
  ASSUME RouteInv, UNCHANGED panelVars
  PROVE  /\ TunnelsApart' /\ RulesHoused' /\ \A n \in Node : RulesAt(n)' = RulesAt(n)
         /\ \A n \in Node, p \in PartRows : Right(n, p)' = Right(n, p)
<1> USE DEF panelVars
<1>1. TunnelsApart'
  BY DEF RouteInv, TunnelsApart, HasPorts, PortsApart, Live
<1>2. RulesHoused'
  BY DEF RouteInv, RulesHoused, Live
<1>3. \A n \in Node : RulesAt(n)' = RulesAt(n)
  BY DEF RulesAt
<1>4. ASSUME NEW n \in Node, NEW p \in PartRows PROVE Right(n, p)' = Right(n, p)
  BY DEF Right, PartFor, Split
<1> QED
  BY <1>1, <1>2, <1>3, <1>4

\* RuleManager::apply of the right part, the first time or again.
LEMMA ApplyKeeps ==
  ASSUME RouteInv, UNCHANGED panelVars, NEW n \in Node, NEW p \in PartRows, NEW f \in Nat,
         Right(n, p), Apply(n, p, f)
  PROVE  /\ part' \in [Node -> [Rule -> PartRows \cup {NoPart}]] /\ pending' \in [Node -> [Rule -> RetryRows]]
         /\ \A m \in Node, r \in Rule : RunsRight(m, r)' /\ RetriesRight(m, r)'
         /\ \A m \in Node, r \in Rule : m # n \/ r # p.rule =>
              part'[m][r] = part[m][r] /\ pending'[m][r] = pending[m][r]
<1>1. /\ part \in [Node -> [Rule -> PartRows \cup {NoPart}]] /\ pending \in [Node -> [Rule -> RetryRows]]
      /\ \A m \in Node, r \in Rule : RunsRight(m, r) /\ RetriesRight(m, r)
  BY DEF RouteInv, RouteTypes, PartsRight
<1>2. p.rule \in Rule /\ p # NoPart
  BY TunnelAssumption DEF PartRows, NoPart, None
<1>3. PICK l \in {p, NoPart}, t \in {NoRetry, [part |-> p, failures |-> f + 1]} :
        part' = [part EXCEPT ![n][p.rule] = l] /\ pending' = [pending EXCEPT ![n][p.rule] = t]
  BY DEF Apply
<1>4. t \in RetryRows /\ l \in PartRows \cup {NoPart} /\ (t # NoRetry => t.part = p)
  BY <1>3 DEF RetryRows
<1>5. /\ part'[n][p.rule] = l /\ pending'[n][p.rule] = t
      /\ \A m \in Node, r \in Rule : m # n \/ r # p.rule =>
           part'[m][r] = part[m][r] /\ pending'[m][r] = pending[m][r]
  BY <1>1, <1>2, <1>3
<1>6. part' \in [Node -> [Rule -> PartRows \cup {NoPart}]] /\ pending' \in [Node -> [Rule -> RetryRows]]
  BY <1>1, <1>2, <1>3, <1>4
<1>7. ASSUME NEW m \in Node, NEW r \in Rule PROVE RunsRight(m, r)' /\ RetriesRight(m, r)'
  <2>1. NoPart \notin PartRows
    BY TunnelAssumption DEF PartRows, NoPart, None
  <2>2. ASSUME NEW s \in PartRows PROVE Right(m, s)' = Right(m, s)
    BY PanelRests
  <2>3. CASE m # n \/ r # p.rule
    BY <1>1, <1>5, <2>2, <2>3 DEF RunsRight, RetriesRight
  <2>4. CASE m = n /\ r = p.rule
    <3>1. RunsRight(m, r)'
      BY <1>3, <1>5, <2>1, <2>2, <2>4 DEF RunsRight
    <3>2. RetriesRight(m, r)'
      BY <1>4, <1>5, <2>2, <2>4 DEF RetriesRight
    <3> QED
      BY <3>1, <3>2
  <2> QED
    BY <2>3, <2>4
<1> QED
  BY <1>5, <1>6, <1>7

\* What is doomed stays so when the first command is taken, but for what that
\* command does itself.
LEMMA TailDoom ==
  ASSUME NEW n \in Node, NEW r \in Rule, inbox[n] \in Seq(Commands), inbox[n] # <<>>,
         inbox'[n] = Tail(inbox[n]), Doomed(n, r)
  PROVE  /\ \A i \in DOMAIN inbox'[n] : inbox'[n][i].op = "apply" /\ inbox'[n][i].part.rule = r =>
              \E j \in DOMAIN inbox'[n] : j > i /\ EndsAt(n, r, j)'
         /\ \/ inbox[n][1].op = "apply" /\ inbox[n][1].part.rule = r
            \/ pending[n][r] # NoRetry /\ ~EndsAt(n, r, 1)
            => \E i \in DOMAIN inbox'[n] : EndsAt(n, r, i)'
         /\ part[n][r] # NoPart /\ ~EndsAt(n, r, 1) /\ ~LeavesOut(n, r, 1) =>
              \E i \in DOMAIN inbox'[n] : EndsAt(n, r, i)' \/ LeavesOut(n, r, i)'
<1>1. /\ DOMAIN inbox[n] = 1..Len(inbox[n]) /\ Len(inbox[n]) \in Nat /\ Len(inbox[n]) >= 1
      /\ DOMAIN inbox'[n] = 1..(Len(inbox[n]) - 1)
      /\ \A i \in DOMAIN inbox'[n] : i + 1 \in DOMAIN inbox[n] /\ inbox'[n][i] = inbox[n][i + 1]
      /\ \A i \in DOMAIN inbox[n] : i > 1 => i - 1 \in DOMAIN inbox'[n] /\ inbox'[n][i - 1] = inbox[n][i]
  BY TailFacts
<1>2. ASSUME NEW j \in DOMAIN inbox[n], j > 1, EndsAt(n, r, j)
      PROVE  j - 1 \in DOMAIN inbox'[n] /\ EndsAt(n, r, j - 1)'
  BY <1>1, <1>2 DEF EndsAt
<1>3. ASSUME NEW j \in DOMAIN inbox[n], j > 1, LeavesOut(n, r, j)
      PROVE  j - 1 \in DOMAIN inbox'[n] /\ LeavesOut(n, r, j - 1)'
  BY <1>1, <1>3 DEF LeavesOut
<1>4. ASSUME NEW i \in DOMAIN inbox'[n], inbox'[n][i].op = "apply", inbox'[n][i].part.rule = r
      PROVE  \E j \in DOMAIN inbox'[n] : j > i /\ EndsAt(n, r, j)'
  <2>1. PICK j \in DOMAIN inbox[n] : j > i + 1 /\ EndsAt(n, r, j)
    BY <1>1, <1>4 DEF Doomed
  <2>2. j > 1 /\ j - 1 > i
    BY <1>1, <2>1
  <2> QED
    BY <1>2, <2>1, <2>2
<1>5. ASSUME \/ inbox[n][1].op = "apply" /\ inbox[n][1].part.rule = r
             \/ pending[n][r] # NoRetry /\ ~EndsAt(n, r, 1)
      PROVE  \E i \in DOMAIN inbox'[n] : EndsAt(n, r, i)'
  <2>1. PICK j \in DOMAIN inbox[n] : j # 1 /\ EndsAt(n, r, j)
    BY <1>1, <1>5 DEF Doomed
  <2>2. j > 1
    BY <1>1, <2>1
  <2> QED
    BY <1>2, <2>1, <2>2
<1>6. ASSUME part[n][r] # NoPart, ~EndsAt(n, r, 1), ~LeavesOut(n, r, 1)
      PROVE  \E i \in DOMAIN inbox'[n] : EndsAt(n, r, i)' \/ LeavesOut(n, r, i)'
  <2>1. PICK j \in DOMAIN inbox[n] : EndsAt(n, r, j) \/ LeavesOut(n, r, j)
    BY <1>6 DEF Doomed
  <2>2. j > 1
    BY <1>1, <1>6, <2>1
  <2> QED
    BY <1>2, <1>3, <2>1, <2>2
<1> QED
  BY <1>4, <1>5, <1>6

\* handle_command, command by command.
Takes(n) ==
  \/ \E p \in PartRows : inbox[n][1] = ApplyRule(p) /\ Apply(n, p, 0)
  \/ \E r \in Rule : /\ inbox[n][1] = RemoveRule(r)
                     /\ part' = [part EXCEPT ![n][r] = NoPart]
                     /\ pending' = [pending EXCEPT ![n][r] = NoRetry]
  \/ \E k \in SUBSET Rule :
       /\ inbox[n][1] = ReconcileRules(k) /\ pending' = pending
       /\ part' = [part EXCEPT ![n] = [r \in Rule |-> IF r \in k THEN part[n][r] ELSE NoPart]]

LEMMA ReceiveTakes == ASSUME RouteInv, NEW n \in Node, Receive(n) PROVE Takes(n)
<1>1. inbox[n] \in Seq(Commands) /\ inbox[n] # <<>>
      /\ part \in [Node -> [Rule -> PartRows \cup {NoPart}]]
  BY DEF RouteInv, RouteTypes, Receive
<1>2. Head(inbox[n]) = inbox[n][1] /\ inbox[n][1] \in Commands
  BY <1>1, TailFacts
<1> DEFINE cmd == Head(inbox[n])
<1>3. CASE cmd.op = "apply"
  <2>1. PICK p \in PartRows : cmd = ApplyRule(p) /\ cmd.part = p
    BY <1>2, <1>3 DEF Commands, ApplyRule
  <2>2. Apply(n, cmd.part, 0)
    BY <1>3 DEF Receive
  <2> QED
    BY <1>2, <2>1, <2>2 DEF Takes
<1>4. CASE cmd.op = "remove"
  <2>1. PICK r \in Rule : cmd = RemoveRule(r) /\ cmd.rule = r
    BY <1>2, <1>4 DEF Commands, RemoveRule
  <2> QED
    BY <1>2, <1>4, <2>1 DEF Receive, Takes
<1>5. CASE cmd.op = "reconcile"
  <2>1. PICK k \in SUBSET Rule : cmd = ReconcileRules(k) /\ cmd.keep = k
    BY <1>2, <1>5 DEF Commands, ReconcileRules
  <2>2. pending' = pending /\ part' = [part EXCEPT ![n] = [r \in Rule |-> IF r \in k THEN part[n][r] ELSE NoPart]]
    BY <1>1, <1>5, <2>1 DEF Receive
  <2> QED
    BY <1>2, <2>1, <2>2 DEF Takes
<1> QED
  BY <1>2, <1>3, <1>4, <1>5 DEF Commands

LEMMA ReceiveKeeps == ASSUME RouteInv, NEW n \in Node, Receive(n) PROVE RouteInv'
<1>1. /\ inbox[n] \in Seq(Commands) /\ inbox[n] # <<>> /\ inbox' = [inbox EXCEPT ![n] = Tail(@)]
      /\ UNCHANGED panelVars /\ online' = online /\ online \subseteq Node
      /\ inbox \in [Node -> Seq(Commands)]
      /\ part \in [Node -> [Rule -> PartRows \cup {NoPart}]] /\ pending \in [Node -> [Rule -> RetryRows]]
  BY DEF RouteInv, RouteTypes, Receive
<1>2. /\ inbox'[n] = Tail(inbox[n]) /\ \A m \in Node : m # n => inbox'[m] = inbox[m]
      /\ inbox' \in [Node -> Seq(Commands)]
      /\ 1 \in DOMAIN inbox[n]
      /\ \A i \in DOMAIN inbox'[n] : i + 1 \in DOMAIN inbox[n] /\ inbox'[n][i] = inbox[n][i + 1]
  BY <1>1, TailFacts
<1>3. n \in online
  BY <1>1 DEF RouteInv, Away
<1>4. /\ \A m \in Node, r \in Rule : RunsRight(m, r) /\ RetriesRight(m, r)
      /\ \A m \in Node : ComesRight(m)
      /\ \A m \in Node, p \in PartRows : Right(m, p)' = Right(m, p)
  BY <1>1, PanelRests DEF RouteInv, PartsRight
<1> DEFINE Result ==
      /\ part' \in [Node -> [Rule -> PartRows \cup {NoPart}]] /\ pending' \in [Node -> [Rule -> RetryRows]]
      /\ \A m \in Node, r \in Rule : RunsRight(m, r)' /\ RetriesRight(m, r)'
      /\ \A m \in Node, r \in Rule : m # n => part'[m][r] = part[m][r] /\ pending'[m][r] = pending[m][r]
      /\ \A r \in Rule :
           \/ /\ inbox[n][1].op = "apply" /\ inbox[n][1].part.rule = r
           \/ /\ pending'[n][r] # NoRetry => pending[n][r] # NoRetry /\ ~EndsAt(n, r, 1)
              /\ part'[n][r] # NoPart => part[n][r] # NoPart /\ ~EndsAt(n, r, 1) /\ ~LeavesOut(n, r, 1)
<1>5. Result
  <2>1. ASSUME NEW p \in PartRows, inbox[n][1] = ApplyRule(p), Apply(n, p, 0) PROVE Result
    <3>1. Right(n, p)
      BY <1>2, <1>4, <2>1 DEF ComesRight
    <3>2. inbox[n][1].op = "apply" /\ inbox[n][1].part = p
      BY <2>1, CommandFacts
    <3>3. /\ part' \in [Node -> [Rule -> PartRows \cup {NoPart}]] /\ pending' \in [Node -> [Rule -> RetryRows]]
          /\ \A m \in Node, r \in Rule : RunsRight(m, r)' /\ RetriesRight(m, r)'
          /\ \A m \in Node, r \in Rule : m # n \/ r # p.rule =>
               part'[m][r] = part[m][r] /\ pending'[m][r] = pending[m][r]
      BY <1>1, <2>1, <3>1, ApplyKeeps
    <3>4. \A r \in Rule : ~EndsAt(n, r, 1) /\ ~LeavesOut(n, r, 1)
      BY <3>2 DEF EndsAt, LeavesOut, RemoveRule
    <3> QED
      BY <3>2, <3>3, <3>4
  <2>2. ASSUME NEW q \in Rule, inbox[n][1] = RemoveRule(q), part' = [part EXCEPT ![n][q] = NoPart],
               pending' = [pending EXCEPT ![n][q] = NoRetry]
        PROVE  Result
    <3>1. NoPart \notin PartRows /\ NoRetry \in RetryRows
      BY TunnelAssumption DEF PartRows, NoPart, None, RetryRows
    <3>2. /\ part'[n][q] = NoPart /\ pending'[n][q] = NoRetry
          /\ \A m \in Node, r \in Rule : m # n \/ r # q =>
               part'[m][r] = part[m][r] /\ pending'[m][r] = pending[m][r]
          /\ part' \in [Node -> [Rule -> PartRows \cup {NoPart}]] /\ pending' \in [Node -> [Rule -> RetryRows]]
      BY <1>1, <2>2, <3>1
    <3>3. \A m \in Node, r \in Rule : RunsRight(m, r)' /\ RetriesRight(m, r)'
      BY <1>4, <3>1, <3>2 DEF RunsRight, RetriesRight
    <3>4. \A r \in Rule : r # q => ~EndsAt(n, r, 1) /\ ~LeavesOut(n, r, 1)
      BY <2>2 DEF EndsAt, LeavesOut, RemoveRule
    <3> QED
      BY <3>2, <3>3, <3>4
  <2>3. ASSUME NEW k \in SUBSET Rule, inbox[n][1] = ReconcileRules(k), pending' = pending,
               part' = [part EXCEPT ![n] = [r \in Rule |-> IF r \in k THEN part[n][r] ELSE NoPart]]
        PROVE  Result
    <3>1. NoPart \notin PartRows
      BY TunnelAssumption DEF PartRows, NoPart, None
    <3>2. /\ \A r \in Rule : part'[n][r] = IF r \in k THEN part[n][r] ELSE NoPart
          /\ \A m \in Node, r \in Rule : m # n => part'[m][r] = part[m][r]
          /\ part' \in [Node -> [Rule -> PartRows \cup {NoPart}]]
      BY <1>1, <2>3
    <3>3. \A m \in Node, r \in Rule : RunsRight(m, r)' /\ RetriesRight(m, r)'
      BY <1>4, <2>3, <3>1, <3>2 DEF RunsRight, RetriesRight
    <3>4. \A r \in Rule : ~EndsAt(n, r, 1) /\ (r \in k => ~LeavesOut(n, r, 1))
      <4>1. inbox[n][1].op = "reconcile" /\ inbox[n][1].keep = k
        BY <2>3, CommandFacts
      <4>2. \A r \in Rule : RemoveRule(r).op = "remove"
        BY CommandFacts
      <4> QED
        BY <4>1, <4>2 DEF EndsAt, LeavesOut
    <3> QED
      BY <1>1, <2>3, <3>2, <3>3, <3>4
  <2> QED
    BY <2>1, <2>2, <2>3, ReceiveTakes DEF Takes
<1>6. RouteTypes'
  BY <1>1, <1>2, <1>5 DEF RouteInv, RouteTypes, panelVars
<1>7. PartsRight'
  <2>1. ASSUME NEW m \in Node, NEW p \in PartRows, NEW i \in DOMAIN inbox'[m], inbox'[m][i] = ApplyRule(p)
        PROVE  Right(m, p)'
    <3>1. \E j \in DOMAIN inbox[m] : inbox[m][j] = ApplyRule(p)
      BY <1>2, <2>1
    <3>2. Right(m, p)
      BY <1>4, <3>1 DEF ComesRight
    <3> QED
      BY <1>4, <3>2
  <2>2. \A m \in Node : ComesRight(m)'
    BY <2>1 DEF ComesRight
  <2> QED
    BY <1>5, <2>2 DEF PartsRight
<1>8. RestDoomed'
  <2>1. SUFFICES ASSUME NEW m \in online, NEW r \in Rule, r \notin RulesAt(m) PROVE Doomed(m, r)'
    BY <1>1, PanelRests DEF RestDoomed
  <2>2. Doomed(m, r)
    BY <2>1 DEF RouteInv, RestDoomed
  <2>3. CASE m # n
    BY <1>1, <1>2, <1>5, <2>1, <2>2, <2>3 DEF Doomed, EndsAt, LeavesOut
  <2>4. CASE m = n
    <3>1. /\ \A i \in DOMAIN inbox'[n] : inbox'[n][i].op = "apply" /\ inbox'[n][i].part.rule = r =>
               \E j \in DOMAIN inbox'[n] : j > i /\ EndsAt(n, r, j)'
          /\ \/ inbox[n][1].op = "apply" /\ inbox[n][1].part.rule = r
             \/ pending[n][r] # NoRetry /\ ~EndsAt(n, r, 1)
             => \E i \in DOMAIN inbox'[n] : EndsAt(n, r, i)'
          /\ part[n][r] # NoPart /\ ~EndsAt(n, r, 1) /\ ~LeavesOut(n, r, 1) =>
               \E i \in DOMAIN inbox'[n] : EndsAt(n, r, i)' \/ LeavesOut(n, r, i)'
      BY <1>1, <1>2, <2>2, <2>4, TailDoom
    <3>2. pending'[n][r] # NoRetry => \E i \in DOMAIN inbox'[n] : EndsAt(n, r, i)'
      BY <1>5, <3>1
    <3>3. part'[n][r] # NoPart => \E i \in DOMAIN inbox'[n] : EndsAt(n, r, i)' \/ LeavesOut(n, r, i)'
      BY <1>5, <3>1
    <3> QED
      BY <2>4, <3>1, <3>2, <3>3 DEF Doomed
  <2> QED
    BY <2>3, <2>4
<1>9. Away'
  BY <1>1, <1>2, <1>3, <1>5 DEF RouteInv, Away
<1> QED
  BY <1>1, <1>6, <1>7, <1>8, <1>9, PanelRests DEF RouteInv

LEMMA RetryKeeps == ASSUME RouteInv, NEW n \in Node, NEW q \in Rule, RetryDue(n, q) PROVE RouteInv'
<1>1. /\ UNCHANGED panelVars /\ online' = online /\ inbox' = inbox /\ n \in online /\ inbox[n] = <<>>
      /\ pending[n][q] # NoRetry /\ Apply(n, pending[n][q].part, pending[n][q].failures)
      /\ pending[n][q] \in RetryRows
  BY DEF RetryDue, RouteInv, RouteTypes
<1>2. PICK p \in PartRows, f \in Nat : p = pending[n][q].part /\ f = pending[n][q].failures
  BY <1>1 DEF RetryRows
<1>3. p.rule = q /\ Right(n, p) /\ Apply(n, p, f)
  BY <1>1, <1>2 DEF RouteInv, PartsRight, RetriesRight
<1>4. /\ part' \in [Node -> [Rule -> PartRows \cup {NoPart}]] /\ pending' \in [Node -> [Rule -> RetryRows]]
      /\ \A m \in Node, r \in Rule : RunsRight(m, r)' /\ RetriesRight(m, r)'
      /\ \A m \in Node, r \in Rule : m # n \/ r # q =>
           part'[m][r] = part[m][r] /\ pending'[m][r] = pending[m][r]
  BY <1>1, <1>3, ApplyKeeps
<1>5. RouteTypes'
  BY <1>1, <1>4 DEF RouteInv, RouteTypes, panelVars
<1>6. PartsRight'
  <2>1. \A m \in Node, p1 \in PartRows : Right(m, p1)' = Right(m, p1)
    BY <1>1, PanelRests
  <2>2. \A m \in Node : ComesRight(m)'
    BY <1>1, <2>1 DEF RouteInv, PartsRight, ComesRight
  <2> QED
    BY <1>4, <2>2 DEF PartsRight
<1>7. RestDoomed'
  <2>1. SUFFICES ASSUME NEW m \in online, NEW r \in Rule, r \notin RulesAt(m) PROVE Doomed(m, r)'
    BY <1>1, PanelRests DEF RestDoomed, RouteInv, RouteTypes
  <2>2. Doomed(m, r) /\ m \in Node
    BY <2>1 DEF RouteInv, RestDoomed, RouteTypes
  <2>3. ~(m = n /\ r = q)
    BY <1>1, <2>2 DEF Doomed
  <2> QED
    BY <1>1, <1>4, <2>2, <2>3 DEF Doomed, EndsAt, LeavesOut
<1>8. Away'
  BY <1>1, <1>4 DEF RouteInv, Away
<1> QED
  BY <1>1, <1>5, <1>6, <1>7, <1>8, PanelRests DEF RouteInv

LEMMA DisconnectKeeps == ASSUME RouteInv, NEW n \in Node, Disconnect(n) PROVE RouteInv'
<1>1. /\ UNCHANGED <<panelVars, part>> /\ online' = online \ {n}
      /\ inbox' = [inbox EXCEPT ![n] = <<>>] /\ pending' = [pending EXCEPT ![n] = [r \in Rule |-> NoRetry]]
      /\ RouteTypes
  BY DEF Disconnect, RouteInv
<1>2. /\ inbox'[n] = <<>> /\ \A r \in Rule : pending'[n][r] = NoRetry
      /\ \A m \in Node : m # n => inbox'[m] = inbox[m] /\ pending'[m] = pending[m]
  BY <1>1 DEF RouteTypes
<1>3. RouteTypes'
  <2>1. [r \in Rule |-> NoRetry] \in [Rule -> RetryRows] /\ <<>> \in Seq(Commands)
    BY DEF RetryRows
  <2> QED
    BY <1>1, <2>1 DEF RouteTypes, panelVars
<1>4. PartsRight'
  <2>1. \A m \in Node, p \in PartRows : Right(m, p)' = Right(m, p)
    BY <1>1, PanelRests
  <2> QED
    BY <1>1, <1>2, <2>1 DEF RouteInv, PartsRight, ComesRight, RunsRight, RetriesRight
<1>5. RestDoomed'
  <2>1. SUFFICES ASSUME NEW m \in online, m # n, NEW r \in Rule, r \notin RulesAt(m) PROVE Doomed(m, r)'
    BY <1>1, PanelRests DEF RestDoomed, RouteTypes
  <2>2. Doomed(m, r) /\ m \in Node
    BY <1>1, <2>1 DEF RouteInv, RestDoomed, RouteTypes
  <2> QED
    BY <1>1, <1>2, <2>1, <2>2 DEF Doomed, EndsAt, LeavesOut
<1>6. Away'
  BY <1>1, <1>2 DEF RouteInv, Away
<1> QED
  BY <1>1, <1>3, <1>4, <1>5, <1>6, PanelRests DEF RouteInv

LEMMA ReplayFacts ==
  ASSUME RouteInv, NEW n \in Node, NEW ids \in Listings(RulesAt(n))
  PROVE  /\ Replay(n, ids) \in Seq(Commands)
         /\ \E e \in DOMAIN Replay(n, ids) : Replay(n, ids)[e] = ReconcileRules(RulesAt(n))
         /\ \A i \in DOMAIN Replay(n, ids) :
              \/ Replay(n, ids)[i] = ReconcileRules(RulesAt(n))
              \/ \E r \in RulesAt(n) : Replay(n, ids)[i] = ApplyRule(PartFor(r, tunnelOf[r], n))
<1>1. RulesAt(n) \in SUBSET Rule /\ Cardinality(RulesAt(n)) \in Nat
  BY TunnelAssumption, FS_Subset, FS_CardinalityType DEF RulesAt
<1> DEFINE N == Cardinality(RulesAt(n))
           s == [i \in DOMAIN ids |-> ApplyRule(PartFor(ids[i], tunnelOf[ids[i]], n))]
<1>2. N \in Nat /\ DOMAIN ids = 1..N /\ \A i \in 1..N : ids[i] \in RulesAt(n)
  BY <1>1 DEF Listings
<1>3. \A r \in RulesAt(n) : ApplyRule(PartFor(r, tunnelOf[r], n)) \in Commands
  <2>1. SUFFICES ASSUME NEW r \in RulesAt(n) PROVE ApplyRule(PartFor(r, tunnelOf[r], n)) \in Commands
    OBVIOUS
  <2>2. PICK t \in Tunnel : t = tunnelOf[r] /\ n \in Hops(t) /\ HasPorts(t) /\ r \in Rule
    BY DEF RulesAt, RouteInv, RouteTypes, RulesHoused, TunnelsApart
  <2>3. PartFor(r, t, n) \in PartRows
    BY <2>2, PartFields
  <2> QED
    BY <2>2, <2>3, CommandFacts
<1> HIDE DEF N
<1>4. s \in Seq(Commands) /\ DOMAIN s = 1..N
  BY <1>2, <1>3
<1>5. \A i \in DOMAIN s : s[i] = ApplyRule(PartFor(ids[i], tunnelOf[ids[i]], n)) /\ ids[i] \in RulesAt(n)
  BY <1>2
<1>6. Replay(n, ids) = Append(s, ReconcileRules(RulesAt(n))) /\ ReconcileRules(RulesAt(n)) \in Commands
  BY <1>1, CommandFacts DEF Replay
<1> HIDE DEF s
<1> DEFINE w == Append(s, ReconcileRules(RulesAt(n)))
<1>7. /\ w \in Seq(Commands) /\ Len(s) + 1 \in DOMAIN w /\ w[Len(s) + 1] = ReconcileRules(RulesAt(n))
      /\ \A i \in DOMAIN w : i = Len(s) + 1 \/ (i \in DOMAIN s /\ w[i] = s[i])
  <2> DEFINE c == ReconcileRules(RulesAt(n))
  <2>1. c \in Commands /\ s \in Seq(Commands)
    BY <1>4, <1>6
  <2> HIDE DEF c
  <2>2. /\ Append(s, c) \in Seq(Commands) /\ DOMAIN s = 1..Len(s) /\ Len(s) \in Nat
        /\ DOMAIN Append(s, c) = 1..(Len(s) + 1) /\ Append(s, c)[Len(s) + 1] = c
        /\ \A i \in DOMAIN s : i \in DOMAIN Append(s, c) /\ Append(s, c)[i] = s[i]
    BY <2>1, AppendFacts
  <2>3. w = Append(s, c)
    BY DEF c
  <2> HIDE DEF w
  <2> QED
    BY <2>2, <2>3 DEF c
<1> HIDE DEF w
<1>8. \A i \in DOMAIN w : \/ w[i] = ReconcileRules(RulesAt(n))
                           \/ \E r \in RulesAt(n) : w[i] = ApplyRule(PartFor(r, tunnelOf[r], n))
  BY <1>5, <1>7
<1>9. Replay(n, ids) = w
  BY <1>6 DEF w
<1> QED
  BY <1>7, <1>8, <1>9

LEMMA ConnectKeeps == ASSUME RouteInv, NEW n \in Node, Connect(n) PROVE RouteInv'
<1>1. PICK ids \in Listings(RulesAt(n)) : inbox' = [inbox EXCEPT ![n] = Replay(n, ids)]
  BY DEF Connect
<1>2. /\ UNCHANGED panelVars /\ part' = part /\ pending' = pending /\ online' = online \cup {n}
      /\ n \notin online /\ RouteTypes /\ \A r \in Rule : pending[n][r] = NoRetry
  BY DEF Connect, RouteInv, Away
<1> DEFINE w == Replay(n, ids)
<1>3. /\ w \in Seq(Commands)
      /\ \E e \in DOMAIN w : w[e] = ReconcileRules(RulesAt(n))
      /\ \A i \in DOMAIN w : \/ w[i] = ReconcileRules(RulesAt(n))
                             \/ \E r \in RulesAt(n) : w[i] = ApplyRule(PartFor(r, tunnelOf[r], n))
  BY ReplayFacts
<1> HIDE DEF w
<1>4. inbox'[n] = w /\ \A m \in Node : m # n => inbox'[m] = inbox[m]
  BY <1>1, <1>2 DEF w, RouteTypes
<1>5. RouteTypes'
  BY <1>1, <1>2, <1>3 DEF w, RouteTypes, panelVars
<1>6. ASSUME NEW r \in RulesAt(n)
      PROVE  \E p \in PartRows : /\ p = PartFor(r, tunnelOf[r], n) /\ p.rule = r /\ Right(n, p)
                                 /\ ApplyRule(p).op = "apply" /\ ApplyRule(p).part = p
  <2>1. PICK t \in Tunnel : t = tunnelOf[r] /\ n \in Hops(t) /\ HasPorts(t) /\ r \in Rule /\ r \in created.rules
    BY DEF RulesAt, RouteInv, RouteTypes, RulesHoused, TunnelsApart
  <2>2. PICK p \in PartRows : p = PartFor(r, t, n) /\ p.rule = r
    BY <2>1, PartFields
  <2> QED
    BY <2>1, <2>2, CommandFacts DEF Right
<1>7. PartsRight'
  <2>1. \A m \in Node, p \in PartRows : Right(m, p)' = Right(m, p)
    BY <1>2, PanelRests
  <2>2. \A m \in Node, r \in Rule : RunsRight(m, r)' /\ RetriesRight(m, r)'
    BY <1>2, <2>1 DEF RouteInv, PartsRight, RunsRight, RetriesRight
  <2>3. ASSUME NEW p \in PartRows, NEW i \in DOMAIN w, w[i] = ApplyRule(p) PROVE Right(n, p)
    <3>1. ApplyRule(p).op = "apply" /\ ApplyRule(p).part = p /\ ReconcileRules(RulesAt(n)).op = "reconcile"
      BY CommandFacts DEF RulesAt
    <3>2. PICK r \in RulesAt(n) : w[i] = ApplyRule(PartFor(r, tunnelOf[r], n))
      BY <1>3, <2>3, <3>1
    <3> QED
      BY <1>6, <2>3, <3>1, <3>2
  <2>4. \A m \in Node : ComesRight(m)'
    BY <1>4, <2>1, <2>3 DEF RouteInv, PartsRight, ComesRight
  <2> QED
    BY <2>2, <2>4 DEF PartsRight
<1>8. RestDoomed'
  <2>1. SUFFICES ASSUME NEW m \in online \cup {n}, NEW r \in Rule, r \notin RulesAt(m) PROVE Doomed(m, r)'
    BY <1>2, PanelRests DEF RestDoomed, RouteTypes
  <2>2. CASE m # n
    <3>1. Doomed(m, r) /\ inbox'[m] = inbox[m] /\ part' = part /\ pending' = pending
      BY <1>2, <1>4, <2>1, <2>2 DEF RouteInv, RestDoomed, RouteTypes
    <3> QED
      BY <3>1 DEF Doomed, EndsAt, LeavesOut
  <2>3. CASE m = n
    <3>1. ReconcileRules(RulesAt(n)).op = "reconcile" /\ ReconcileRules(RulesAt(n)).keep = RulesAt(n)
      BY CommandFacts DEF RulesAt
    <3>2. \A i \in DOMAIN w : ~(w[i].op = "apply" /\ w[i].part.rule = r)
      BY <1>3, <1>6, <2>1, <2>3, <3>1
    <3>3. \E e \in DOMAIN w : w[e].op = "reconcile" /\ r \notin w[e].keep
      BY <1>3, <2>1, <2>3, <3>1
    <3> QED
      BY <1>2, <1>4, <2>3, <3>2, <3>3 DEF Doomed, EndsAt, LeavesOut
  <2> QED
    BY <2>2, <2>3
<1>9. Away'
  BY <1>2, <1>4 DEF RouteInv, Away
<1> QED
  BY <1>2, <1>5, <1>7, <1>8, <1>9, PanelRests DEF RouteInv

LEMMA RouteInitInv == RouteInit => RouteInv
<1> SUFFICES ASSUME RouteInit PROVE RouteInv
  OBVIOUS
<1> USE DEF RouteInit
<1>1. RouteTypes
  BY DEF RouteTypes, RetryRows
<1>2. TunnelsApart /\ RulesHoused
  BY DEF TunnelsApart, RulesHoused, Live
<1>3. PartsRight
  <2>1. NoPart \notin PartRows
    BY TunnelAssumption DEF PartRows, NoPart, None
  <2> QED
    BY <2>1 DEF PartsRight, ComesRight, RunsRight, RetriesRight
<1>4. RestDoomed /\ Away
  BY DEF RestDoomed, Doomed, Away
<1> QED
  BY <1>1, <1>2, <1>3, <1>4 DEF RouteInv

\* The inductive invariant: ports of tunnels are apart, everything that runs, waits for
\* a retry or is on its way is the right part of its rule, and what is left of a deleted
\* rule on a connected node is about to be ended.
THEOREM RouteInvariant == RouteSpec => []RouteInv
<1>1. ASSUME RouteInv, [RouteNext]_routeVars PROVE RouteInv'
  <2>1. CASE RouteNext
    BY <1>1, <2>1, PanelKeeps, ReceiveKeeps, RetryKeeps, DisconnectKeeps, ConnectKeeps
       DEF RouteNext, PanelStep, AgentStep
  <2>2. CASE UNCHANGED routeVars
    <3>1. UNCHANGED panelVars /\ UNCHANGED <<online, inbox, part, pending>>
      BY <2>2 DEF routeVars, panelVars
    <3>2. RouteTypes' /\ Away'
      BY <1>1, <3>1 DEF RouteInv, RouteTypes, Away, panelVars
    <3>3. PartsRight'
      BY <1>1, <3>1, PanelRests DEF RouteInv, PartsRight, ComesRight, RunsRight, RetriesRight
    <3>4. RestDoomed'
      <4>1. \A n \in Node : RulesAt(n)' = RulesAt(n)
        BY <1>1, <3>1, PanelRests
      <4> QED
        BY <1>1, <3>1, <4>1 DEF RouteInv, RouteTypes, RestDoomed, Doomed, EndsAt, LeavesOut
    <3> QED
      BY <1>1, <3>1, <3>2, <3>3, <3>4, PanelRests DEF RouteInv
  <2> QED
    BY <1>1, <2>1, <2>2
<1> QED
  BY <1>1, RouteInitInv, PTL DEF RouteSpec
-----------------------------------------------------------------------------
(* The properties. *)

LEMMA NothingLeft == RouteInv => NoOrphans
BY DEF RouteInv, RouteTypes, RestDoomed, Doomed, NoOrphans, Settled

\* Once every agent is connected and has read its stream, nothing listens for deleted
\* rules, however many streams broke while they were deleted.
THEOREM NothingOrphaned == RouteSpec => []NoOrphans
BY RouteInvariant, NothingLeft, PTL

\* A listener of a rule that is not deleted dials listeners of its own tunnel only.
LEMMA DialsOwnTunnel ==
  ASSUME RouteInv, Settled, NEW r \in Rule, tunnelOf[r] # None,
         NEW l \in Listeners, l[2] = r, NEW k \in Listeners, Dials(l, k)
  PROVE  k[2] \in Rule /\ tunnelOf[k[2]] = tunnelOf[r]
<1>1. PICK n \in Node, m \in Node, q \in Rule :
        /\ l = <<n, r>> /\ k = <<m, q>> /\ part[n][r] # NoPart /\ part[m][q] # NoPart
  BY DEF Listeners
<1>2. /\ part[n][r] \in PartRows /\ part[n][r].rule = r /\ Right(n, part[n][r])
      /\ part[m][q] \in PartRows /\ part[m][q].rule = q /\ Right(m, part[m][q])
  BY <1>1 DEF RouteInv, RouteTypes, PartsRight, RunsRight
<1>3. tunnelOf[q] # None
  BY <1>1, NothingLeft DEF NoOrphans, RulesAt
<1>4. PICK t \in Tunnel, u \in Tunnel :
        /\ t = tunnelOf[r] /\ u = tunnelOf[q] /\ HasPorts(t) /\ HasPorts(u) /\ PortsApart(t, u)
  BY <1>3 DEF RouteInv, RouteTypes, RulesHoused, TunnelsApart
<1>5. n \in Hops(t) /\ m \in Hops(u) /\ part[n][r] = PartFor(r, t, n) /\ part[m][q] = PartFor(q, u, m)
  BY <1>2, <1>3, <1>4 DEF Right
<1>6. part[n][r].next = m /\ part[n][r].nextPort = part[m][q].port
  BY <1>1 DEF Dials, PartOf
<1>7. m \in Hops(t) /\ m # Head(Chain[t]) /\ part[n][r].nextPort = inter[t][m]
  BY <1>4, <1>5, <1>6, PartFields, TunnelAssumption
<1>8. part[m][q].port = inter[u][m]
  BY <1>4, <1>5, PartFields
<1>9. inter[u][m] \in Port /\ inter[t][m] = inter[u][m]
  BY <1>4, <1>6, <1>7, <1>8 DEF HasPorts
<1>10. m # Head(Chain[u])
  BY <1>4, <1>5, <1>9, TunnelAssumption DEF HasPorts
<1>11. t = u
  BY <1>4, <1>5, <1>7, <1>9, <1>10 DEF PortsApart
<1> QED
  BY <1>1, <1>4, <1>11

\* The listeners of a tunnel hold the entry of its rules and all that they dial.
LEMMA PassesOwnTunnel ==
  ASSUME RouteInv, Settled, NEW r \in Rule, tunnelOf[r] # None, NEW m \in Passed(r)
  PROVE  m[2] \in Rule /\ tunnelOf[m[2]] = tunnelOf[r]
<1> DEFINE S == {l \in Listeners : l[2] \in Rule /\ tunnelOf[l[2]] = tunnelOf[r]}
<1>1. S \in SUBSET Listeners /\ \A l \in Listeners : l = <<Head(Chain[tunnelOf[r]]), r>> => l \in S
  OBVIOUS
<1>2. \A l \in S, k \in Listeners : Dials(l, k) => k \in S
  BY DialsOwnTunnel
<1> HIDE DEF S
<1>3. m \in S
  BY <1>1, <1>2 DEF Passed
<1> QED
  BY <1>3 DEF S

\* The traffic of a rule comes out at the target of a rule of its own tunnel or nowhere.
OwnTunnel ==
  Settled => \A r \in Rule : tunnelOf[r] # None =>
                Reached(r) \subseteq {q \in Rule : tunnelOf[q] = tunnelOf[r]}

\* Also when rules share a tunnel, their traffic never gets into another one: not by the
\* ports that a deleted tunnel left to it, and not by listeners that outlived a rule.
THEOREM TrafficStaysInTunnel == RouteSpec => []OwnTunnel
<1>1. RouteInv => OwnTunnel
  BY PassesOwnTunnel DEF OwnTunnel, Reached
<1> QED
  BY <1>1, RouteInvariant, PTL

\* When no two rules use one tunnel, the traffic of a rule comes out at its own target
\* or nowhere.
THEOREM TrafficStaysOwn == ~Shared => (RouteSpec => []OwnTarget)
<1>1. SUFFICES ASSUME ~Shared PROVE RouteSpec => []OwnTarget
  OBVIOUS
<1>2. ASSUME RouteInv PROVE OwnTarget
  <2> SUFFICES ASSUME Settled, NEW r \in Rule, tunnelOf[r] # None, NEW m \in Passed(r) PROVE m[2] = r
    BY DEF OwnTarget, Reached
  <2> QED
    BY <1>1, <1>2, PassesOwnTunnel DEF RouteInv, RulesHoused
<1> QED
  BY <1>2, RouteInvariant, PTL
=============================================================================
