----------------------------- MODULE Admission -----------------------------
(***************************************************************************)
(* What the panel lets into its tables: create, update, import and delete  *)
(* of rules (routes/rules.rs, routes/rules_io.rs), create and delete of    *)
(* tunnels (routes/tunnels.rs) and delete of a node (routes/nodes.rs).     *)
(*                                                                         *)
(* Each handler checks by one query after another and then writes; no      *)
(* transaction spans a check and the write it admits.  Two unique indexes  *)
(* are left to the database: binding of a rule, inter port of a hop.       *)
(*                                                                         *)
(* One node, one owner, one listen IP.  A tunnel is seen from the node: it *)
(* starts here ("out", the rules on it are here) or ends here ("in", it    *)
(* has an inter port here).  Ports are those of the pool that are not      *)
(* reserved.  Checks of fields, of grants, of a node's status and address  *)
(* are left out: they end a request and write nothing.                     *)
(***************************************************************************)
EXTENDS FiniteSetsExt, Naturals

CONSTANTS
    MaxRules,      \* rule ids are 1..MaxRules
    MaxTunnels,    \* tunnel ids are 1..MaxTunnels
    MaxPort,       \* ports are 1..MaxPort
    Protocols,     \* protocols of rules
    UserQuota,     \* forward_rules_quota of the owner
    TunnelQuota,   \* forward_rules_limit_in_tunnel of his grants
    Handlers,      \* requests that may overlap
    MaxAsked       \* requests in all

ASSUME AdmissionAssumption ==
    /\ {MaxRules, MaxTunnels, MaxPort, UserQuota, TunnelQuota, MaxAsked} \subseteq Nat
    /\ Protocols \subseteq {"tcp", "udp", "tcp_udp"}

VARIABLES
    ruleRow,    \* ruleRow[r]: forward_rules
    tunnelRow,  \* tunnelRow[t]: tunnels with their hop here; rows: the rows of
                \* tunnel_hops are there
    nodeHere,   \* the node is not deleted
    ask,        \* ask[h]: a request: its next step, what it has read or was
                \* given; raced: another one has written since it began
    asked       \* requests so far

admVars == <<ruleRow, tunnelRow, nodeHere, ask, asked>>

RuleIds == 1..MaxRules
TunnelIds == 1..MaxTunnels
Ports == 1..MaxPort
NoRuleRow == [st |-> "none", port |-> 0, proto |-> "tcp", tun |-> 0]
NoTunnelRow == [st |-> "none", way |-> "out", port |-> 0, rows |-> FALSE]
NoAsk == [pc |-> "idle", op |-> "create", id |-> 0, proto |-> "tcp", tun |-> 0, port |-> 0,
          auto |-> FALSE, taken |-> {}, raced |-> FALSE]

ActiveRules == {r \in RuleIds : ruleRow[r].st = "active"}
ActiveTunnels == {t \in TunnelIds : tunnelRow[t].st = "active"}

AdmTypeOK ==
    /\ ruleRow \in [RuleIds -> [st : {"none", "active", "deleted"}, port : 0..MaxPort,
                                proto : Protocols \cup {"tcp"}, tun : 0..MaxTunnels]]
    /\ tunnelRow \in [TunnelIds -> [st : {"none", "active", "deleted"}, way : {"out", "in"},
                                    port : 0..MaxPort, rows : BOOLEAN]]
    /\ \A t \in TunnelIds : tunnelRow[t].rows <=> t \in ActiveTunnels
    /\ nodeHere \in BOOLEAN
    /\ ask \in [Handlers ->
         [pc : {"idle", "node", "hops", "quota", "tunnelQuota", "ports", "interPorts", "exact",
                "conflict", "insert", "move", "hopPort", "insertTunnel", "refs", "dropTunnel",
                "rules", "tunnels", "dropNode"},
          op : {"create", "import", "update", "tunnel"}, id : 0..Max({MaxRules, MaxTunnels}),
          proto : Protocols \cup {"tcp"}, tun : 0..MaxTunnels, port : 0..MaxPort,
          auto : BOOLEAN, taken : SUBSET Ports, raced : BOOLEAN]]
    /\ asked \in 0..MaxAsked

AdmissionInit ==
    /\ ruleRow = [r \in RuleIds |-> NoRuleRow]
    /\ tunnelRow = [t \in TunnelIds |-> NoTunnelRow]
    /\ nodeHere = TRUE
    /\ ask = [h \in Handlers |-> NoAsk]
    /\ asked = 0

At(h, pc) == ask[h].pc = pc
Go(h, pc) == ask' = [ask EXCEPT ![h].pc = pc]
Refused(h) == ask' = [ask EXCEPT ![h] = NoAsk] /\ UNCHANGED <<ruleRow, tunnelRow, nodeHere>>
Reads == UNCHANGED <<ruleRow, tunnelRow, nodeHere>>
\* A request comes in.
Begins(h) == At(h, "idle") /\ asked < MaxAsked /\ asked' = asked + 1
\* h goes on to the step "next" if its check holds, and is refused if not.
Check(h, holds, next) == IF holds THEN Go(h, next) /\ Reads ELSE Refused(h)
\* h has written: the others' reads may be out of date.
Wrote(h) ==
    ask' = [k \in Handlers |-> IF k = h THEN NoAsk
                               ELSE [ask[k] EXCEPT !.raced = ask[k].pc # "idle"]]

-----------------------------------------------------------------------------
(* Rules *)

Clash(p, q) == p # q /\ "tcp_udp" \in {p, q}

\* Mutation: tcp_udp is looked for, but tcp_udp itself looks for nothing.
NoConflictWithBoth(port, proto, exclude) ==
    \A r \in ActiveRules \ {exclude} :
        ruleRow[r].port = port => ~(proto # "tcp_udp" /\ ruleRow[r].proto = "tcp_udp")

\* ensure_no_protocol_conflict: no active rule on the port of a protocol that
\* shares a socket with this one; the same protocol is left to the index.
NoProtocolConflict(port, proto, exclude) ==
    \A r \in ActiveRules \ {exclude} : ruleRow[r].port = port => ~Clash(proto, ruleRow[r].proto)

\* The unique index over node, protocol, IP and port of the active rules.
BindingTaken(port, proto, exclude) ==
    \E r \in ActiveRules \ {exclude} : ruleRow[r].port = port /\ ruleRow[r].proto = proto

\* create, with a port (0: the panel is to choose one) and maybe on a tunnel.
CreateAsked(h, proto, tun, port) ==
    /\ Begins(h)
    /\ ask' = [ask EXCEPT ![h] = [NoAsk EXCEPT !.pc = "node", !.proto = proto, !.tun = tun,
                                     !.port = port, !.auto = (port = 0)]]
    /\ Reads

\* import of one item: never on a tunnel, always with a port, and not subject
\* to the quota of the owner it falls to.
ImportAsked(h, proto, port) ==
    /\ Begins(h)
    /\ ask' = [ask EXCEPT ![h] = [NoAsk EXCEPT !.pc = "node", !.op = "import",
                                     !.proto = proto, !.port = port]]
    /\ Reads

\* update of the listen port.
UpdateAsked(h, r, port) ==
    /\ Begins(h) /\ r \in ActiveRules
    /\ ask' = [ask EXCEPT ![h] = [NoAsk EXCEPT !.pc = "node", !.op = "update", !.id = r,
                                     !.proto = ruleRow[r].proto, !.port = port]]
    /\ Reads

\* All three look for the node.
RuleNode(h) ==
    /\ At(h, "node") /\ ask[h].op # "tunnel"
    /\ Check(h, nodeHere, CASE ask[h].op = "update" -> "conflict"
                            [] ask[h].op = "import" -> "exact"
                            [] ask[h].op = "create" -> IF ask[h].tun = 0 THEN "quota" ELSE "hops")

\* The tunnel has hops, and the first of them is here.
RuleHops(h) ==
    /\ At(h, "hops")
    /\ LET t == ask[h].tun IN
       Check(h, tunnelRow[t].rows /\ tunnelRow[t].way = "out", "quota")

UnderQuota(used, limit) == used < limit

AfterQuota(h) == IF ask[h].auto THEN "ports" ELSE "conflict"

RuleQuota(h) ==
    /\ At(h, "quota")
    /\ Check(h, UnderQuota(Cardinality(ActiveRules), UserQuota),
             IF ask[h].tun = 0 THEN AfterQuota(h) ELSE "tunnelQuota")

OnTunnel(t) == {r \in ActiveRules : ruleRow[r].tun = t}

RuleTunnelQuota(h) ==
    /\ At(h, "tunnelQuota")
    /\ Check(h, UnderQuota(Cardinality(OnTunnel(ask[h].tun)), TunnelQuota), AfterQuota(h))

\* allocate_port: the ports other rules keep this protocol off,
AllocateRules(h) ==
    /\ At(h, "ports")
    /\ LET proto == ask[h].proto
           blocking == {r \in ActiveRules : \/ ruleRow[r].proto = proto
                                            \/ Clash(proto, ruleRow[r].proto)}
       IN ask' = [ask EXCEPT ![h].pc = "interPorts",
                             ![h].taken = {ruleRow[r].port : r \in blocking}]
    /\ Reads

InterPorts == {tunnelRow[t].port : t \in ActiveTunnels} \ {0}

\* then the inter ports here, and the smallest port of neither.
AllocateInterPorts(h) ==
    /\ At(h, "interPorts")
    /\ LET free == (Ports \ ask[h].taken) \ InterPorts IN
       IF free = {} THEN Refused(h)
       ELSE /\ ask' = [ask EXCEPT ![h].pc = "conflict", ![h].port = Min(free), ![h].taken = {}]
            /\ Reads

\* plan_item: a rule with this very binding is skipped or overwritten, which
\* changes nothing that matters here.
ImportExact(h) ==
    /\ At(h, "exact")
    /\ Check(h, ~BindingTaken(ask[h].port, ask[h].proto, 0), "conflict")

RuleConflict(h) ==
    /\ At(h, "conflict")
    /\ Check(h, NoProtocolConflict(ask[h].port, ask[h].proto, ask[h].id),
             IF ask[h].op = "update" THEN "move" ELSE "insert")

\* Rule::create.  The ids of the table are used in turn.
RuleInsert(h) ==
    LET unused == {r \in RuleIds : ruleRow[r].st = "none"} IN
    /\ At(h, "insert") /\ unused # {}
    /\ IF BindingTaken(ask[h].port, ask[h].proto, 0) THEN Refused(h)
       ELSE /\ ruleRow' = [ruleRow EXCEPT ![Min(unused)] =
                  [st |-> "active", port |-> ask[h].port, proto |-> ask[h].proto,
                   tun |-> ask[h].tun]]
            /\ Wrote(h)
            /\ UNCHANGED <<tunnelRow, nodeHere>>

\* Rule::update_fields; a rule deleted meanwhile is not found.
RuleMove(h) ==
    LET r == ask[h].id IN
    /\ At(h, "move")
    /\ IF r \notin ActiveRules \/ BindingTaken(ask[h].port, ask[h].proto, r) THEN Refused(h)
       ELSE /\ ruleRow' = [ruleRow EXCEPT ![r].port = ask[h].port]
            /\ Wrote(h)
            /\ UNCHANGED <<tunnelRow, nodeHere>>

\* rules::delete checks nothing but that the rule is there.
RuleDelete(h, r) ==
    /\ Begins(h) /\ r \in ActiveRules
    /\ ruleRow' = [ruleRow EXCEPT ![r] = [NoRuleRow EXCEPT !.st = "deleted"]]
    /\ Wrote(h)
    /\ UNCHANGED <<tunnelRow, nodeHere>>

-----------------------------------------------------------------------------
(* Tunnels and the node *)

\* tunnels::create of a tunnel that starts or ends here.
TunnelAsked(h, way) ==
    /\ Begins(h)
    /\ ask' = [ask EXCEPT ![h] = [NoAsk EXCEPT !.pc = "node", !.op = "tunnel",
                                     !.auto = (way = "in")]]
    /\ Reads

TunnelNode(h) ==
    /\ At(h, "node") /\ ask[h].op = "tunnel"
    /\ Check(h, nodeHere, IF ask[h].auto THEN "hopPort" ELSE "insertTunnel")

\* One query: the ports of all active rules here and the inter ports.
TunnelPort(h) ==
    /\ At(h, "hopPort")
    /\ LET free == (Ports \ {ruleRow[r].port : r \in ActiveRules}) \ InterPorts IN
       IF free = {} THEN Refused(h)
       ELSE /\ ask' = [ask EXCEPT ![h].pc = "insertTunnel", ![h].port = Min(free)]
            /\ Reads

\* create_with_hops, one transaction; the index covers every row of
\* tunnel_hops with an inter port, of deleted tunnels too.
TunnelInsert(h) ==
    LET unused == {t \in TunnelIds : tunnelRow[t].st = "none"}
        held == {tunnelRow[t].port : t \in {s \in TunnelIds : tunnelRow[s].rows}} \ {0}
    IN
    /\ At(h, "insertTunnel") /\ unused # {}
    /\ IF ask[h].port \in held THEN Refused(h)
       ELSE /\ tunnelRow' = [tunnelRow EXCEPT ![Min(unused)] =
                  [st |-> "active", way |-> IF ask[h].auto THEN "in" ELSE "out",
                   port |-> ask[h].port, rows |-> TRUE]]
            /\ Wrote(h)
            /\ UNCHANGED <<ruleRow, nodeHere>>

\* tunnels::delete: the tunnel is found,
TunnelDropAsked(h, t) ==
    /\ Begins(h) /\ t \in ActiveTunnels
    /\ ask' = [ask EXCEPT ![h] = [NoAsk EXCEPT !.pc = "refs", !.id = t]]
    /\ Reads

\* no active rule refers to it,
TunnelRefs(h) == At(h, "refs") /\ Check(h, OnTunnel(ask[h].id) = {}, "dropTunnel")

\* and Tunnel::soft_delete marks it and removes its hops, in one transaction.
TunnelDrop(h) ==
    LET t == ask[h].id IN
    /\ At(h, "dropTunnel")
    /\ IF t \notin ActiveTunnels THEN Refused(h)
       ELSE /\ tunnelRow' = [tunnelRow EXCEPT ![t] = [NoTunnelRow EXCEPT !.st = "deleted"]]
            /\ Wrote(h)
            /\ UNCHANGED <<ruleRow, nodeHere>>

\* nodes::delete:
NodeDropAsked(h) ==
    /\ Begins(h)
    /\ ask' = [ask EXCEPT ![h] = [NoAsk EXCEPT !.pc = "rules"]]
    /\ Reads

\* no rule here,
NodeRules(h) == At(h, "rules") /\ Check(h, ActiveRules = {}, "tunnels")

\* no active tunnel through here,
NodeTunnels(h) == At(h, "tunnels") /\ Check(h, ActiveTunnels = {}, "dropNode")

\* and the node is deleted.
NodeDrop(h) ==
    /\ At(h, "dropNode")
    /\ IF nodeHere THEN nodeHere' = FALSE /\ Wrote(h) /\ UNCHANGED <<ruleRow, tunnelRow>>
       ELSE Refused(h)

-----------------------------------------------------------------------------
Arrives(h) ==
    \/ \E proto \in Protocols :
           \/ \E tun \in {0} \cup {t \in TunnelIds : tunnelRow[t].st # "none"},
                 port \in Ports \cup {0} : CreateAsked(h, proto, tun, port)
           \/ \E port \in Ports : ImportAsked(h, proto, port)
    \/ \E r \in RuleIds : (\E port \in Ports : UpdateAsked(h, r, port)) \/ RuleDelete(h, r)
    \/ \E way \in {"out", "in"} : TunnelAsked(h, way)
    \/ \E t \in TunnelIds : TunnelDropAsked(h, t)
    \/ NodeDropAsked(h)

Proceeds(h) ==
    \/ RuleNode(h) \/ RuleHops(h) \/ RuleQuota(h) \/ RuleTunnelQuota(h)
    \/ AllocateRules(h) \/ AllocateInterPorts(h) \/ ImportExact(h) \/ RuleConflict(h)
    \/ RuleInsert(h) \/ RuleMove(h)
    \/ TunnelNode(h) \/ TunnelPort(h) \/ TunnelInsert(h) \/ TunnelRefs(h) \/ TunnelDrop(h)
    \/ NodeRules(h) \/ NodeTunnels(h) \/ NodeDrop(h)

AdmissionNext ==
    \E h \in Handlers : Arrives(h) \/ (Proceeds(h) /\ UNCHANGED asked)

AdmissionSpec == AdmissionInit /\ [][AdmissionNext]_admVars

-----------------------------------------------------------------------------
\* This step ends a request during which another one wrote.
RacedEnds == \E h \in Handlers : ask[h].raced /\ ask'[h].pc = "idle"

Clashes == {{r, s} : r \in ActiveRules, s \in ActiveRules} \cap
           {c \in SUBSET RuleIds : \E r, s \in c : /\ Clash(ruleRow[r].proto, ruleRow[s].proto)
                                                   /\ ruleRow[r].port = ruleRow[s].port}

\* Two active rules whose protocols share a socket come to be on one port,
\* whichever of create, update and import put them there (rules.rs:1013).
NewClash == ~(Clashes' \subseteq Clashes)

\* The owner's quota, or the one of a tunnel, is exceeded (rules.rs:466).  An
\* import does not look at either.
NewExcess ==
    LET exceeds(rules, before, limit) == rules > before /\ rules > limit IN
    /\ ~\E h \in Handlers : ask[h].op = "import" /\ ask'[h].pc = "idle"
    /\ \/ exceeds(Cardinality(ActiveRules'), Cardinality(ActiveRules), UserQuota)
       \/ \E t \in TunnelIds :
             exceeds(Cardinality(OnTunnel(t)'), Cardinality(OnTunnel(t)), TunnelQuota)

\* What a delete must not leave behind: a rule on a tunnel that is gone, a
\* rule or a tunnel on a node that is gone (tunnels.rs:297, nodes.rs:563).
Stranded ==
    {r \in ActiveRules : ~nodeHere \/ (ruleRow[r].tun # 0 /\ ruleRow[r].tun \notin ActiveTunnels)}
StrandedTunnels == {t \in ActiveTunnels : ~nodeHere}
NewStranded == ~(Stranded' \subseteq Stranded /\ StrandedTunnels' \subseteq StrandedTunnels)

\* A port the panel has chosen itself is not free: an index refuses it, or it
\* comes to be the port of a rule and a tunnel at once.  tests/api_tunnels.rs:148:
\* the port of a tunnel deleted before is free.
BadChoice ==
    \E h \in Handlers :
        /\ ask[h].pc \in {"insert", "insertTunnel"} /\ ask[h].auto /\ ask'[h].pc = "idle"
        /\ \/ ruleRow' = ruleRow /\ tunnelRow' = tunnelRow
           \/ \E r \in ActiveRules' : ruleRow'[r].port = ask[h].port /\ ask[h].port \in InterPorts'

\* The checks a request makes before it writes are undone by nothing but a
\* request that wrote in between: without an overlap no clash, no excess of
\* a quota, nothing stranded and no port chosen in vain.
BrokenOnlyByRace ==
    [][NewClash \/ NewExcess \/ NewStranded \/ BadChoice => RacedEnds]_admVars
=============================================================================
