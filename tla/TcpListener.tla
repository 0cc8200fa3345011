---------------------------- MODULE TcpListener ----------------------------
(***************************************************************************)
(* The listening side of one TCP rule on one agent, in each of its roles:  *)
(*   relay       relay/tcp.rs, clients to targets                          *)
(*   guarded     the same on a node that blocks some protocols             *)
(*   entry       tunnel/task.rs entry_tcp_loop, clients to the next hop    *)
(*   mid, exit   tunnel/task.rs start_relay_hop, the previous hop to the   *)
(*               next one or to the target                                 *)
(* One loop accepts; every connection is a task of its own that goes       *)
(* through the stages of its role until it bridges bytes (TcpBridge has    *)
(* the bytes).  All but mid and exit hold a permit of max_connections for  *)
(* the whole life of a connection, those a handshake slot until the        *)
(* handshake is over.  Stopping a rule raises a latch that every task of   *)
(* that listener watches; a new start makes a new listener, with a latch   *)
(* and permits of its own.                                                 *)
(***************************************************************************)
EXTENDS Naturals, Sequences, FiniteSets

CONSTANTS
    Conns,        \* connections that may arrive
    Permits,      \* max_connections, or HOP_HANDSHAKE_CONCURRENCY
    Targets,      \* size of the target pool
    LongestPrint, \* bytes of the longest fingerprint sniff.rs knows
    Listeners     \* bound on the listeners the rule ever has: 1..n

ASSUME ListenerAssumption ==
    /\ IsFiniteSet(Conns)
    /\ Permits \in Nat \ {0} /\ Targets \in Nat \ {0} /\ LongestPrint \in Nat \ {0}
    /\ Listeners \in Nat \ {0}

VARIABLES
    role,      \* what the rule does on this agent
    loop,      \* accept loop: "up", "backoff" (asleep after an accept
               \* error) or "down"
    stopAsked, \* stop_tx was sent, the manager waits for the loop to end
    lsn,       \* number of the current listener
    free,      \* free permits of each listener
    latch,     \* listeners whose cancel latch is up
    backlog,   \* connections the kernel accepted and the loop has not
    conn       \* state of each connection

lsnVars == <<role, loop, stopAsked, lsn, free, latch, backlog, conn>>

Lsns == 1..Listeners
HopRoles == {"mid", "exit"}
Relays == {"relay", "guarded"}
Roles == Relays \cup HopRoles \cup {"entry"}
Setup == {"sniff", "handshake", "preamble", "dial"}
Live == Setup \cup {"bridge"}
Ended == {"refused", "blocked", "closed"}

\* st: its stage; lsn: the listener it came from; print: the length of the
\* fingerprint its first bytes spell out (0: none); seen: its bytes that
\* arrived; left: targets still to try; late: the sniff deadline passed.
NewConn == [st |-> "idle", lsn |-> 1, print |-> 0, seen |-> 0, left |-> Targets, late |-> FALSE]

ListenerTypeOK ==
    /\ role \in Roles
    /\ loop \in {"up", "backoff", "down"}
    /\ stopAsked \in BOOLEAN
    /\ lsn \in Lsns
    /\ free \in [Lsns -> 0..Permits]
    /\ latch \subseteq Lsns
    /\ backlog \in Seq(Conns)
    /\ conn \in [Conns -> [st : {"idle", "queued"} \cup Live \cup Ended, lsn : Lsns,
                           print : 0..LongestPrint, seen : 0..LongestPrint,
                           left : 1..Targets, late : BOOLEAN]]

ListenerInit ==
    /\ role \in Roles
    /\ loop = "up" /\ stopAsked = FALSE /\ lsn = 1
    /\ free = [g \in Lsns |-> Permits]
    /\ latch = {}
    /\ backlog = <<>>
    /\ conn = [c \in Conns |-> NewConn]

-----------------------------------------------------------------------------
\* A stage a connection is in while it keeps its permit.
HoldsPermit(st) ==
    IF role \in HopRoles THEN st = "handshake" ELSE st \in Live

FirstStage == CASE role = "guarded" -> "sniff"
                [] role \in HopRoles -> "handshake"
                [] OTHER -> "dial"

AfterHandshake == IF role = "exit" THEN "preamble" ELSE "dial"

\* What is remembered of a connection that goes to stage st: of one that
\* ended nothing, of its first bytes nothing after the sniffing.
Moved(c, st) ==
    IF st \in Ended THEN [NewConn EXCEPT !.st = st]
    ELSE [conn[c] EXCEPT !.st = st, !.seen = 0]

\* Mutation: A cancelled task forgets its permit.
MutGoTo(c, st) ==
    /\ conn' = [conn EXCEPT ![c] = Moved(c, st)]
    /\ free' = IF HoldsPermit(conn[c].st) /\ ~HoldsPermit(st) /\ conn[c].lsn \notin latch
               THEN [free EXCEPT ![conn[c].lsn] = @ + 1]
               ELSE free
    /\ UNCHANGED <<role, loop, stopAsked, lsn, latch, backlog>>

\* Connection c goes to stage st; its permit is dropped with the task, or,
\* in a hop, when the handshake is over.
GoTo(c, st) ==
    /\ conn' = [conn EXCEPT ![c] = Moved(c, st)]
    /\ free' = IF HoldsPermit(conn[c].st) /\ ~HoldsPermit(st)
               THEN [free EXCEPT ![conn[c].lsn] = @ + 1]
               ELSE free
    /\ UNCHANGED <<role, loop, stopAsked, lsn, latch, backlog>>

\* Mutation: MIN_SNIFF_LEN is one short of the longest fingerprint.
MutMinSniff == LongestPrint - 1

\* MIN_SNIFF_LEN: the longest fingerprint.
MinSniff == LongestPrint

\* sniff_blocked: the bytes seen spell out a fingerprint.
Recognised(c) == conn[c].print # 0 /\ conn[c].seen >= conn[c].print

\* could_be_blocked: what was seen is a prefix of some fingerprint; the
\* bytes of a connection without one differ from the first byte on.
CouldBe(c) == conn[c].print # 0 \/ conn[c].seen = 0

-----------------------------------------------------------------------------
\* A client (or the previous hop) connects while the port is bound.
Arrive(c) ==
    /\ conn[c].st = "idle" /\ loop # "down"
    /\ conn' = [conn EXCEPT ![c].st = "queued"]
    /\ backlog' = Append(backlog, c)
    /\ UNCHANGED <<role, loop, stopAsked, lsn, free, latch>>

\* Its bytes arrive one after the other; the first is that of a
\* fingerprint or of none.
ByteArrives(c) ==
    /\ conn[c].st = "sniff" /\ conn[c].seen < LongestPrint
    /\ \E p \in IF conn[c].seen = 0 THEN 0..LongestPrint ELSE {conn[c].print} :
           conn' = [conn EXCEPT ![c].seen = @ + 1, ![c].print = p]
    /\ UNCHANGED <<role, loop, stopAsked, lsn, free, latch, backlog>>

\* accept() returns the head of the backlog: a permit and a task, or the
\* connection is refused.
Accept ==
    /\ loop = "up" /\ backlog # <<>>
    /\ backlog' = Tail(backlog)
    /\ LET c == Head(backlog) IN
           IF free[lsn] > 0
           THEN /\ free' = [free EXCEPT ![lsn] = @ - 1]
                /\ conn' = [conn EXCEPT ![c].st = FirstStage, ![c].lsn = lsn]
           ELSE /\ conn' = [conn EXCEPT ![c].st = "refused"]
                /\ UNCHANGED free
    /\ UNCHANGED <<role, loop, stopAsked, lsn, latch>>

\* ECONNABORTED: the head gave up before it was accepted.
AcceptAborted ==
    /\ loop = "up" /\ backlog # <<>>
    /\ backlog' = Tail(backlog)
    /\ conn' = [conn EXCEPT ![Head(backlog)].st = "closed"]
    /\ UNCHANGED <<role, loop, stopAsked, lsn, free, latch>>

\* EMFILE and the like: the loop sleeps a second, deaf to stop.
AcceptExhausted ==
    /\ loop = "up"
    /\ loop' = "backoff"
    /\ UNCHANGED <<role, stopAsked, lsn, free, latch, backlog, conn>>

BackoffEnds ==
    /\ loop = "backoff"
    /\ loop' = "up"
    /\ UNCHANGED <<role, stopAsked, lsn, free, latch, backlog, conn>>

-----------------------------------------------------------------------------
(* bridge() of relay/tcp.rs: peek until the first bytes tell *)

SniffBlocks(c) ==
    /\ conn[c].st = "sniff" /\ Recognised(c)
    /\ GoTo(c, "blocked")

SniffPasses(c) ==
    /\ conn[c].st = "sniff" /\ ~Recognised(c)
    /\ conn[c].seen >= 1
    /\ ~CouldBe(c) \/ conn[c].seen >= MinSniff
    /\ GoTo(c, "dial")

\* Two seconds passed, or the peek failed: the benefit of the doubt.
SniffDeadline(c) ==
    /\ conn[c].st = "sniff"
    /\ conn' = [conn EXCEPT ![c] = [Moved(c, "dial") EXCEPT !.late = TRUE]]
    /\ UNCHANGED <<role, loop, stopAsked, lsn, free, latch, backlog>>

(* handshake() of a transport and the preamble of handle_hop_conn *)

HandshakeOk(c) == conn[c].st = "handshake" /\ GoTo(c, AfterHandshake)

\* Refused by TLS or the SAN check, or ten seconds passed.
HandshakeFails(c) == conn[c].st = "handshake" /\ GoTo(c, "closed")

PreambleOk(c) == conn[c].st = "preamble" /\ GoTo(c, "dial")

PreambleFails(c) == conn[c].st = "preamble" /\ GoTo(c, "closed")

(* connecting: the targets of the pool in turn, or the next hop *)

DialOpens(c) == conn[c].st = "dial" /\ GoTo(c, "bridge")

\* The name did not resolve, no address of it may be used, or each
\* refused or timed out: the next target, if there is one.
TargetFails(c) ==
    /\ conn[c].st = "dial"
    /\ IF role \in Relays /\ conn[c].left > 1
       THEN /\ conn' = [conn EXCEPT ![c].left = @ - 1]
            /\ UNCHANGED <<role, loop, stopAsked, lsn, free, latch, backlog>>
       ELSE GoTo(c, "closed")

\* Both directions are done, or one failed.
BridgeEnds(c) == conn[c].st = "bridge" /\ GoTo(c, "closed")

\* The select! of the task sees the latch of its listener.
Cancelled(c) ==
    /\ conn[c].st \in Live /\ conn[c].lsn \in latch
    /\ GoTo(c, "closed")

-----------------------------------------------------------------------------
(* the rule manager *)

\* Bound: the last listener is not stopped.
AskStop ==
    /\ loop # "down" /\ ~stopAsked /\ lsn < Listeners
    /\ stopAsked' = TRUE
    /\ UNCHANGED <<role, loop, lsn, free, latch, backlog, conn>>

\* Mutation: stop drops the listener without raising the latch.
MutStopSeen ==
    /\ loop = "up" /\ stopAsked
    /\ loop' = "down" /\ stopAsked' = FALSE /\ backlog' = <<>>
    /\ conn' = [c \in Conns |-> IF conn[c].st = "queued"
                                THEN [conn[c] EXCEPT !.st = "closed"] ELSE conn[c]]
    /\ UNCHANGED <<role, lsn, free, latch>>

\* The loop takes stop_rx, raises the latch and returns; the listening
\* socket goes and with it what was in its backlog.
StopSeen ==
    /\ loop = "up" /\ stopAsked
    /\ loop' = "down"
    /\ stopAsked' = FALSE
    /\ latch' = latch \cup {lsn}
    /\ backlog' = <<>>
    /\ conn' = [c \in Conns |-> IF conn[c].st = "queued"
                                THEN [conn[c] EXCEPT !.st = "closed"] ELSE conn[c]]
    /\ UNCHANGED <<role, lsn, free>>

StartAgain ==
    /\ loop = "down"
    /\ loop' = "up"
    /\ lsn' = lsn + 1
    /\ UNCHANGED <<role, stopAsked, free, latch, backlog, conn>>

ListenerNext ==
    \/ Accept \/ AcceptAborted \/ AcceptExhausted \/ BackoffEnds
    \/ AskStop \/ StopSeen \/ StartAgain
    \/ \E c \in Conns :
           \/ Arrive(c) \/ ByteArrives(c)
           \/ SniffBlocks(c) \/ SniffPasses(c) \/ SniffDeadline(c)
           \/ HandshakeOk(c) \/ HandshakeFails(c) \/ PreambleOk(c) \/ PreambleFails(c)
           \/ DialOpens(c) \/ TargetFails(c) \/ BridgeEnds(c) \/ Cancelled(c)

\* What ends the stage connection c is in, if nothing else does.
SetupTimeout(c) ==
    SniffDeadline(c) \/ HandshakeFails(c) \/ PreambleFails(c) \/ TargetFails(c)

\* Every stage of the set-up has a timeout, a sleep ends, a task runs.  The
\* resources accept() lacks come back at times, and select! takes a ready
\* branch at random: strong fairness for the two branches of the loop.
ListenerFairness ==
    /\ SF_lsnVars(Accept) /\ SF_lsnVars(StopSeen) /\ WF_lsnVars(BackoffEnds)
    /\ \A c \in Conns :
           WF_lsnVars(SetupTimeout(c)) /\ WF_lsnVars(Cancelled(c))

ListenerSpec == ListenerInit /\ [][ListenerNext]_lsnVars /\ ListenerFairness

-----------------------------------------------------------------------------
Holders(g) == {c \in Conns : conn[c].lsn = g /\ HoldsPermit(conn[c].st)}

\* No way out of a connection, be it refusal, error, timeout, cancellation
\* or the end of its handshake, loses a permit or returns one twice: the
\* permits of a listener are those of its connections and the free ones.
PermitsConserved == \A g \in Lsns : free[g] + Cardinality(Holders(g)) = Permits

\* A client that sends a fingerprint in pieces is not let through because
\* the first pieces are too short to tell: only the deadline does that.
NoFragmentBypass ==
    \A c \in Conns :
        (role = "guarded" /\ conn[c].st \in {"dial", "bridge"} /\ conn[c].print # 0)
            => conn[c].late

\* It waits in the backlog, or in its set-up for a peer or a target, or its
\* listener has been stopped.
Stuck(c) ==
    \/ conn[c].st = "queued" \/ conn[c].st \in Setup
    \/ conn[c].st \in Live /\ (loop = "down" \/ conn[c].lsn # lsn)

\* No connection is stuck for ever: not behind a peer that is slow in its
\* handshake, not with a peer that has gone silent, whose handshake slot it
\* would keep, and not after a stop, when it would still be billed, wherever
\* in its set-up it was.
NoneStuck == \A c \in Conns : []<>~Stuck(c)
=============================================================================
