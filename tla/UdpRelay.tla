------------------------------ MODULE UdpRelay ------------------------------
(***************************************************************************)
(* The UDP data plane of one rule on one agent.                            *)
(*                                                                         *)
(* via = "direct": relay/udp.rs.  A receive loop keeps a NAT table from    *)
(* client addresses to upstream sockets.  Each socket has a reverse task   *)
(* that carries answers to the client and holds the listening socket.      *)
(* The lock on the table is dropped while a new upstream is dialled.       *)
(*                                                                         *)
(* via = "tunnel": entry_udp_loop of tunnel/task.rs.  An upstream is a     *)
(* tunnel connection with a writer task fed by a bounded queue, a reader   *)
(* task, and an exit agent (exit_udp_conn) at its other end.               *)
(*                                                                         *)
(* Time is kept as the age of a session since its last packet, in units of *)
(* which Timeout make SESSION_TIMEOUT; an age saturates once expired.      *)
(* Datagrams the token bucket refuses change nothing here and are not      *)
(* steps.                                                                  *)
(***************************************************************************)
EXTENDS Naturals, FiniteSets

CONSTANTS
    Clients,      \* client addresses
    Socks,        \* 1..n: upstream sockets or tunnel connections
    Callers,      \* forward() calls that may overlap: one in the agent's
                  \* loop, two in the tests of relay/udp.rs
    MaxSessions,  \* MAX_UDP_SESSIONS
    Timeout,      \* SESSION_TIMEOUT in units of age
    QueueCap      \* capacity of a tunnel session's frame queue

ASSUME UdpAssumption ==
    /\ Socks \subseteq Nat \ {0}
    /\ IsFiniteSet(Clients) /\ Clients # {}
    /\ MaxSessions \in Nat /\ Timeout \in Nat /\ QueueCap \in Nat \ {0}

VARIABLES
    via,     \* which of the two relays the rule runs
    relay,   \* "up": the port is bound and the loop runs
    nat,     \* sessions: the upstream of a client, 0 if it has none
    age,     \* time since last_seen
    task,    \* reverse (reader) task: off, live, dead (finished by itself),
             \* aborting (abort() called, future not dropped yet)
    writer,  \* tunnel: "live" until the writer task returns
    queue,   \* tunnel: frames waiting in the writer's channel
    wire,    \* tunnel: "open" while the exit agent holds its end
    call     \* a forward() in flight: where it is, for whom, its new socket

udpVars == <<via, relay, nat, age, task, writer, queue, wire, call>>

NoSock == 0
IdleCall == [pc |-> "idle", client |-> CHOOSE a \in Clients : TRUE, sock |-> NoSock]

UdpTypeOK ==
    /\ via \in {"direct", "tunnel"}
    /\ relay \in {"up", "down"}
    /\ nat \in [Clients -> Socks \cup {NoSock}]
    /\ age \in [Clients -> 0..Timeout + 1]
    /\ task \in [Socks -> {"off", "live", "dead", "aborting"}]
    /\ writer \in [Socks -> {"off", "live"}]
    /\ queue \in [Socks -> 0..QueueCap]
    /\ wire \in [Socks -> {"cut", "open"}]
    /\ call \in [Callers -> [pc : {"idle", "dial", "insert"},
                             client : Clients, sock : Socks \cup {NoSock}]]

UdpInit ==
    /\ via \in {"direct", "tunnel"}
    /\ relay = "up"
    /\ nat = [a \in Clients |-> NoSock]
    /\ age = [a \in Clients |-> 0]
    /\ task = [s \in Socks |-> "off"]
    /\ writer = [s \in Socks |-> "off"]
    /\ queue = [s \in Socks |-> 0]
    /\ wire = [s \in Socks |-> "cut"]
    /\ call = [p \in Callers |-> IdleCall]

-----------------------------------------------------------------------------
LoopIdle == \A p \in Callers : call[p].pc = "idle"

\* A datagram can be taken by call p: overlapping calls exist only on the
\* direct path, the tunnel entry owns its table without a lock.
CanTake(p) ==
    /\ relay = "up"
    /\ call[p].pc = "idle"
    /\ via = "tunnel" => LoopIdle

HasSession(a) == nat[a] # NoSock
SessionCount(table) == Cardinality({a \in Clients : table[a] # NoSock})
InTable(s) == \E a \in Clients : nat[a] = s
InCall(s) == \E p \in Callers : call[p].sock = s

\* Nothing refers to socket s any more.
Unused(s) == task[s] = "off" /\ writer[s] = "off" /\ ~InTable(s) /\ ~InCall(s)
FreeSocks == {s \in Socks : Unused(s)}
NextSock == CHOOSE s \in FreeSocks : TRUE

\* abort() on a task that already ended does nothing.
Aborted(t) == IF t = "live" THEN "aborting" ELSE "off"

Return(p) == call' = [call EXCEPT ![p] = IdleCall]

-----------------------------------------------------------------------------
(* relay/udp.rs *)

\* Mutation: a finished reverse task is not noticed.
FastPathBlind(p, a) ==
    /\ via = "direct" /\ CanTake(p) /\ HasSession(a)
    /\ age' = [age EXCEPT ![a] = 0]
    /\ UNCHANGED <<via, relay, nat, task, writer, queue, wire, call>>

\* A client whose session lives: its age restarts, the datagram is sent.
FastPath(p, a) ==
    /\ via = "direct" /\ CanTake(p)
    /\ HasSession(a) /\ task[nat[a]] # "dead"
    /\ age' = [age EXCEPT ![a] = 0]
    /\ UNCHANGED <<via, relay, nat, task, writer, queue, wire, call>>

\* No session, or one whose reverse task ended, which is removed first.  At
\* the cap the datagram is dropped; below it the lock is released to dial.
Miss(p, a) ==
    /\ via = "direct" /\ CanTake(p)
    /\ HasSession(a) => task[nat[a]] = "dead"
    /\ nat' = [nat EXCEPT ![a] = NoSock]
    /\ task' = IF HasSession(a) THEN [task EXCEPT ![nat[a]] = "off"] ELSE task
    /\ IF SessionCount(nat') >= MaxSessions
       THEN UNCHANGED call
       ELSE call' = [call EXCEPT ![p] = [pc |-> "dial", client |-> a, sock |-> NoSock]]
    /\ UNCHANGED <<via, relay, age, writer, queue, wire>>

\* Resolution, the connect or the first send failed, or five seconds passed:
\* nothing was spawned yet.
DialFails(p) ==
    /\ call[p].pc = "dial"
    /\ Return(p)
    /\ UNCHANGED <<via, relay, nat, age, task, writer, queue, wire>>

\* The upstream is connected, the first datagram sent, the reverse task
\* spawned; the session is not in the table yet.
DialOk(p) ==
    /\ via = "direct" /\ call[p].pc = "dial"
    /\ FreeSocks # {}
    /\ task' = [task EXCEPT ![NextSock] = "live"]
    /\ call' = [call EXCEPT ![p].pc = "insert", ![p].sock = NextSock]
    /\ UNCHANGED <<via, relay, nat, age, writer, queue, wire>>

\* Mutation: the losing call forgets to abort its reverse task.
InsertNoAbort(p) ==
    LET a == call[p].client
        lost == (HasSession(a) /\ task[nat[a]] # "dead") \/ (~HasSession(a) /\ SessionCount(nat) >= MaxSessions)
    IN
    /\ via = "direct" /\ call[p].pc = "insert"
    /\ IF lost
       THEN UNCHANGED <<nat, age, task>>
       ELSE /\ task' = IF HasSession(a) THEN [task EXCEPT ![nat[a]] = "off"] ELSE task
            /\ age' = [age EXCEPT ![a] = 0]
            /\ nat' = [nat EXCEPT ![a] = call[p].sock]
    /\ Return(p)
    /\ UNCHANGED <<via, relay, writer, queue, wire>>

\* Second critical section: another call may have inserted a session for
\* the client, or filled the table, while this one dialled.
Insert(p) ==
    LET a == call[p].client
        s == call[p].sock
        existing == HasSession(a) /\ task[nat[a]] # "dead"
        full == ~HasSession(a) /\ SessionCount(nat) >= MaxSessions
    IN
    /\ via = "direct" /\ call[p].pc = "insert"
    /\ IF existing \/ full
       THEN /\ task' = [task EXCEPT ![s] = Aborted(@)]
            /\ age' = IF existing THEN [age EXCEPT ![a] = 0] ELSE age
            /\ UNCHANGED nat
       ELSE /\ task' = IF HasSession(a) THEN [task EXCEPT ![nat[a]] = "off"] ELSE task
            /\ age' = [age EXCEPT ![a] = 0]
            /\ nat' = [nat EXCEPT ![a] = s]
    /\ Return(p)
    /\ UNCHANGED <<via, relay, writer, queue, wire>>

-----------------------------------------------------------------------------
(* tunnel/task.rs *)

\* The writer's channel takes the datagram, or is full and drops it.
TunnelSend(p, a) ==
    /\ via = "tunnel" /\ CanTake(p)
    /\ HasSession(a) /\ writer[nat[a]] = "live"
    /\ age' = [age EXCEPT ![a] = 0]
    /\ queue' = [queue EXCEPT ![nat[a]] = IF @ < QueueCap THEN @ + 1 ELSE @]
    /\ UNCHANGED <<via, relay, nat, task, writer, wire, call>>

\* The channel is closed, the writer having returned: the session is
\* removed and its Drop aborts the reader; the datagram is lost.
TunnelClosed(p, a) ==
    /\ via = "tunnel" /\ CanTake(p)
    /\ HasSession(a) /\ writer[nat[a]] = "off"
    /\ nat' = [nat EXCEPT ![a] = NoSock]
    /\ task' = [task EXCEPT ![nat[a]] = Aborted(@)]
    /\ UNCHANGED <<via, relay, age, writer, queue, wire, call>>

\* A new client below the cap: the loop itself waits for the dial.
TunnelMiss(p, a) ==
    /\ via = "tunnel" /\ CanTake(p)
    /\ ~HasSession(a) /\ SessionCount(nat) < MaxSessions
    /\ call' = [call EXCEPT ![p] = [pc |-> "dial", client |-> a, sock |-> NoSock]]
    /\ UNCHANGED <<via, relay, nat, age, task, writer, queue, wire>>

\* open_udp_session: preamble, writer, reader; the first datagram is queued
\* and the session stored in the same step of the loop.
TunnelOpen(p) ==
    LET a == call[p].client IN
    /\ via = "tunnel" /\ call[p].pc = "dial"
    /\ FreeSocks # {}
    /\ nat' = [nat EXCEPT ![a] = NextSock]
    /\ age' = [age EXCEPT ![a] = 0]
    /\ task' = [task EXCEPT ![NextSock] = "live"]
    /\ writer' = [writer EXCEPT ![NextSock] = "live"]
    /\ queue' = [queue EXCEPT ![NextSock] = 1]
    /\ wire' = [wire EXCEPT ![NextSock] = "open"]
    /\ Return(p)
    /\ UNCHANGED <<via, relay>>

\* write_frame: a frame goes out, or the connection is broken and the
\* writer returns, dropping what is queued.
WriterWrites(s) ==
    /\ writer[s] = "live" /\ queue[s] > 0
    /\ IF wire[s] = "open"
       THEN queue' = [queue EXCEPT ![s] = @ - 1] /\ UNCHANGED writer
       ELSE queue' = [queue EXCEPT ![s] = 0] /\ writer' = [writer EXCEPT ![s] = "off"]
    /\ UNCHANGED <<via, relay, nat, age, task, wire, call>>

\* The session is gone and the channel drained: the writer shuts the
\* connection down and the exit agent sees its end.
WriterEnds(s) ==
    /\ writer[s] = "live" /\ queue[s] = 0 /\ ~InTable(s)
    /\ writer' = [writer EXCEPT ![s] = "off"]
    /\ wire' = [wire EXCEPT ![s] = "cut"]
    /\ UNCHANGED <<via, relay, nat, age, task, queue, call>>

\* exit_udp_conn returns on an error of its UDP socket, or the tunnel
\* breaks on the way.
ExitCloses(s) ==
    /\ wire[s] = "open"
    /\ wire' = [wire EXCEPT ![s] = "cut"]
    /\ UNCHANGED <<via, relay, nat, age, task, writer, queue, call>>

\* read_frame reports the end of the connection to the reader.
ReaderEnds(s) ==
    /\ via = "tunnel" /\ task[s] = "live" /\ wire[s] = "cut"
    /\ task' = [task EXCEPT ![s] = "dead"]
    /\ UNCHANGED <<via, relay, nat, age, writer, queue, wire, call>>

-----------------------------------------------------------------------------
(* both *)

\* The reverse task stops at an error: send_to the client failed or, on the
\* direct path, the upstream refused.
ReverseFails(s) ==
    /\ task[s] = "live"
    /\ task' = [task EXCEPT ![s] = "dead"]
    /\ UNCHANGED <<via, relay, nat, age, writer, queue, wire, call>>

\* The runtime drops an aborted task and with it the sockets it holds.
Reap(s) ==
    /\ task[s] = "aborting"
    /\ task' = [task EXCEPT ![s] = "off"]
    /\ UNCHANGED <<via, relay, nat, age, writer, queue, wire, call>>

Tick ==
    /\ \E a \in Clients : HasSession(a) /\ age[a] <= Timeout
    /\ age' = [a \in Clients |-> IF HasSession(a) /\ age[a] <= Timeout
                                 THEN age[a] + 1 ELSE age[a]]
    /\ UNCHANGED <<via, relay, nat, task, writer, queue, wire, call>>

Expired(a) == HasSession(a) /\ age[a] > Timeout

\* Sessions of A leave the table and their tasks are aborted.
Drop(A) ==
    /\ nat' = [a \in Clients |-> IF a \in A THEN NoSock ELSE nat[a]]
    /\ age' = [a \in Clients |-> IF a \in A THEN 0 ELSE age[a]]
    /\ task' = [s \in Socks |-> IF \E a \in A : nat[a] = s THEN Aborted(task[s]) ELSE task[s]]

\* sweep_expired, taken by the loop between two datagrams.
Sweep ==
    /\ relay = "up" /\ LoopIdle
    /\ \E a \in Clients : Expired(a)
    /\ Drop({a \in Clients : Expired(a)})
    /\ UNCHANGED <<via, relay, writer, queue, wire, call>>

\* stop(): the direct loop sees it between two datagrams and drains the
\* table; the tunnel's loop is dropped wherever it waits, dialling included.
Stop ==
    /\ relay = "up"
    /\ via = "direct" => LoopIdle
    /\ relay' = "down"
    /\ Drop({a \in Clients : HasSession(a)})
    /\ call' = [p \in Callers |-> IdleCall]
    /\ UNCHANGED <<via, writer, queue, wire>>

\* A later start of the rule binds the port once no task of the previous
\* one still holds the listening socket; until then it gets AddrInUse and
\* the rule manager tries again.
Bind ==
    /\ relay = "down"
    /\ \A s \in Socks : task[s] \notin {"live", "aborting"}
    /\ relay' = "up"
    /\ UNCHANGED <<via, nat, age, task, writer, queue, wire, call>>

UdpNext ==
    \/ \E p \in Callers, a \in Clients :
           \/ FastPath(p, a) \/ Miss(p, a)
           \/ TunnelSend(p, a) \/ TunnelClosed(p, a) \/ TunnelMiss(p, a)
    \/ \E p \in Callers :
           DialFails(p) \/ DialOk(p) \/ Insert(p) \/ TunnelOpen(p)
    \/ \E s \in Socks :
           \/ WriterWrites(s) \/ WriterEnds(s) \/ ExitCloses(s)
           \/ ReaderEnds(s) \/ ReverseFails(s) \/ Reap(s)
    \/ Tick \/ Sweep \/ Stop \/ Bind

\* A dial ends within five seconds; tasks that can run do run, time passes.
\* The loop picks among its ready branches at random, so a branch ready
\* again and again is taken: strong fairness for the sweep.
UdpFairness ==
    /\ \A p \in Callers : WF_udpVars(DialFails(p) \/ Insert(p))
    /\ \A s \in Socks :
           /\ WF_udpVars(WriterWrites(s) \/ WriterEnds(s))
           /\ WF_udpVars(ReaderEnds(s) \/ Reap(s))
    /\ WF_udpVars(Tick) /\ SF_udpVars(Sweep) /\ WF_udpVars(Bind)

UdpSpec == UdpInit /\ [][UdpNext]_udpVars /\ UdpFairness

-----------------------------------------------------------------------------
\* No reverse task runs outside the reach of sweep and stop: a live one
\* belongs to a session in the table or to the call about to insert it.
\* Anything else is a task and a socket leaked for the life of the agent.
NoOrphanTask == \A s \in Socks : task[s] = "live" => InTable(s) \/ InCall(s)

\* The table never outgrows its cap, although the lock is dropped between
\* the check and the insertion.
WithinCap == SessionCount(nat) <= MaxSessions

\* What a forward() relies on between its two critical sections: a new socket
\* is its own, and the loop of a tunnel entry waits for one dial at a time,
\* for which there is room and of whose client there is no session.
CallsOwn ==
    /\ \A p \in Callers :
          /\ call[p].sock # NoSock <=> call[p].pc = "insert"
          /\ call[p].pc = "insert" => via = "direct"
          /\ via = "tunnel" /\ call[p].pc = "dial" =>
                ~HasSession(call[p].client) /\ SessionCount(nat) < MaxSessions
    /\ via = "tunnel" => \A p, q \in Callers :
          call[p].pc = "dial" /\ call[q].pc = "dial" => p = q

\* The inductive invariant: however forward() calls, sweeps, ends of tasks
\* and stops overlap, tasks and table keep to each other and to the cap.
UdpInv == UdpTypeOK /\ NoOrphanTask /\ WithinCap /\ CallsOwn

\* A session that carries nothing any more: on the direct path its reverse
\* task died, through the tunnel its connection broke.
Severed(a) ==
    /\ HasSession(a)
    /\ IF via = "direct" THEN task[nat[a]] = "dead" ELSE wire[nat[a]] = "cut"

\* Nothing is held for ever that is of no use: a severed session is removed
\* or replaced, whether its client falls silent or keeps sending (and keeps
\* it from expiring); once the entry has forgotten a session, the exit
\* agent's connection and socket go too; and after a stop the port becomes
\* free, so that the restart of the rule succeeds.
UdpLetsGo ==
    /\ \A a \in Clients : []<>~Severed(a)
    /\ \A s \in Socks : []<>~(wire[s] = "open" /\ ~InTable(s))
    /\ []<>(relay = "up")

\* udp.rs:215: a session with a dead reverse task does not live on because
\* its client sends; here of the entry of a tunnel.
TunnelReturnHeals ==
    \A a \in Clients :
        []<>~(via = "tunnel" /\ HasSession(a) /\ task[nat[a]] = "dead")
=============================================================================
