----------------------------- MODULE TcpBridge -----------------------------
(***************************************************************************)
(* The bytes of one TCP connection, between its client and its target.     *)
(*                                                                         *)
(*   splice   relay/tcp.rs without a speed limit: relay/splice.rs          *)
(*   pump     relay/tcp.rs with one: pump()                                *)
(*   tls      a tunnel of an entry and an exit over TCP or TLS:            *)
(*   wss      copy_counted() at the entry, copy_raw() at the exit; the     *)
(*            same over WebSocket, which has no half-close                 *)
(*                                                                         *)
(* In direction d the bytes pass positions 0 (the sender's link) to Hops   *)
(* (the receiver's); pump p of that direction reads position p-1 and       *)
(* writes position p.  Relay 1 is the one next to the client: it counts    *)
(* the traffic and holds the token bucket both directions share.  Bytes    *)
(* are units; a read takes up to Chunk of them.                            *)
(***************************************************************************)
EXTENDS Naturals

CONSTANTS
    Request,  \* bound on the units the client sends
    Answer,   \* bound on the units the target sends
    LinkCap,  \* units a link holds
    Chunk,    \* size of a read buffer, or of splice's pipe
    Burst     \* capacity of the token bucket

ASSUME BridgeAssumption ==
    /\ Request \in Nat /\ Answer \in Nat /\ LinkCap \in Nat \ {0}
    /\ Chunk \in Nat \ {0} /\ Burst \in Nat \ {0}

VARIABLES
    route,    \* splice, pump, tls or wss
    limited,  \* the rule has a speed limit
    sent,     \* units each source has sent
    got,      \* units each receiver has read
    link,     \* units at each position
    eof,      \* the writer of that position will write no more
    pump,     \* what each pump has in hand
    put,      \* units relay 1 has written, in each direction
    counted,  \* units it has added to the rule's counters
    tokens,   \* in the bucket
    up,       \* the relays whose bridge runs
    failed    \* a bridge ended by an error or by the latch

brVars == <<route, limited, sent, got, link, eof, pump, put, counted, tokens, up, failed>>

Dirs == {"tx", "rx"}
Back(d) == IF d = "tx" THEN "rx" ELSE "tx"
Units(d) == IF d = "tx" THEN Request ELSE Answer
Most == IF Request < Answer THEN Answer ELSE Request
Tunnels == {"tls", "wss"}
Hops == IF route \in Tunnels THEN 2 ELSE 1

\* The relay that runs pump p of direction d, and the pumps of relay r.
RelayOf(d, p) == IF d = "tx" THEN p ELSE Hops + 1 - p
PumpOf(d, r) == RelayOf(d, r)

Idle == [st |-> "read", left |-> 0, size |-> 0, due |-> 0]

BridgeTypeOK ==
    /\ route \in {"splice", "pump"} \cup Tunnels /\ limited \in BOOLEAN
    /\ sent \in [Dirs -> 0..Most] /\ got \in [Dirs -> 0..Most]
    /\ link \in [Dirs -> [0..2 -> 0..LinkCap]]
    /\ eof \in [Dirs -> [0..2 -> BOOLEAN]]
    /\ pump \in [Dirs -> [1..2 -> [st : {"read", "acquire", "write", "flush", "done"},
                                   left : 0..Chunk, size : 0..Chunk, due : 0..Chunk]]]
    /\ put \in [Dirs -> 0..Most] /\ counted \in [Dirs -> 0..Most]
    /\ tokens \in 0..Burst
    /\ up \subseteq 1..2
    /\ failed \in BOOLEAN

\* copy_counted takes its tokens where pump does; bound: it is followed
\* with a limit over pump only.
LimitedRoutes == {"pump"}

Zero == [d \in Dirs |-> 0]
NoneInHand == [d \in Dirs |-> [p \in 1..2 |-> Idle]]
At(v) == [d \in Dirs |-> [k \in 0..2 |-> v]]

BridgeInit ==
    /\ route \in {"splice", "pump"} \cup Tunnels
    /\ limited \in BOOLEAN
    /\ limited => route \in LimitedRoutes
    /\ route = "pump" => limited
    /\ sent = Zero /\ got = Zero /\ put = Zero /\ counted = Zero
    /\ link = At(0) /\ eof = At(FALSE) /\ pump = NoneInHand
    /\ tokens = Burst
    /\ up = 1..Hops
    /\ failed = FALSE

-----------------------------------------------------------------------------
(* the client and the target *)

AppSends(d) ==
    /\ ~eof[d][0] /\ sent[d] < Units(d) /\ link[d][0] < LinkCap
    /\ RelayOf(d, 1) \in up
    /\ sent' = [sent EXCEPT ![d] = @ + 1]
    /\ link' = [link EXCEPT ![d][0] = @ + 1]
    /\ UNCHANGED <<route, limited, got, eof, pump, put, counted, tokens, up, failed>>

AppReceives(d) ==
    /\ link[d][Hops] > 0
    /\ got' = [got EXCEPT ![d] = @ + 1]
    /\ link' = [link EXCEPT ![d][Hops] = @ - 1]
    /\ UNCHANGED <<route, limited, sent, eof, pump, put, counted, tokens, up, failed>>

\* The source of d shuts its writing side down: a half-close.
AppCloses(d) ==
    /\ ~eof[d][0]
    /\ eof' = [eof EXCEPT ![d][0] = TRUE]
    /\ UNCHANGED <<route, limited, sent, got, link, pump, put, counted, tokens, up, failed>>

\* The receiver of d has read all there will ever be.
SeesEnd(d) == link[d][Hops] = 0 /\ eof[d][Hops]

-----------------------------------------------------------------------------
(* one pump *)

Metered(d, p) == RelayOf(d, p) = 1
OverWss(k) == route = "wss" /\ k = 1
Running(d, p) == p <= Hops /\ RelayOf(d, p) \in up /\ pump[d][p].st # "done"
Spliced == route = "splice"

\* A dead relay, or its end of the connection, does not read any more.
ReaderGone(d, k) == k < Hops /\ RelayOf(d, k + 1) \notin up

\* read(): a chunk; with splice, into what room the pipe has left.
Read(d, p) ==
    LET hand == pump[d][p]
        room == Chunk - hand.left
        most == IF link[d][p - 1] < room THEN link[d][p - 1] ELSE room
    IN
    /\ Running(d, p) /\ hand.st = "read"
    /\ \E n \in 1..most :
           /\ link' = [link EXCEPT ![d][p - 1] = @ - n]
           /\ pump' = [pump EXCEPT ![d][p] =
                  IF Spliced THEN [hand EXCEPT !.left = @ + n]
                  ELSE [st |-> IF limited /\ Metered(d, p) THEN "acquire" ELSE "write",
                        left |-> n, size |-> n, due |-> n]]
    /\ UNCHANGED <<route, limited, sent, got, eof, put, counted, tokens, up, failed>>

\* Mutation: the chunk is not cut into segments.
AcquireWhole(d, p) ==
    /\ Running(d, p) /\ pump[d][p].st = "acquire"
    /\ tokens >= pump[d][p].due
    /\ tokens' = tokens - pump[d][p].due
    /\ pump' = [pump EXCEPT ![d][p].due = 0, ![d][p].st = "write"]
    /\ UNCHANGED <<route, limited, sent, got, link, eof, put, counted, up, failed>>

\* TokenBucket::acquire, in segments of at most the burst.
Acquire(d, p) ==
    LET due == pump[d][p].due
        segment == IF due < Burst THEN due ELSE Burst
    IN
    /\ Running(d, p) /\ pump[d][p].st = "acquire"
    /\ tokens >= segment
    /\ tokens' = tokens - segment
    /\ pump' = [pump EXCEPT ![d][p].due = @ - segment,
                            ![d][p].st = IF due = segment THEN "write" ELSE @]
    /\ UNCHANGED <<route, limited, sent, got, link, eof, put, counted, up, failed>>

\* refill: time passes; the balance never exceeds the burst.
Refill ==
    /\ limited /\ tokens < Burst
    /\ tokens' = tokens + 1
    /\ UNCHANGED <<route, limited, sent, got, link, eof, pump, put, counted, up, failed>>

CanWrite(d, p) ==
    /\ Running(d, p) /\ pump[d][p].left > 0
    /\ pump[d][p].st = "write" \/ (Spliced /\ pump[d][p].st = "read")

\* After the last unit of a chunk: relay 1 of a tunnel flushes before it
\* counts, the others go on reading.
Emptied(d, p, hand) ==
    IF hand.left > 0 THEN hand
    ELSE IF Metered(d, p) /\ route \in Tunnels THEN [hand EXCEPT !.st = "flush"]
    ELSE Idle

\* Mutation: splice counts all that is left in the pipe for each unit.
WriteCountsSize(d, p) ==
    LET hand == [pump[d][p] EXCEPT !.left = @ - 1] IN
    /\ CanWrite(d, p)
    /\ ~eof[d][p] /\ ~ReaderGone(d, p) /\ link[d][p] < LinkCap
    /\ link' = [link EXCEPT ![d][p] = @ + 1]
    /\ pump' = [pump EXCEPT ![d][p] = IF Spliced THEN hand ELSE Emptied(d, p, hand)]
    /\ put' = IF Metered(d, p) THEN [put EXCEPT ![d] = @ + 1] ELSE put
    /\ counted' = IF Spliced /\ Metered(d, p) THEN [counted EXCEPT ![d] = @ + pump[d][p].left]
                  ELSE IF route = "pump" /\ hand.left = 0 THEN [counted EXCEPT ![d] = @ + hand.size]
                  ELSE counted
    /\ UNCHANGED <<route, limited, sent, got, eof, tokens, up, failed>>

\* write_all(), a unit at a time: it may be cut short between two.  splice
\* counts each unit, pump the chunk once it is written.
Write(d, p) ==
    LET hand == [pump[d][p] EXCEPT !.left = @ - 1] IN
    /\ CanWrite(d, p)
    /\ ~eof[d][p] /\ ~ReaderGone(d, p) /\ link[d][p] < LinkCap
    /\ link' = [link EXCEPT ![d][p] = @ + 1]
    /\ pump' = [pump EXCEPT ![d][p] = IF Spliced THEN hand ELSE Emptied(d, p, hand)]
    /\ put' = IF Metered(d, p) THEN [put EXCEPT ![d] = @ + 1] ELSE put
    /\ counted' = IF Spliced THEN [counted EXCEPT ![d] = @ + 1]
                  ELSE IF route = "pump" /\ hand.left = 0 THEN [counted EXCEPT ![d] = @ + hand.size]
                  ELSE counted
    /\ UNCHANGED <<route, limited, sent, got, eof, tokens, up, failed>>

\* copy_counted: flush(), then the counter.
Flush(d, p) ==
    /\ Running(d, p) /\ pump[d][p].st = "flush"
    /\ counted' = [counted EXCEPT ![d] = @ + pump[d][p].size]
    /\ pump' = [pump EXCEPT ![d][p] = Idle]
    /\ UNCHANGED <<route, limited, sent, got, link, eof, put, tokens, up, failed>>

\* Mutation: the end of one direction closes the whole of the next link.
ReadEndsBoth(d, p) ==
    /\ Running(d, p) /\ pump[d][p].st = "read" /\ pump[d][p].left = 0
    /\ link[d][p - 1] = 0 /\ eof[d][p - 1]
    /\ pump' = [pump EXCEPT ![d][p].st = "done"]
    /\ eof' = [eof EXCEPT ![d][p] = TRUE, ![Back(d)][Hops - p] = TRUE]
    /\ UNCHANGED <<route, limited, sent, got, link, put, counted, tokens, up, failed>>

\* read() gives 0: shut the next link's writing side down and end this
\* direction.  Over WebSocket both are Close frames, and the one just read
\* is answered at once: nothing can follow the answer.
ReadEnds(d, p) ==
    /\ Running(d, p) /\ pump[d][p].st = "read" /\ pump[d][p].left = 0
    /\ link[d][p - 1] = 0 /\ eof[d][p - 1]
    /\ pump' = [pump EXCEPT ![d][p].st = "done"]
    /\ eof' = [x \in Dirs |-> [k \in 0..2 |->
                  \/ eof[x][k]
                  \/ x = d /\ k = p
                  \/ x = Back(d) /\ OverWss(p - 1) /\ k = Hops - (p - 1)]]
    /\ UNCHANGED <<route, limited, sent, got, link, put, counted, tokens, up, failed>>

-----------------------------------------------------------------------------
(* one bridge *)

\* Both directions returned: the sockets go with the task.
BridgeDone(r) ==
    /\ r \in up
    /\ \A d \in Dirs : pump[d][PumpOf(d, r)].st = "done"
    /\ up' = up \ {r}
    /\ UNCHANGED <<route, limited, sent, got, link, eof, pump, put, counted, tokens, failed>>

\* try_join! gives up both directions; what they had in hand is lost and
\* both sockets are closed.
Fail(r) ==
    /\ up' = up \ {r}
    /\ failed' = TRUE
    /\ eof' = [d \in Dirs |-> [k \in 0..2 |-> eof[d][k] \/ k = PumpOf(d, r)]]
    /\ UNCHANGED <<route, limited, sent, got, link, pump, put, counted, tokens>>

\* The connection is reset by a peer or the rule is stopped.
Broken(r) == r \in up /\ Fail(r)

\* A write after the link's reader went, or after this side's Close.
WriteFails(d, p) ==
    /\ CanWrite(d, p)
    /\ eof[d][p] \/ ReaderGone(d, p)
    /\ Fail(RelayOf(d, p))

\* The rule's next connection.
NextConnection ==
    /\ up = {}
    /\ sent' = Zero /\ got' = Zero /\ put' = Zero /\ counted' = Zero
    /\ link' = At(0) /\ eof' = At(FALSE) /\ pump' = NoneInHand
    /\ up' = 1..Hops
    /\ failed' = FALSE
    /\ UNCHANGED <<route, limited, tokens>>

\* The task of pump p goes on.
PumpStep(d, p) ==
    \/ Read(d, p) \/ Acquire(d, p) \/ Write(d, p) \/ Flush(d, p)
    \/ ReadEnds(d, p) \/ WriteFails(d, p)

BridgeNext ==
    \/ Refill \/ NextConnection
    \/ \E d \in Dirs : AppSends(d) \/ AppReceives(d) \/ AppCloses(d)
    \/ \E d \in Dirs, p \in 1..2 : PumpStep(d, p)
    \/ \E r \in 1..2 : BridgeDone(r) \/ Broken(r)

\* Pumps do what they can; who of the two that share the bucket wins a token
\* is left open, as in acquire.  Of the applications it is only assumed that
\* they read, and close their side once they have seen the other end.
BridgeFairness ==
    /\ WF_brVars(Refill)
    /\ \A d \in Dirs :
           /\ WF_brVars(AppReceives(d)) /\ WF_brVars(SeesEnd(d) /\ AppCloses(Back(d)))
    /\ \A d \in Dirs, p \in 1..2 : WF_brVars(PumpStep(d, p))
    /\ \A r \in 1..2 : WF_brVars(BridgeDone(r))

BridgeSpec == BridgeInit /\ [][BridgeNext]_brVars /\ BridgeFairness

-----------------------------------------------------------------------------
\* An end of stream is never a lie: without an error, a receiver that sees
\* it has got all its source ever sent, the answer to a client that
\* half-closed included.  Over WebSocket this holds as long as the other
\* direction has not been closed first.
CleanEndMeansAll ==
    \A d \in Dirs :
        (SeesEnd(d) /\ ~failed /\ (route = "wss" => ~eof[Back(d)][0]))
            => eof[d][0] /\ got[d] = sent[d]

\* What is billed is what was written to the other side, short of the chunk
\* being written; a connection cut at any point bills nothing it did not
\* carry, and one that ended bills all it carried.
BilledIsWritten ==
    \A d \in Dirs :
        LET hand == pump[d][PumpOf(d, 1)] IN
        /\ counted[d] <= put[d]
        /\ put[d] <= counted[d] + (IF Spliced THEN 0 ELSE hand.size - hand.left)
        /\ hand.st = "done" => counted[d] = put[d]

\* Nothing is left behind for ever: what a relay has in hand goes out, even
\* if its source falls silent and even if the chunk is larger than the bucket
\* it needs tokens from; and the chain does not stay half open, once one
\* relay has ended so does the other.
NothingLeftBehind ==
    /\ []<>(\A d \in Dirs, p \in 1..2 : Running(d, p) => pump[d][p].left = 0)
    /\ []<>(up \in {{}, 1..Hops})
=============================================================================
