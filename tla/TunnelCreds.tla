---------------------------- MODULE TunnelCreds ----------------------------
(***************************************************************************)
(* The certificates of one tls or wss tunnel: issued and pushed to its     *)
(* hops at creation, when an administrator restarts the tunnel and by the  *)
(* sweeper (grpc/tunnel_dispatch.rs, sweeper/tunnel_creds.rs), replayed to *)
(* an agent that comes back, stored by it (tunnel/creds.rs) and read when  *)
(* it starts the tunnel's rule (tunnel/tls_transport.rs), deleted with the *)
(* tunnel (routes/tunnels.rs).                                             *)
(*                                                                         *)
(* A certificate is its age.  One unit of time (Tick) is a part of its     *)
(* life, days long: commands on the way have arrived by then, retries are  *)
(* over and the hourly sweeper has done its work once.  All certificates   *)
(* have the same issuer, so neighbours of different age accept each other. *)
(* One rule uses the tunnel; what else happens to rules is in RuleSync and *)
(* AgentRules.                                                             *)
(***************************************************************************)
EXTENDS Naturals, Sequences, SequencesExt

CONSTANTS
    Hops,         \* nodes of the chain
    Cap,          \* CHANNEL_CAPACITY
    Validity,     \* units after which a certificate has expired
    RotateAfter,  \* units after which the sweeper renews it
    MaxRetries    \* MAX_ATTEMPTS of the hop's retry queue

ASSUME CredsAssumption ==
    /\ Hops # {} /\ Cap \in Nat /\ Validity \in Nat
    /\ RotateAfter \in 1..(Validity - 1) /\ MaxRetries \in Nat \ {0}

VARIABLES
    tunnel,   \* the row: "none", "active", "deleted"
    stamp,    \* age of creds_rotated_at (created_at if it is null)
    ruleOn,   \* the rule is in the table
    swept,    \* the sweeper has done its work since the last Tick
    job,      \* job[c]: the sweeper or a request: its step, what it is,
              \* the hops it has read
    hop,      \* hop[h]: connected; age of the files on disk; age of what
              \* the running rule has loaded; rule in the state file; retry
    channel,  \* channel[h]: commands on the way to h
    replay,   \* replay[h]: what the replay has still to send to h
    mishap    \* mishap[h]: history: since h connected it has missed a command,
              \* failed to store or lost a retry ("wrong"); it may keep the
              \* files of the deleted tunnel ("kept")

credVars == <<tunnel, stamp, ruleOn, swept, job, hop, channel, replay, mishap>>

Callers == {"sweep", "api"}
NoCert == Validity + 1   \* there is none
Torn == Validity + 2     \* files that do not belong together
Ages == 0..Validity
NoJob == [pc |-> "idle", op |-> "rotate", hops |-> {}]
NoRetry == [kind |-> "none", left |-> 0]

CredsTypeOK ==
    /\ tunnel \in {"none", "active", "deleted"} /\ stamp \in Ages
    /\ ruleOn \in BOOLEAN /\ swept \in BOOLEAN /\ (ruleOn => tunnel = "active")
    /\ job \in [Callers -> [pc : {"idle", "read", "creds", "stamp", "restart", "revoke"},
                             op : {"create", "rotate", "delete"}, hops : SUBSET Hops]]
    /\ hop \in [Hops -> [conn : BOOLEAN, disk : Ages \cup {NoCert, Torn},
                           run : Ages \cup {NoCert}, saved : BOOLEAN,
                           retry : [kind : {"none", "apply", "restart"}, left : 0..MaxRetries]]]
    /\ channel \in [Hops -> BoundedSeq({"creds", "apply", "restart", "remove", "revoke"}, Cap)]
    /\ replay \in [Hops -> BoundedSeq({"creds", "apply", "remove"}, 2)]
    /\ mishap \in [Hops -> SUBSET {"wrong", "kept"}]

CredsInit ==
    /\ tunnel = "none" /\ stamp = 0 /\ ruleOn = FALSE /\ swept = TRUE
    /\ job = [c \in Callers |-> NoJob]
    /\ hop = [h \in Hops |-> [conn |-> TRUE, disk |-> NoCert, run |-> NoCert,
                                saved |-> FALSE, retry |-> NoRetry]]
    /\ channel = [h \in Hops |-> <<>>] /\ replay = [h \in Hops |-> <<>>]
    /\ mishap = [h \in Hops |-> {}]

\* A disconnected agent is brought up to date when it connects.
Wrong(h) == IF hop[h].conn THEN mishap[h] \cup {"wrong"} ELSE mishap[h]

Takes(h) == hop[h].conn /\ Len(channel[h]) < Cap

\* dispatch of cmd to each node of hops: a node that is offline, or whose
\* channel is full, misses it.
PushTo(hops, cmd) ==
    /\ channel' = [h \in Hops |-> IF h \in hops /\ Takes(h) THEN Append(channel[h], cmd)
                                  ELSE channel[h]]
    /\ mishap' = [h \in Hops |-> IF h \in hops /\ ~Takes(h) THEN Wrong(h) ELSE mishap[h]]

-----------------------------------------------------------------------------
(* The panel *)

\* tunnels::create; dispatch_tunnel_credentials follows.
CreateTunnel(c) ==
    /\ c = "api" /\ job[c].pc = "idle" /\ tunnel = "none"
    /\ tunnel' = "active" /\ stamp' = 0
    /\ job' = [job EXCEPT ![c] = [NoJob EXCEPT !.pc = "read", !.op = "create"]]
    /\ UNCHANGED <<ruleOn, swept, hop, channel, replay, mishap>>

\* tunnels::restart
RestartTunnel(c) ==
    /\ c = "api" /\ job[c].pc = "idle" /\ tunnel = "active"
    /\ job' = [job EXCEPT ![c] = [NoJob EXCEPT !.pc = "read"]]
    /\ UNCHANGED <<tunnel, stamp, ruleOn, swept, hop, channel, replay, mishap>>

\* rotate_tick_once: a tunnel whose certificates are old is renewed.
SweepTick ==
    LET due == tunnel = "active" /\ stamp >= RotateAfter IN
    /\ job["sweep"].pc = "idle" /\ ~swept
    /\ IF due THEN job' = [job EXCEPT !["sweep"] = [NoJob EXCEPT !.pc = "read"]]
       ELSE UNCHANGED job
    /\ swept' = ~due
    /\ UNCHANGED <<tunnel, stamp, ruleOn, hop, channel, replay, mishap>>

\* dispatch_tunnel_credentials: the hops, none if the tunnel is gone,
ReadHops(c) ==
    /\ job[c].pc = "read"
    /\ job' = [job EXCEPT ![c].pc = "creds",
                            ![c].hops = IF tunnel = "active" THEN Hops ELSE {}]
    /\ UNCHANGED <<tunnel, stamp, ruleOn, swept, hop, channel, replay, mishap>>

\* a new certificate for each of them,
PushCreds(c) ==
    /\ job[c].pc = "creds"
    /\ PushTo(job[c].hops, "creds")
    /\ job' = [job EXCEPT ![c].pc = "stamp"]
    /\ UNCHANGED <<tunnel, stamp, ruleOn, swept, hop, replay>>

\* or only for some of them, when issuing fails, or the UPDATE after it: then
\* the time is not noted and the sweeper comes again (after a creation the
\* hops that are left out have nothing),
IssueFails(c) ==
    /\ job[c].pc = "creds"
    /\ \E some \in SUBSET job[c].hops :
          /\ channel' = [h \in Hops |-> IF h \in some /\ Takes(h) THEN Append(channel[h], "creds")
                                        ELSE channel[h]]
          /\ mishap' = [h \in Hops |-> IF (IF h \in some THEN Takes(h) ELSE job[c].op = "rotate") THEN mishap[h]
                                       ELSE Wrong(h)]
    /\ job' = [job EXCEPT ![c] = NoJob]
    /\ UNCHANGED <<tunnel, stamp, ruleOn, swept, hop, replay>>

\* and creds_rotated_at.
Stamp(c) ==
    /\ job[c].pc = "stamp"
    /\ stamp' = 0
    /\ IF job[c].op = "create" THEN job' = [job EXCEPT ![c] = NoJob]
       ELSE job' = [job EXCEPT ![c].pc = "restart", ![c].hops = {}]
    /\ UNCHANGED <<tunnel, ruleOn, swept, hop, channel, replay, mishap>>

\* Mutation: the agents are expected to notice new files.
PushRestartNone(c) ==
    /\ job[c].pc = "restart"
    /\ job' = [job EXCEPT ![c] = NoJob]
    /\ swept' = (swept \/ c = "sweep")
    /\ UNCHANGED <<tunnel, stamp, ruleOn, hop, channel, replay, mishap>>

\* rotate_credentials_and_restart: the rule is restarted at every hop.
PushRestart(c) ==
    /\ job[c].pc = "restart"
    /\ PushTo(IF ruleOn THEN Hops ELSE {}, "restart")
    /\ job' = [job EXCEPT ![c] = NoJob]
    /\ swept' = (swept \/ c = "sweep")
    /\ UNCHANGED <<tunnel, stamp, ruleOn, hop, replay>>

\* A rule of the tunnel is created or deleted, under the locks of its nodes.
CreateRule ==
    /\ tunnel = "active" /\ ~ruleOn /\ \A h \in Hops : replay[h] = <<>>
    /\ ruleOn' = TRUE
    /\ PushTo(Hops, "apply")
    /\ UNCHANGED <<tunnel, stamp, swept, job, hop, replay>>

DeleteTheRule ==
    /\ ruleOn /\ \A h \in Hops : replay[h] = <<>>
    /\ ruleOn' = FALSE
    /\ PushTo(Hops, "remove")
    /\ UNCHANGED <<tunnel, stamp, swept, job, hop, replay>>

\* Mutation: the hops are read when their rows are gone.
DeleteReadsLate(c) ==
    /\ c = "api" /\ job[c].pc = "idle" /\ tunnel = "active" /\ ~ruleOn
    /\ tunnel' = "deleted"
    /\ job' = [job EXCEPT ![c] = [pc |-> "revoke", op |-> "delete", hops |-> {}]]
    /\ UNCHANGED <<stamp, ruleOn, swept, hop, channel, replay, mishap>>

\* tunnels::delete: no rule refers to it, its hops are read and it is
\* deleted (what may overlap with that is in Admission),
DeleteTunnel(c) ==
    /\ c = "api" /\ job[c].pc = "idle" /\ tunnel = "active" /\ ~ruleOn
    /\ tunnel' = "deleted"
    /\ job' = [job EXCEPT ![c] = [pc |-> "revoke", op |-> "delete", hops |-> Hops]]
    /\ UNCHANGED <<stamp, ruleOn, swept, hop, channel, replay, mishap>>

\* and every hop is told once to delete its files.  A replay or a renewal
\* that was reading at the time sends its certificates after that.
Revoke(c) ==
    LET overtakes(h) == \/ Contains(replay[h], "creds")
                        \/ \E k \in Callers : job[k].pc = "creds" /\ h \in job[k].hops
    IN
    /\ job[c].pc = "revoke"
    /\ channel' = [h \in Hops |-> IF h \in job[c].hops /\ Takes(h)
                                  THEN Append(channel[h], "revoke") ELSE channel[h]]
    /\ mishap' = [h \in Hops |-> IF ~Takes(h) \/ overtakes(h) THEN mishap[h] \cup {"kept"}
                                 ELSE mishap[h]]
    /\ job' = [job EXCEPT ![c] = NoJob]
    /\ UNCHANGED <<tunnel, stamp, ruleOn, swept, hop, replay>>

-----------------------------------------------------------------------------
(* An agent *)

\* TlsTransport::load for a start of the rule.
Load(disk) == IF disk \in Ages THEN disk ELSE NoCert

\* A failed command is kept for the retry queue.
Started(a, kind, left) ==
    LET got == Load(a.disk) IN
    [a EXCEPT !.run = got, !.saved = @ \/ got # NoCert,
              !.retry = IF got = NoCert /\ left > 0 THEN [kind |-> kind, left |-> left]
                        ELSE NoRetry]

\* handle_command of cmd at an agent in state a.
Handled(a, cmd) ==
    CASE cmd = "creds" -> [a EXCEPT !.disk = 0]
      [] cmd = "revoke" -> [a EXCEPT !.disk = NoCert]
      [] cmd = "remove" -> [a EXCEPT !.run = NoCert, !.saved = FALSE, !.retry = NoRetry]
      [] cmd = "apply" -> Started(a, "apply", MaxRetries)
      [] cmd = "restart" -> IF a.run = NoCert THEN [a EXCEPT !.retry = NoRetry, !.saved = FALSE]
                            ELSE Started(a, "restart", MaxRetries)

Receive(h) ==
    /\ hop[h].conn /\ channel[h] # <<>>
    /\ hop' = [hop EXCEPT ![h] = Handled(@, Head(channel[h]))]
    /\ channel' = [channel EXCEPT ![h] = Tail(@)]
    /\ mishap' = IF Head(channel[h]) = "restart" /\ hop[h].retry.kind = "apply"
                 THEN [mishap EXCEPT ![h] = @ \cup {"wrong"}] ELSE mishap
    /\ UNCHANGED <<tunnel, stamp, ruleOn, swept, job, replay>>

\* creds::store fails; before or after its first file.
StoreFails(h) ==
    /\ hop[h].conn /\ channel[h] # <<>> /\ Head(channel[h]) = "creds"
    /\ \E d \in {hop[h].disk, Torn} : hop' = [hop EXCEPT ![h].disk = d]
    /\ channel' = [channel EXCEPT ![h] = Tail(@)]
    /\ mishap' = [mishap EXCEPT ![h] = @ \cup {"wrong"}]
    /\ UNCHANGED <<tunnel, stamp, ruleOn, swept, job, replay>>

\* 30 s later, when what was on the way or being done has arrived: a retried start, or
\* a retried restart, which finds nothing to restart.
Retry(h) ==
    LET r == hop[h].retry IN
    /\ r.kind # "none" /\ channel[h] = <<>> /\ replay[h] = <<>>
    /\ \A c \in Callers : job[c].pc = "idle"
    /\ IF r.kind = "apply" THEN hop' = [hop EXCEPT ![h] = Started(@, "apply", r.left - 1)]
       ELSE hop' = [hop EXCEPT ![h].retry = NoRetry, ![h].saved = FALSE]
    /\ UNCHANGED <<tunnel, stamp, ruleOn, swept, job, channel, replay, mishap>>

\* The stream ends with what is in it; retries belong to the session.
Lost(h) ==
    /\ channel' = [channel EXCEPT ![h] = <<>>]
    /\ replay' = [replay EXCEPT ![h] = <<>>]
    /\ mishap' = [mishap EXCEPT ![h] = IF Contains(channel[h], "revoke") THEN {"kept"}
                                       ELSE @ \cap {"kept"}]
    /\ UNCHANGED <<tunnel, stamp, ruleOn, swept, job>>

Disconnect(h) ==
    /\ hop[h].conn
    /\ hop' = [hop EXCEPT ![h].conn = FALSE, ![h].retry = NoRetry]
    /\ Lost(h)

\* The agent crashes, maybe while it stores certificates, and starts the
\* rule of its state file.
Crash(h) ==
    LET d == IF channel[h] # <<>> /\ Head(channel[h]) = "creds" THEN {hop[h].disk, Torn}
             ELSE {hop[h].disk}
    IN
    /\ hop[h].conn
    /\ \E disk \in d :
          hop' = [hop EXCEPT ![h].conn = FALSE, ![h].retry = NoRetry, ![h].disk = disk,
                                 ![h].run = IF hop[h].saved THEN Load(disk) ELSE NoCert]
    /\ Lost(h)

\* subscribe_commands, reconcile_commands_for_node: new certificates first,
\* then the rule, or none (ReconcileRules).
Connect(h) ==
    /\ ~hop[h].conn
    /\ hop' = [hop EXCEPT ![h].conn = TRUE]
    /\ replay' = [replay EXCEPT ![h] =
          (IF tunnel = "active" THEN <<"creds">> ELSE <<>>)
          \o (IF ruleOn THEN <<"apply">> ELSE <<"remove">>)]
    /\ UNCHANGED <<tunnel, stamp, ruleOn, swept, job, channel, mishap>>

\* The replay waits for room in the channel.
ReplaySend(h) ==
    /\ replay[h] # <<>> /\ Takes(h)
    /\ channel' = [channel EXCEPT ![h] = Append(@, Head(replay[h]))]
    /\ replay' = [replay EXCEPT ![h] = Tail(@)]
    /\ UNCHANGED <<tunnel, stamp, ruleOn, swept, job, hop, mishap>>

-----------------------------------------------------------------------------
\* Nothing is on its way to h or being done.
Quiet(h) ==
    /\ channel[h] = <<>> /\ replay[h] = <<>> /\ hop[h].retry = NoRetry
    /\ \A c \in Callers : job[c].pc = "idle"

Older(age) == IF age < Validity THEN age + 1 ELSE age

Tick ==
    /\ swept /\ \A h \in Hops : Quiet(h)
    /\ stamp' = Older(stamp)
    /\ hop' = [h \in Hops |-> [hop[h] EXCEPT !.disk = Older(@), !.run = Older(@)]]
    /\ swept' = FALSE
    /\ UNCHANGED <<tunnel, ruleOn, job, channel, replay, mishap>>

CredsNext ==
    \/ \E c \in Callers :
          \/ CreateTunnel(c) \/ RestartTunnel(c) \/ DeleteTunnel(c) \/ ReadHops(c)
          \/ PushCreds(c) \/ IssueFails(c) \/ Stamp(c) \/ PushRestart(c) \/ Revoke(c)
    \/ SweepTick \/ CreateRule \/ DeleteTheRule \/ Tick
    \/ \E h \in Hops :
          \/ Receive(h) \/ StoreFails(h) \/ Retry(h) \/ Disconnect(h) \/ Crash(h)
          \/ Connect(h) \/ ReplaySend(h)

CredsSpec == CredsInit /\ [][CredsNext]_credVars

-----------------------------------------------------------------------------
\* A connected hop for which nothing went wrong since it connected serves the
\* rule with a certificate that has not expired: whether the rule was applied
\* before the certificates came, whether renewals overlapped or failed half
\* way, and whatever it missed while it was away.
FreshWhileConnected ==
    \A h \in Hops :
        hop[h].conn /\ Quiet(h) /\ ruleOn /\ "wrong" \notin mishap[h]
        => hop[h].run < Validity

\* The private keys of a deleted tunnel are gone from a connected hop, unless
\* it missed the one command that says so, or a replay or a renewal was under
\* way when the tunnel was deleted.
KeysGone ==
    \A h \in Hops :
        hop[h].conn /\ Quiet(h) /\ tunnel = "deleted" /\ "kept" \notin mishap[h]
        => hop[h].disk = NoCert
=============================================================================
