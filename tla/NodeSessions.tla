---------------------------- MODULE NodeSessions ----------------------------
(***************************************************************************)
(* Who may speak for a node, and whether the panel knows it is alive:      *)
(* register, verify_session_with_cert, heartbeat and subscribe_commands of *)
(* grpc/service.rs, the session table, the revocation list and its file,   *)
(* delete and revoke_credentials of routes/nodes.rs, the offline sweeper,  *)
(* and the agent's connect, register, subscribe, heartbeat, back-off loop. *)
(*                                                                         *)
(* One node, with mutual TLS.  Several machines may hold its token and a   *)
(* certificate (the operator moved the node and left the old one running). *)
(* A certificate is the number of its issue.  Of the session table only    *)
(* the session each machine can still present is kept.                     *)
(***************************************************************************)
EXTENDS Naturals, FiniteSets

CONSTANTS
    Agents,     \* machines that hold the node's agent token
    Admins,     \* administrators' calls that may overlap
    MaxCert,    \* bound: certificates ever issued
    MaxFaults   \* bound: panel restarts and broken connections together

ASSUME SessionAssumption ==
    /\ Agents # {} /\ IsFiniteSet(Agents)
    /\ MaxCert \in Nat \ {0} /\ MaxFaults \in Nat

VARIABLES
    node,     \* the row: deleted, status, fp (cert_fingerprint), stale
              \* (last_seen_at is older than the offline threshold)
    crl,      \* fingerprints revoked, in memory
    crlFile,  \* ... and in crl.json
    issued,   \* certificates issued
    handed,   \* the newest one an administrator received
    sess,     \* sess[a]: fingerprint bound to the session a holds, 0 if none
    agent,    \* the agent process: where it is, its certificate
    call,     \* the RPC handler serving a: its step, the peer's fingerprint,
              \* the status it read, whether a still waits for it
    adm,      \* an administrator's call: its step, what it read and issued
    sweep,    \* the offline sweeper: "idle", or "found" after its SELECT
    told,     \* last event sent for the node: node.online or node.offline
    acked,    \* fingerprints whose revocation was answered with success
    faults

sessVars == <<node, crl, crlFile, issued, handed, sess, agent, call, adm, sweep,
          told, acked, faults>>

Certs == 1..MaxCert
NoCall == [pc |-> "idle", fp |-> 0, prev |-> "none", heard |-> FALSE]
NoAdm == [pc |-> "idle", old |-> 0, new |-> 0]

SessTypeOK ==
    /\ node \in [deleted : BOOLEAN, status : {"online", "offline"},
                 fp : Certs, stale : BOOLEAN]
    /\ crl \subseteq Certs /\ crlFile \subseteq crl /\ acked \subseteq crlFile
    /\ issued \in Certs /\ handed \in 1..issued
    /\ sess \in [Agents -> 0..MaxCert]
    /\ agent \in [Agents -> [cert : 0..MaxCert,
                             pc : {"off", "backoff", "registering", "registered",
                                   "streaming", "beating"}]]
    /\ call \in [Agents -> [pc : {"idle", "crl", "bind", "insert", "prev",
                                  "update", "beatPrev", "beatUpdate"},
                            fp : 0..MaxCert, prev : {"none", "online", "offline"},
                            heard : BOOLEAN]]
    /\ adm \in [Admins -> [pc : {"idle", "issue", "kick", "deleteKick"},
                           old : 0..MaxCert, new : 0..MaxCert]]
    /\ sweep \in {"idle", "found"}
    /\ told \in {"online", "offline"}
    /\ faults \in 0..MaxFaults

\* routes::nodes::create has returned: the row exists, offline, with
\* certificate 1, which no machine has been given yet.
SessionsInit ==
    /\ node = [deleted |-> FALSE, status |-> "offline", fp |-> 1, stale |-> TRUE]
    /\ crl = {} /\ crlFile = {} /\ acked = {}
    /\ issued = 1 /\ handed = 1
    /\ sess = [a \in Agents |-> 0]
    /\ agent = [a \in Agents |-> [cert |-> 0, pc |-> "off"]]
    /\ call = [a \in Agents |-> NoCall]
    /\ adm = [m \in Admins |-> NoAdm]
    /\ sweep = "idle" /\ told = "offline" /\ faults = 0

-----------------------------------------------------------------------------
(* The agent and its RPCs *)

panelVars == <<node, crl, crlFile, issued, handed, adm, sweep, told, acked>>

\* The handler of a ends.  A machine that still waits moves on to pc; an
\* error sends it to its back-off.
Reply(a, pc) ==
    /\ call' = [call EXCEPT ![a] = NoCall]
    /\ agent' = IF call[a].heard THEN [agent EXCEPT ![a].pc = pc] ELSE agent

\* Out of its back-off the agent connects and registers.  The handler's
\* first read: the token hash of a node that is not deleted.
Register(a) ==
    /\ agent[a].pc = "backoff" /\ call[a].pc = "idle"
    /\ sess' = [sess EXCEPT ![a] = 0]
    /\ IF node.deleted
       THEN UNCHANGED <<agent, call>>
       ELSE /\ agent' = [agent EXCEPT ![a].pc = "registering"]
            /\ call' = [call EXCEPT ![a] = [NoCall EXCEPT !.pc = "crl", !.fp = agent[a].cert,
                                                          !.heard = TRUE]]
    /\ UNCHANGED <<panelVars, faults>>

\* The peer certificate must not be revoked.
RegisterCrl(a) ==
    /\ call[a].pc = "crl"
    /\ IF call[a].fp \in crl
       THEN Reply(a, "backoff")
       ELSE call' = [call EXCEPT ![a].pc = "bind"] /\ UNCHANGED agent
    /\ UNCHANGED <<panelVars, sess, faults>>

\* It must be the one bound to the node.  The row of a node deleted since
\* is not found, which counts as "no fingerprint bound" and is let through.
RegisterBind(a) ==
    /\ call[a].pc = "bind"
    /\ IF ~node.deleted /\ node.fp # call[a].fp
       THEN Reply(a, "backoff")
       ELSE call' = [call EXCEPT ![a].pc = "insert"] /\ UNCHANGED agent
    /\ UNCHANGED <<panelVars, sess, faults>>

\* The agent_sessions row and the session; a machine that went away never
\* learns its token.
RegisterInsert(a) ==
    /\ call[a].pc = "insert"
    /\ sess' = IF call[a].heard THEN [sess EXCEPT ![a] = call[a].fp] ELSE sess
    /\ call' = [call EXCEPT ![a].pc = "prev"]
    /\ UNCHANGED <<panelVars, agent, faults>>

PrevStatus == IF node.deleted THEN "none" ELSE node.status

ReadPrev(a) ==
    /\ call[a].pc \in {"prev", "beatPrev"}
    /\ call' = [call EXCEPT ![a].prev = PrevStatus,
                            ![a].pc = IF @ = "prev" THEN "update" ELSE "beatUpdate"]
    /\ UNCHANGED <<panelVars, sess, agent, faults>>

\* The event of a flip is decided by the status read before the UPDATE.
NoticeOnline(a) == told' = IF call[a].prev = "offline" THEN "online" ELSE told

\* register's UPDATE: no condition on deleted_at.
RegisterUpdate(a) ==
    /\ call[a].pc = "update"
    /\ node' = [node EXCEPT !.status = "online", !.stale = FALSE]
    /\ NoticeOnline(a)
    /\ Reply(a, "registered")
    /\ UNCHANGED <<crl, crlFile, issued, handed, sess, adm, sweep, acked, faults>>

\* Mutation: the certificate of a session is not looked up in the CRL again.
VerifiedByToken(a) == sess[a] # 0 /\ sess[a] = agent[a].cert

\* verify_session_with_cert: the token is in the table and not expired, the
\* peer certificate is the one it was issued for, and is not revoked.
Verified(a) == sess[a] # 0 /\ sess[a] = agent[a].cert /\ sess[a] \notin crl

\* Mutation: an agent whose subscription is refused stays where it is.
SubscribeWaits(a) ==
    /\ agent[a].pc = "registered" /\ call[a].pc = "idle"
    /\ agent' = IF Verified(a) THEN [agent EXCEPT ![a].pc = "streaming"] ELSE agent
    /\ UNCHANGED <<panelVars, sess, call, faults>>

\* subscribe_commands; the dispatcher's new channel ends any older stream of
\* the node, and its agent's session with it.
Subscribe(a) ==
    /\ agent[a].pc = "registered" /\ call[a].pc = "idle"
    /\ agent' = IF Verified(a)
                THEN [b \in Agents |->
                        IF b = a THEN [agent[a] EXCEPT !.pc = "streaming"]
                        ELSE IF agent[b].pc \in {"streaming", "beating"}
                        THEN [agent[b] EXCEPT !.pc = "backoff"] ELSE agent[b]]
                ELSE [agent EXCEPT ![a].pc = "backoff"]
    /\ call' = IF Verified(a)
               THEN [b \in Agents |-> IF agent[b].pc = "beating"
                                      THEN [call[b] EXCEPT !.heard = FALSE] ELSE call[b]]
               ELSE call
    /\ UNCHANGED <<panelVars, sess, faults>>

\* Mutation: a refused heartbeat is only warned about, as refused stats are.
HeartbeatWarns(a) ==
    /\ agent[a].pc = "streaming" /\ call[a].pc = "idle" /\ Verified(a)
    /\ agent' = [agent EXCEPT ![a].pc = "beating"]
    /\ call' = [call EXCEPT ![a] = [NoCall EXCEPT !.pc = "beatPrev", !.fp = agent[a].cert,
                                                  !.heard = TRUE]]
    /\ UNCHANGED <<panelVars, sess, faults>>

\* A refused heartbeat ends run_session, and with it the stream.
Heartbeat(a) ==
    /\ agent[a].pc = "streaming" /\ call[a].pc = "idle"
    /\ IF Verified(a)
       THEN /\ agent' = [agent EXCEPT ![a].pc = "beating"]
            /\ call' = [call EXCEPT ![a] = [NoCall EXCEPT !.pc = "beatPrev", !.fp = agent[a].cert,
                                                          !.heard = TRUE]]
       ELSE agent' = [agent EXCEPT ![a].pc = "backoff"] /\ UNCHANGED call
    /\ UNCHANGED <<panelVars, sess, faults>>

\* heartbeat's UPDATE skips a deleted node; the event does not.
HeartbeatUpdate(a) ==
    /\ call[a].pc = "beatUpdate"
    /\ node' = IF node.deleted THEN node
               ELSE [node EXCEPT !.status = "online", !.stale = FALSE]
    /\ NoticeOnline(a)
    /\ Reply(a, "streaming")
    /\ UNCHANGED <<crl, crlFile, issued, handed, sess, adm, sweep, acked, faults>>

\* The handler's future is dropped at an await once its connection is gone.
CallDropped(a) ==
    /\ call[a].pc # "idle" /\ ~call[a].heard
    /\ call' = [call EXCEPT ![a] = NoCall]
    /\ UNCHANGED <<panelVars, sess, agent, faults>>

\* A broken connection, noticed by the keep-alives at the latest.
Break(a) ==
    /\ faults < MaxFaults
    /\ agent[a].pc \in {"registering", "registered", "streaming", "beating"}
    /\ faults' = faults + 1
    /\ agent' = [agent EXCEPT ![a].pc = "backoff"]
    /\ call' = [call EXCEPT ![a].heard = FALSE]
    /\ UNCHANGED <<panelVars, sess>>

\* The operator installs the newest credentials on a machine, which restarts.
Install(a) ==
    /\ agent[a].cert # handed
    /\ agent' = [agent EXCEPT ![a] = [cert |-> handed, pc |-> "backoff"]]
    /\ call' = [call EXCEPT ![a].heard = FALSE]
    /\ UNCHANGED <<panelVars, sess, faults>>

-----------------------------------------------------------------------------
(* Time, the sweeper and restarts *)

\* SESSION_TTL_HOURS passed since the registration.
Expire(a) ==
    /\ sess[a] # 0
    /\ sess' = [sess EXCEPT ![a] = 0]
    /\ UNCHANGED <<panelVars, agent, call, faults>>

\* No heartbeat arrived for the length of the offline threshold.
Silence ==
    /\ ~node.stale
    /\ node' = [node EXCEPT !.stale = TRUE]
    /\ UNCHANGED <<crl, crlFile, issued, handed, sess, agent, call, adm, sweep, told,
                   acked, faults>>

SweepSelect ==
    /\ sweep = "idle"
    /\ node.status = "online" /\ ~node.deleted /\ node.stale
    /\ sweep' = "found"
    /\ UNCHANGED <<node, crl, crlFile, issued, handed, sess, agent, call, adm, told,
                   acked, faults>>

\* Mutation: the UPDATE trusts the SELECT.
SweepUpdateBlind ==
    /\ sweep = "found"
    /\ sweep' = "idle"
    /\ node' = [node EXCEPT !.status = "offline"]
    /\ told' = "offline"
    /\ UNCHANGED <<crl, crlFile, issued, handed, sess, agent, call, adm, acked, faults>>

\* The UPDATE checks the status and the age again; an event per row it flips.
SweepUpdate ==
    /\ sweep = "found"
    /\ sweep' = "idle"
    /\ IF node.status = "online" /\ node.stale
       THEN node' = [node EXCEPT !.status = "offline"] /\ told' = "offline"
       ELSE UNCHANGED <<node, told>>
    /\ UNCHANGED <<crl, crlFile, issued, handed, sess, agent, call, adm, acked, faults>>

\* The panel restarts: sessions, streams and calls are gone, the CRL is
\* read from its file.
PanelRestart ==
    /\ faults < MaxFaults
    /\ faults' = faults + 1
    /\ crl' = crlFile
    /\ sess' = [a \in Agents |-> 0]
    /\ agent' = [a \in Agents |-> IF agent[a].pc = "off" THEN agent[a]
                                  ELSE [agent[a] EXCEPT !.pc = "backoff"]]
    /\ call' = [a \in Agents |-> NoCall]
    /\ adm' = [m \in Admins |-> NoAdm]
    /\ sweep' = "idle"
    /\ UNCHANGED <<node, crlFile, issued, handed, told, acked>>

-----------------------------------------------------------------------------
(* Administrators *)

\* revoke_credentials: the old fingerprint is read; a deleted node is not
\* found.
RevokeRead(m) ==
    /\ adm[m].pc = "idle"
    /\ ~node.deleted /\ issued < MaxCert
    /\ adm' = [adm EXCEPT ![m] = [pc |-> "issue", old |-> node.fp, new |-> 0]]
    /\ UNCHANGED <<node, crl, crlFile, issued, handed, sess, agent, call, sweep, told,
                   acked, faults>>

\* It enters the CRL and the file, and the new certificate is issued.
RevokeIssue(m) ==
    /\ adm[m].pc = "issue" /\ adm[m].new = 0
    /\ issued < MaxCert
    /\ crl' = crl \cup {adm[m].old}
    /\ crlFile' = crl'
    /\ issued' = issued + 1
    /\ adm' = [adm EXCEPT ![m].new = issued + 1]
    /\ UNCHANGED <<node, handed, sess, agent, call, sweep, told, acked, faults>>

\* The file cannot be written: the fingerprint stays in memory, the call fails.
RevokeFileFails(m) ==
    /\ adm[m].pc = "issue" /\ adm[m].new = 0
    /\ crl' = crl \cup {adm[m].old}
    /\ adm' = [adm EXCEPT ![m] = NoAdm]
    /\ UNCHANGED <<node, crlFile, issued, handed, sess, agent, call, sweep, told, acked,
                   faults>>

\* set_cert_meta
RevokeBind(m) ==
    /\ adm[m].pc = "issue" /\ adm[m].new # 0
    /\ node' = IF node.deleted THEN node ELSE [node EXCEPT !.fp = adm[m].new]
    /\ adm' = [adm EXCEPT ![m].pc = "kick"]
    /\ UNCHANGED <<crl, crlFile, issued, handed, sess, agent, call, sweep, told, acked,
                   faults>>

\* SessionRegistry::revoke_node
KickSessions == sess' = [a \in Agents |-> 0]

\* The sessions go and the administrator gets the new credentials.
RevokeKick(m) ==
    /\ adm[m].pc = "kick"
    /\ KickSessions
    /\ handed' = IF adm[m].new > handed THEN adm[m].new ELSE handed
    /\ acked' = acked \cup {adm[m].old}
    /\ adm' = [adm EXCEPT ![m] = NoAdm]
    /\ UNCHANGED <<node, crl, crlFile, issued, agent, call, sweep, told, faults>>

\* delete: soft_delete of a node without rules and tunnels, then revoke_node.
Delete(m) ==
    /\ adm[m].pc = "idle" /\ ~node.deleted
    /\ node' = [node EXCEPT !.deleted = TRUE]
    /\ adm' = [adm EXCEPT ![m].pc = "deleteKick"]
    /\ UNCHANGED <<crl, crlFile, issued, handed, sess, agent, call, sweep, told, acked,
                   faults>>

DeleteKick(m) ==
    /\ adm[m].pc = "deleteKick"
    /\ KickSessions
    /\ adm' = [adm EXCEPT ![m] = NoAdm]
    /\ UNCHANGED <<node, crl, crlFile, issued, handed, agent, call, sweep, told, acked,
                   faults>>

-----------------------------------------------------------------------------
Handler(a) ==
    \/ RegisterCrl(a) \/ RegisterBind(a) \/ RegisterInsert(a) \/ ReadPrev(a)
    \/ RegisterUpdate(a) \/ HeartbeatUpdate(a)

Machine(a) == Register(a) \/ Subscribe(a) \/ Heartbeat(a)

AdminStep(m) ==
    \/ RevokeIssue(m) \/ RevokeFileFails(m) \/ RevokeBind(m) \/ RevokeKick(m)
    \/ DeleteKick(m)

SessionsNext ==
    \/ \E a \in Agents : \/ Handler(a) \/ Machine(a) \/ CallDropped(a)
                         \/ Break(a) \/ Install(a) \/ Expire(a)
    \/ \E m \in Admins : AdminStep(m) \/ RevokeRead(m) \/ Delete(m)
    \/ Silence \/ SweepSelect \/ SweepUpdate \/ PanelRestart

\* Handlers run to their end, the agent's loop goes round, sessions get old,
\* the sweeper ticks.
SessionsFairness ==
    /\ \A a \in Agents : WF_sessVars(Handler(a)) /\ WF_sessVars(Machine(a)) /\ WF_sessVars(Expire(a))
    /\ \A m \in Admins : WF_sessVars(AdminStep(m))
    /\ WF_sessVars(SweepSelect \/ SweepUpdate)

SessionsSpec == SessionsInit /\ [][SessionsNext]_sessVars /\ SessionsFairness

-----------------------------------------------------------------------------
\* A machine's call passes the session check in this step.
Admitted(a) ==
    \/ agent[a].pc = "registered" /\ agent'[a].pc = "streaming"
    \/ agent[a].pc = "streaming" /\ agent'[a].pc = "beating"

\* Once revoke_credentials has answered, no call with the old certificate is
\* admitted again: not by a session whose registration was under way, and
\* not after a panel restart.
RevocationHolds ==
    [][\A a \in Agents : Admitted(a) => agent[a].cert \notin acked]_sessVars

\* The panel's picture of a node is right both ways: node.offline is only
\* sent for a node that is silent at that moment, not for one whose heartbeat
\* came in after the sweeper looked; and a node that is not deleted does not
\* stay online and silent for ever.
OfflineIffSilent ==
    /\ [][node.status = "online" /\ node'.status = "offline" => node.stale]_sessVars
    /\ []<>~(node.status = "online" /\ node.stale /\ ~node.deleted)

\* The machine with the node's current, unrevoked certificate gets a working
\* session again, after restarts, kicks, expiry and broken connections.
AgentComesBack ==
    \A a \in Agents :
        []<>(Verified(a) \/ node.deleted \/ agent[a].cert # node.fp \/ node.fp \in crl)

\* Access ends, although revocation, deletion and expiry leave open streams
\* alone and registrations overlap them: a stream does not stay open without
\* a valid session, and from some time on no session of a deleted node is
\* usable.
AccessEnds ==
    /\ \A a \in Agents : []<>~(agent[a].pc \in {"streaming", "beating"} /\ ~Verified(a))
    /\ \A a \in Agents : <>[](node.deleted => ~Verified(a))

\* routes/nodes.rs:606: deleting a node invalidates all of its sessions at
\* once; none is usable after the call, outside of a step of the delete.  Not
\* an invariant: a registration that read the row before goes on afterwards.
DeletedNodeSilent ==
    \A a \in Agents :
        node.deleted /\ Verified(a) => \E m \in Admins : adm[m].pc = "deleteKick"

\* service.rs:269: also when the sweeper misjudged and a heartbeat writes the
\* status back, the recovery is sent: an online node at rest was last told
\* to be online.  Not an invariant: the sweeper may write and notify between a
\* heartbeat's read of the status and its UPDATE.
RecoveryTold ==
    node.status = "online" /\ ~node.deleted /\ (\A a \in Agents : call[a].pc = "idle") => told = "online"
=============================================================================
