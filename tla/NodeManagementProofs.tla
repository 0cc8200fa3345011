------------------------ MODULE NodeManagementProofs ------------------------
(***************************************************************************)
(* Theorems about the sessions of a node (NodeSessions) and about the      *)
(* probes of a diagnosis (Diagnosis), each for the component's own         *)
(* specification.                                                          *)
(***************************************************************************)
EXTENDS NodeManagement, TLAPS

Machines == [cert : 0..MaxCert,
             pc : {"off", "backoff", "registering", "registered", "streaming", "beating"}]
Handlers == [pc : {"idle", "crl", "bind", "insert", "prev", "update", "beatPrev", "beatUpdate"},
             fp : 0..MaxCert, prev : {"none", "online", "offline"}, heard : BOOLEAN]
Revokers == [pc : {"idle", "issue", "kick", "deleteKick"}, old : 0..MaxCert, new : 0..MaxCert]

\* revoke_credentials goes on to bind, kick and answer only with the old
\* fingerprint in the file: a restart in between does not forget it.
RevokedKnown ==
    \A m \in Admins :
        /\ adm[m].new <= issued
        /\ adm[m].pc = "issue" => adm[m].old \in Certs
        /\ adm[m].pc = "kick" => adm[m].new # 0
        /\ adm[m].new # 0 => adm[m].pc \in {"issue", "kick"} /\ adm[m].old \in crlFile

\* A handler somebody waits for is the one of the step his machine is in: its
\* reply never moves a machine past a check.
HandlerServes ==
    \A a \in Agents : call[a].heard =>
        /\ call[a].pc \in {"crl", "bind", "insert", "prev", "update"} => agent[a].pc = "registering"
        /\ call[a].pc \in {"beatPrev", "beatUpdate"} => agent[a].pc = "beating"
        /\ call[a].pc # "idle"

SessInv == SessTypeOK /\ RevokedKnown /\ HandlerServes

LEMMA InitSess == SessionsInit => SessInv
BY SessionAssumption
   DEF SessionsInit, SessInv, SessTypeOK, RevokedKnown, HandlerServes, NoCall, NoAdm, Certs

LEMMA NoCallType == NoCall \in Handlers /\ NoCall.pc = "idle" /\ NoCall.heard = FALSE
BY SessionAssumption DEF NoCall, Handlers

LEMMA NoAdmType == NoAdm \in Revokers /\ NoAdm.pc = "idle" /\ NoAdm.new = 0
BY SessionAssumption DEF NoAdm, Revokers

-----------------------------------------------------------------------------
\* Steps of a machine and its handler, which leave the revocations alone.
\* One machine a changes; no other handler gets to be heard.
LEMMA MachineKeeps ==
    ASSUME SessInv, NEW a \in Agents, NEW r \in Machines, NEW h \in Handlers,
           agent' = [agent EXCEPT ![a] = r], call' = [call EXCEPT ![a] = h],
           UNCHANGED <<crl, crlFile, issued, handed, adm, acked>>,
           node' \in [deleted : BOOLEAN, status : {"online", "offline"}, fp : Certs, stale : BOOLEAN],
           sess' \in [Agents -> 0..MaxCert],
           sweep' = sweep, told' \in {"online", "offline"}, faults' \in 0..MaxFaults,
           h.heard =>
              /\ h.pc \in {"crl", "bind", "insert", "prev", "update"} => r.pc = "registering"
              /\ h.pc \in {"beatPrev", "beatUpdate"} => r.pc = "beating"
              /\ h.pc # "idle"
    PROVE  SessInv'
<1>1. SessTypeOK'
  BY DEF SessInv, SessTypeOK, Machines, Handlers, Certs
<1>2. RevokedKnown'
  BY DEF SessInv, RevokedKnown
<1>3. HandlerServes'
  BY DEF SessInv, SessTypeOK, HandlerServes
<1> QED
  BY <1>1, <1>2, <1>3 DEF SessInv

\* Steps of an administrator m, which leave machines and handlers alone.
LEMMA AdminKeeps ==
    ASSUME SessInv, NEW m \in Admins, NEW r \in Revokers,
           adm' = [adm EXCEPT ![m] = r],
           UNCHANGED <<agent, call, sweep, told, faults>>,
           node' \in [deleted : BOOLEAN, status : {"online", "offline"}, fp : Certs, stale : BOOLEAN],
           crl' \in SUBSET Certs, crlFile' \in SUBSET crl', crlFile \subseteq crlFile',
           acked' \in SUBSET crlFile', issued' \in Certs, issued <= issued',
           handed' \in 1..issued', sess' \in [Agents -> 0..MaxCert],
           r.new <= issued',
           r.pc = "issue" => r.old \in Certs,
           r.pc = "kick" => r.new # 0,
           r.new # 0 => r.pc \in {"issue", "kick"} /\ r.old \in crlFile'
    PROVE  SessInv'
<1>1. SessTypeOK'
  BY DEF SessInv, SessTypeOK, Revokers
<1>2. RevokedKnown'
  BY SessionAssumption DEF SessInv, SessTypeOK, RevokedKnown, Certs, Revokers
<1>3. HandlerServes'
  BY DEF SessInv, HandlerServes
<1> QED
  BY <1>1, <1>2, <1>3 DEF SessInv

\* ... and the list, the file and the certificates as they are.
LEMMA AdminKeepsList ==
    ASSUME SessInv, NEW m \in Admins, NEW r \in Revokers,
           adm' = [adm EXCEPT ![m] = r],
           UNCHANGED <<agent, call, sweep, told, faults, crl, crlFile, acked, issued, handed>>,
           node' \in [deleted : BOOLEAN, status : {"online", "offline"}, fp : Certs, stale : BOOLEAN],
           sess' \in [Agents -> 0..MaxCert],
           r.new <= issued,
           r.pc = "issue" => r.old \in Certs,
           r.pc = "kick" => r.new # 0,
           r.new # 0 => r.pc \in {"issue", "kick"} /\ r.old \in crlFile
    PROVE  SessInv'
<1>1. /\ crl' \in SUBSET Certs /\ crlFile' \in SUBSET crl' /\ crlFile \subseteq crlFile'
      /\ acked' \in SUBSET crlFile' /\ issued' \in Certs /\ issued <= issued'
      /\ handed' \in 1..issued'
  BY SessionAssumption DEF SessInv, SessTypeOK, Certs
<1>2. r.new <= issued' /\ crlFile' = crlFile
  OBVIOUS
<1> QED
  BY <1>1, <1>2, AdminKeeps

LEMMA ReplyKeeps ==
    ASSUME SessInv, NEW a \in Agents,
           NEW pc \in {"backoff", "registered", "streaming"}, Reply(a, pc),
           UNCHANGED <<crl, crlFile, issued, handed, sess, adm, sweep, acked, faults>>,
           node' \in [deleted : BOOLEAN, status : {"online", "offline"}, fp : Certs, stale : BOOLEAN],
           told' \in {"online", "offline"}
    PROVE  SessInv'
<1> DEFINE r == IF call[a].heard THEN [agent[a] EXCEPT !.pc = pc] ELSE agent[a]
<1>1. agent \in [Agents -> Machines] /\ sess \in [Agents -> 0..MaxCert]
      /\ sweep \in {"idle", "found"} /\ faults \in 0..MaxFaults
  BY DEF SessInv, SessTypeOK, Machines
<1>2. r \in Machines
  BY <1>1 DEF Machines
<1>3. agent' = [agent EXCEPT ![a] = r]
  BY <1>1 DEF Reply
<1>4. call' = [call EXCEPT ![a] = NoCall]
  BY DEF Reply
<1> HIDE DEF r
<1> QED
  BY <1>1, <1>2, <1>3, <1>4, NoCallType, MachineKeeps

\* Steps of a machine that is served: only its handler moves on.
LEMMA HandlerKeeps ==
    ASSUME SessInv, NEW a \in Agents, NEW h \in Handlers,
           call' = [call EXCEPT ![a] = h],
           UNCHANGED <<node, crl, crlFile, issued, handed, adm, sweep, told, acked, faults, agent>>,
           sess' \in [Agents -> 0..MaxCert],
           h.heard => call[a].heard /\ h.pc # "idle",
           h.pc \in {"crl", "bind", "insert", "prev", "update"}
              => call[a].pc \in {"crl", "bind", "insert", "prev", "update"},
           h.pc \in {"beatPrev", "beatUpdate"} => call[a].pc \in {"beatPrev", "beatUpdate"}
    PROVE  SessInv'
<1>1. agent \in [Agents -> Machines]
  BY DEF SessInv, SessTypeOK, Machines
<1>2. agent' = [agent EXCEPT ![a] = agent[a]] /\ agent[a] \in Machines
  BY <1>1
<1> QED
  BY <1>2, MachineKeeps DEF SessInv, SessTypeOK, HandlerServes

-----------------------------------------------------------------------------
LEMMA HandlerStep == ASSUME SessInv, NEW a \in Agents, Handler(a) PROVE SessInv'
<1>1. call \in [Agents -> Handlers] /\ call[a] \in Handlers
  BY DEF SessInv, SessTypeOK, Handlers
<1>2. CASE RegisterCrl(a)
  <2>1. CASE call[a].fp \in crl
    BY <1>2, <2>1, ReplyKeeps DEF RegisterCrl, panelVars, SessInv, SessTypeOK
  <2>2. CASE call[a].fp \notin crl
    <3> DEFINE h == [call[a] EXCEPT !.pc = "bind"]
    <3>1. h \in Handlers /\ h.pc = "bind" /\ h.heard = call[a].heard
      BY <1>1 DEF Handlers
    <3>2. call' = [call EXCEPT ![a] = h] /\ call[a].pc = "crl" /\ UNCHANGED <<panelVars, sess, agent, faults>>
      BY <1>2, <2>2 DEF RegisterCrl
    <3> HIDE DEF h
    <3> QED
      BY <3>1, <3>2, HandlerKeeps DEF panelVars, SessInv, SessTypeOK
  <2> QED
    BY <2>1, <2>2
<1>3. CASE RegisterBind(a)
  <2>1. CASE ~node.deleted /\ node.fp # call[a].fp
    BY <1>3, <2>1, ReplyKeeps DEF RegisterBind, panelVars, SessInv, SessTypeOK
  <2>2. CASE ~(~node.deleted /\ node.fp # call[a].fp)
    <3> DEFINE h == [call[a] EXCEPT !.pc = "insert"]
    <3>1. h \in Handlers /\ h.pc = "insert" /\ h.heard = call[a].heard
      BY <1>1 DEF Handlers
    <3>2. call' = [call EXCEPT ![a] = h] /\ call[a].pc = "bind" /\ UNCHANGED <<panelVars, sess, agent, faults>>
      BY <1>3, <2>2 DEF RegisterBind
    <3> HIDE DEF h
    <3> QED
      BY <3>1, <3>2, HandlerKeeps DEF panelVars, SessInv, SessTypeOK
  <2> QED
    BY <2>1, <2>2
<1>4. CASE RegisterInsert(a)
  <2> DEFINE h == [call[a] EXCEPT !.pc = "prev"]
  <2>1. h \in Handlers /\ h.pc = "prev" /\ h.heard = call[a].heard
    BY <1>1 DEF Handlers
  <2>2. call' = [call EXCEPT ![a] = h] /\ call[a].pc = "insert" /\ UNCHANGED <<panelVars, agent, faults>>
    BY <1>4 DEF RegisterInsert
  <2>3. sess' \in [Agents -> 0..MaxCert]
    BY <1>1, <1>4 DEF RegisterInsert, SessInv, SessTypeOK, Handlers
  <2> HIDE DEF h
  <2> QED
    BY <2>1, <2>2, <2>3, HandlerKeeps DEF panelVars
<1>5. CASE ReadPrev(a)
  <2> DEFINE h == [call[a] EXCEPT !.prev = PrevStatus,
                                  !.pc = IF @ = "prev" THEN "update" ELSE "beatUpdate"]
  <2>1. call[a].pc \in {"prev", "beatPrev"} /\ call' = [call EXCEPT ![a] = h]
        /\ UNCHANGED <<panelVars, sess, agent, faults>>
    BY <1>5 DEF ReadPrev
  <2>2. PrevStatus \in {"none", "online", "offline"}
    BY DEF PrevStatus, SessInv, SessTypeOK
  <2>3. h \in Handlers /\ h.heard = call[a].heard
        /\ h.pc = IF call[a].pc = "prev" THEN "update" ELSE "beatUpdate"
    BY <1>1, <2>2 DEF Handlers
  <2> HIDE DEF h
  <2> QED
    BY <2>1, <2>3, HandlerKeeps DEF panelVars, SessInv, SessTypeOK
<1>6. CASE RegisterUpdate(a)
  BY <1>6, ReplyKeeps DEF RegisterUpdate, NoticeOnline, SessInv, SessTypeOK
<1>7. CASE HeartbeatUpdate(a)
  BY <1>7, ReplyKeeps DEF HeartbeatUpdate, NoticeOnline, SessInv, SessTypeOK
<1> QED
  BY <1>2, <1>3, <1>4, <1>5, <1>6, <1>7 DEF Handler

\* A machine goes to its back-off, or on to the next step of its session.
LEMMA MachineStep == ASSUME SessInv, NEW a \in Agents, Machine(a) PROVE SessInv'
<1>1. /\ agent \in [Agents -> Machines] /\ call \in [Agents -> Handlers]
      /\ sess \in [Agents -> 0..MaxCert]
  BY DEF SessInv, SessTypeOK, Machines, Handlers
<1>2. UNCHANGED <<panelVars, faults>> /\ sess' \in [Agents -> 0..MaxCert]
  BY <1>1, SessionAssumption DEF Machine, Register, Subscribe, Heartbeat
<1>3. call[a].pc = "idle" /\ ~call[a].heard
  BY DEF Machine, Register, Subscribe, Heartbeat, SessInv, SessTypeOK, HandlerServes
<1> DEFINE served(pc) == [NoCall EXCEPT !.pc = pc, !.fp = agent[a].cert, !.heard = TRUE]
           at(pc) == [agent[a] EXCEPT !.pc = pc]
<1>4. \A pc \in {"crl", "beatPrev"} : served(pc) \in Handlers /\ served(pc).pc = pc
  BY <1>1, SessionAssumption DEF NoCall, Handlers, Machines
<1>5. \A pc \in {"backoff", "registering", "streaming", "beating"} : at(pc) \in Machines /\ at(pc).pc = pc
  BY <1>1 DEF Machines
<1>6. agent = [agent EXCEPT ![a] = agent[a]] /\ call = [call EXCEPT ![a] = call[a]]
      /\ agent[a] \in Machines /\ call[a] \in Handlers
  BY <1>1
<1>7. CASE Register(a)
  <2>1. CASE node.deleted
    BY <1>2, <1>3, <1>6, <1>7, <2>1, MachineKeeps DEF Register, panelVars, SessInv, SessTypeOK
  <2>2. CASE ~node.deleted
    <3>1. agent' = [agent EXCEPT ![a] = at("registering")] /\ call' = [call EXCEPT ![a] = served("crl")]
      BY <1>7, <2>2 DEF Register
    <3> HIDE DEF at, served
    <3> QED
      BY <1>2, <1>4, <1>5, <3>1, MachineKeeps DEF panelVars, SessInv, SessTypeOK
  <2> QED
    BY <2>1, <2>2
<1>8. CASE Heartbeat(a)
  <2>1. CASE Verified(a)
    <3>1. agent' = [agent EXCEPT ![a] = at("beating")] /\ call' = [call EXCEPT ![a] = served("beatPrev")]
      BY <1>8, <2>1 DEF Heartbeat
    <3> HIDE DEF at, served
    <3> QED
      BY <1>2, <1>4, <1>5, <3>1, MachineKeeps DEF panelVars, SessInv, SessTypeOK
  <2>2. CASE ~Verified(a)
    <3>1. agent' = [agent EXCEPT ![a] = at("backoff")] /\ call' = call
      BY <1>8, <2>2 DEF Heartbeat
    <3> HIDE DEF at, served
    <3>2. /\ call' = [call EXCEPT ![a] = call[a]] /\ call[a] \in Handlers /\ ~call[a].heard
          /\ agent' = [agent EXCEPT ![a] = at("backoff")] /\ at("backoff") \in Machines
      BY <1>3, <1>5, <1>6, <3>1
    <3>3. /\ UNCHANGED <<crl, crlFile, issued, handed, adm, acked, node, sweep, told, faults>>
          /\ sess' \in [Agents -> 0..MaxCert]
      BY <1>2 DEF panelVars
    <3> QED
      BY <3>2, <3>3, MachineKeeps DEF SessInv, SessTypeOK
  <2> QED
    BY <2>1, <2>2
<1>9. CASE Subscribe(a)
  <2>1. CASE ~Verified(a)
    <3>1. agent' = [agent EXCEPT ![a] = at("backoff")] /\ call' = call
      BY <1>9, <2>1 DEF Subscribe
    <3> HIDE DEF at, served
    <3>2. /\ call' = [call EXCEPT ![a] = call[a]] /\ call[a] \in Handlers /\ ~call[a].heard
          /\ agent' = [agent EXCEPT ![a] = at("backoff")] /\ at("backoff") \in Machines
      BY <1>3, <1>5, <1>6, <3>1
    <3>3. /\ UNCHANGED <<crl, crlFile, issued, handed, adm, acked, node, sweep, told, faults>>
          /\ sess' \in [Agents -> 0..MaxCert]
      BY <1>2 DEF panelVars
    <3> QED
      BY <3>2, <3>3, MachineKeeps DEF SessInv, SessTypeOK
  <2>2. CASE Verified(a)
    <3>1. /\ agent' = [b \in Agents |-> IF b = a THEN at("streaming")
                          ELSE IF agent[b].pc \in {"streaming", "beating"}
                          THEN [agent[b] EXCEPT !.pc = "backoff"] ELSE agent[b]]
          /\ call' = [b \in Agents |-> IF agent[b].pc = "beating"
                                       THEN [call[b] EXCEPT !.heard = FALSE] ELSE call[b]]
      BY <1>9, <2>2 DEF Subscribe
    <3>2. /\ \A b \in Agents : [agent[b] EXCEPT !.pc = "backoff"] \in Machines
          /\ \A b \in Agents : [call[b] EXCEPT !.heard = FALSE] \in Handlers
      BY <1>1 DEF Machines, Handlers
    <3>3. agent' \in [Agents -> Machines] /\ call' \in [Agents -> Handlers]
      BY <1>1, <1>5, <3>1, <3>2
    <3>4. SessTypeOK'
      BY <1>2, <3>3 DEF panelVars, SessInv, SessTypeOK, Machines, Handlers
    <3>5. HandlerServes'
      <4> SUFFICES ASSUME NEW b \in Agents, call'[b].heard
                   PROVE  call'[b] = call[b] /\ call[b].heard /\ agent'[b].pc = agent[b].pc
        BY DEF SessInv, HandlerServes
      <4>1. agent[b].pc # "beating" /\ call'[b] = call[b]
        BY <1>1, <3>1 DEF Handlers
      <4>2. agent[b].pc = "registering" /\ b # a
        BY <1>1, <1>3, <4>1 DEF Handlers, SessInv, HandlerServes
      <4> QED
        BY <3>1, <4>1, <4>2
    <3>6. RevokedKnown'
      BY <1>2 DEF panelVars, SessInv, RevokedKnown
    <3> QED
      BY <3>4, <3>5, <3>6 DEF SessInv
  <2> QED
    BY <2>1, <2>2
<1> QED
  BY <1>7, <1>8, <1>9 DEF Machine

-----------------------------------------------------------------------------
LEMMA AdminCallStep ==
    ASSUME SessInv, NEW m \in Admins, AdminStep(m) \/ RevokeRead(m) \/ Delete(m)
    PROVE  SessInv'
<1> DEFINE Rows == [deleted : BOOLEAN, status : {"online", "offline"}, fp : Certs, stale : BOOLEAN]
<1>1. /\ adm \in [Admins -> Revokers] /\ adm[m] \in Revokers
      /\ node \in Rows /\ node.fp \in Certs /\ sess \in [Agents -> 0..MaxCert]
  BY DEF SessInv, SessTypeOK, Revokers
<1>2. issued \in 1..MaxCert /\ handed \in 1..issued /\ 0 \in 0..MaxCert /\ Certs \subseteq 0..MaxCert
  BY SessionAssumption DEF SessInv, SessTypeOK, Certs
<1>3. crl \in SUBSET Certs /\ crlFile \in SUBSET crl /\ acked \in SUBSET crlFile
  BY DEF SessInv, SessTypeOK
<1>4. 0 <= issued /\ issued <= issued /\ issued \in Certs
  BY <1>2, SessionAssumption DEF Certs
<1>5. [a \in Agents |-> 0] \in [Agents -> 0..MaxCert]
  BY <1>2
<1>6. CASE RevokeRead(m)
  <2> DEFINE r == [pc |-> "issue", old |-> node.fp, new |-> 0]
  <2>1. r.pc = "issue" /\ r.old = node.fp /\ r.new = 0
    OBVIOUS
  <2>2. r \in Revokers
    <3>1. node.fp \in 0..MaxCert
      BY <1>1, <1>2
    <3> QED
      BY <3>1, <1>2 DEF Revokers
  <2>3. adm' = [adm EXCEPT ![m] = r]
        /\ UNCHANGED <<node, crl, crlFile, issued, handed, sess, agent, call, sweep, told, acked, faults>>
    BY <1>6 DEF RevokeRead
  <2> HIDE DEF r
  <2> QED
    BY <1>1, <1>4, <2>1, <2>2, <2>3, AdminKeepsList
<1>7. CASE RevokeIssue(m)
  <2> DEFINE r == [adm[m] EXCEPT !.new = issued + 1]
  <2>1. adm[m].pc = "issue" /\ issued < MaxCert /\ adm[m].old \in Certs
    BY <1>7 DEF RevokeIssue, SessInv, RevokedKnown
  <2>2. issued + 1 \in Certs /\ issued + 1 \in 0..MaxCert
    BY <1>2, <2>1, SessionAssumption DEF Certs
  <2>3. r \in Revokers /\ r.pc = "issue" /\ r.old = adm[m].old /\ r.new = issued + 1
    BY <1>1, <2>1, <2>2 DEF Revokers
  <2>4. /\ adm' = [adm EXCEPT ![m] = r] /\ issued' = issued + 1
        /\ crl' = crl \cup {adm[m].old} /\ crlFile' = crl \cup {adm[m].old}
        /\ UNCHANGED <<node, handed, sess, agent, call, sweep, told, acked, faults>>
    BY <1>7 DEF RevokeIssue
  <2>5. issued' \in Certs /\ issued <= issued' /\ handed' \in 1..issued' /\ r.new <= issued'
    BY <1>2, <2>2, <2>3, <2>4
  <2>6. /\ crl' \in SUBSET Certs /\ crlFile' \in SUBSET crl' /\ crlFile \subseteq crlFile'
        /\ acked' \in SUBSET crlFile' /\ r.old \in crlFile'
    BY <1>3, <2>1, <2>3, <2>4
  <2>7. node' \in Rows /\ sess' \in [Agents -> 0..MaxCert]
    BY <1>1, <2>4
  <2> HIDE DEF r
  <2> QED
    BY <2>1, <2>3, <2>4, <2>5, <2>6, <2>7, AdminKeeps
<1>8. CASE RevokeFileFails(m)
  <2>1. adm[m].old \in Certs
    BY <1>8 DEF RevokeFileFails, SessInv, RevokedKnown
  <2>2. /\ adm' = [adm EXCEPT ![m] = NoAdm] /\ crl' = crl \cup {adm[m].old}
        /\ UNCHANGED <<node, crlFile, issued, handed, sess, agent, call, sweep, told, acked, faults>>
    BY <1>8 DEF RevokeFileFails
  <2>3. /\ crl' \in SUBSET Certs /\ crlFile' \in SUBSET crl' /\ crlFile \subseteq crlFile'
        /\ acked' \in SUBSET crlFile'
    BY <1>3, <2>1, <2>2
  <2>4. /\ issued' \in Certs /\ issued <= issued' /\ handed' \in 1..issued' /\ NoAdm.new <= issued'
        /\ node' \in Rows /\ sess' \in [Agents -> 0..MaxCert]
    BY <1>1, <1>2, <1>4, <2>2, NoAdmType
  <2> QED
    BY <2>2, <2>3, <2>4, NoAdmType, AdminKeeps
<1>9. CASE RevokeBind(m)
  <2> DEFINE r == [adm[m] EXCEPT !.pc = "kick"]
  <2>1. adm[m].new # 0 /\ adm[m].old \in crlFile /\ adm[m].new <= issued
    BY <1>9 DEF RevokeBind, SessInv, RevokedKnown
  <2>2. adm[m].new \in Certs
    BY <1>1, <2>1, SessionAssumption DEF Revokers, Certs
  <2>3. r \in Revokers /\ r.pc = "kick" /\ r.old = adm[m].old /\ r.new = adm[m].new
    BY <1>1 DEF Revokers
  <2>4. /\ adm' = [adm EXCEPT ![m] = r]
        /\ UNCHANGED <<crl, crlFile, issued, handed, sess, agent, call, sweep, told, acked, faults>>
    BY <1>9 DEF RevokeBind
  <2>5. node' \in Rows
    BY <1>1, <1>9, <2>2 DEF RevokeBind
  <2>6. sess' \in [Agents -> 0..MaxCert]
    BY <1>1, <2>4
  <2> HIDE DEF r
  <2> QED
    BY <2>1, <2>3, <2>4, <2>5, <2>6, AdminKeepsList
<1>10. CASE RevokeKick(m)
  <2>1. adm[m].new # 0 /\ adm[m].old \in crlFile /\ adm[m].new <= issued
    BY <1>10 DEF RevokeKick, SessInv, RevokedKnown
  <2>2. /\ adm' = [adm EXCEPT ![m] = NoAdm] /\ acked' = acked \cup {adm[m].old}
        /\ handed' = (IF adm[m].new > handed THEN adm[m].new ELSE handed)
        /\ sess' = [a \in Agents |-> 0]
        /\ UNCHANGED <<node, crl, crlFile, issued, agent, call, sweep, told, faults>>
    BY <1>10 DEF RevokeKick, KickSessions
  <2>3. handed' \in 1..issued'
    BY <1>1, <1>2, <2>1, <2>2 DEF Revokers
  <2>4. /\ crl' \in SUBSET Certs /\ crlFile' \in SUBSET crl' /\ crlFile \subseteq crlFile'
        /\ acked' \in SUBSET crlFile'
    BY <1>3, <2>1, <2>2
  <2>5. /\ issued' \in Certs /\ issued <= issued' /\ NoAdm.new <= issued'
        /\ node' \in Rows /\ sess' \in [Agents -> 0..MaxCert]
    BY <1>1, <1>4, <1>5, <2>2, NoAdmType
  <2> QED
    BY <2>2, <2>3, <2>4, <2>5, NoAdmType, AdminKeeps
<1>11. CASE Delete(m)
  <2> DEFINE r == [adm[m] EXCEPT !.pc = "deleteKick"]
  <2>1. adm[m].pc = "idle" /\ adm[m].new = 0
    BY <1>1, <1>11 DEF Delete, SessInv, RevokedKnown
  <2>2. r \in Revokers /\ r.pc = "deleteKick" /\ r.new = 0
    BY <1>1, <2>1 DEF Revokers
  <2>3. /\ adm' = [adm EXCEPT ![m] = r]
        /\ UNCHANGED <<crl, crlFile, issued, handed, sess, agent, call, sweep, told, acked, faults>>
    BY <1>11 DEF Delete
  <2>4. node' \in Rows /\ sess' \in [Agents -> 0..MaxCert]
    BY <1>1, <1>11 DEF Delete
  <2> HIDE DEF r
  <2> QED
    BY <1>4, <2>2, <2>3, <2>4, AdminKeepsList
<1>12. CASE DeleteKick(m)
  <2>1. /\ adm' = [adm EXCEPT ![m] = NoAdm] /\ sess' = [a \in Agents |-> 0]
        /\ UNCHANGED <<node, crl, crlFile, issued, handed, agent, call, sweep, told, acked, faults>>
    BY <1>12 DEF DeleteKick, KickSessions
  <2>2. node' \in Rows /\ sess' \in [Agents -> 0..MaxCert]
    BY <1>1, <1>5, <2>1
  <2> QED
    BY <1>4, <2>1, <2>2, NoAdmType, AdminKeepsList
<1> QED
  BY <1>6, <1>7, <1>8, <1>9, <1>10, <1>11, <1>12 DEF AdminStep

LEMMA SessStep == SessInv /\ [SessionsNext]_sessVars => SessInv'
<1> SUFFICES ASSUME SessInv, [SessionsNext]_sessVars PROVE SessInv'
  OBVIOUS
<1> USE SessionAssumption
<1>1. agent \in [Agents -> Machines] /\ call \in [Agents -> Handlers]
  BY DEF SessInv, SessTypeOK, Machines, Handlers
<1>2. ASSUME NEW a \in Agents, CallDropped(a) PROVE SessInv'
  <2>1. call' = [call EXCEPT ![a] = NoCall] /\ UNCHANGED <<panelVars, sess, agent, faults>>
    BY <1>2 DEF CallDropped
  <2> QED
    BY <2>1, NoCallType, HandlerKeeps DEF panelVars, SessInv, SessTypeOK
<1>3. ASSUME NEW a \in Agents, Break(a) \/ Install(a) PROVE SessInv'
  <2> DEFINE h == [call[a] EXCEPT !.heard = FALSE]
             r == IF Break(a) THEN [agent[a] EXCEPT !.pc = "backoff"]
                  ELSE [cert |-> handed, pc |-> "backoff"]
  <2>1. h \in Handlers /\ h.heard = FALSE
    BY <1>1 DEF Handlers
  <2>2. handed \in 0..MaxCert
    BY DEF SessInv, SessTypeOK, Certs
  <2>3. r \in Machines
    BY <1>1, <2>2 DEF Machines
  <2>4. call' = [call EXCEPT ![a] = h] /\ agent' = [agent EXCEPT ![a] = r]
    BY <1>1, <1>3 DEF Break, Install
  <2>5. UNCHANGED <<panelVars, sess>> /\ faults' \in 0..MaxFaults
    BY <1>3 DEF Break, Install, SessInv, SessTypeOK
  <2> HIDE DEF h, r
  <2> QED
    BY <2>1, <2>3, <2>4, <2>5, MachineKeeps DEF panelVars, SessInv, SessTypeOK
<1>4. ASSUME NEW a \in Agents, Expire(a) PROVE SessInv'
  BY <1>4 DEF Expire, panelVars, SessInv, SessTypeOK, RevokedKnown, HandlerServes
<1>5. CASE Silence \/ SweepSelect \/ SweepUpdate
  <2>1. /\ node' \in [deleted : BOOLEAN, status : {"online", "offline"}, fp : Certs, stale : BOOLEAN]
        /\ sweep' \in {"idle", "found"} /\ told' \in {"online", "offline"}
        /\ UNCHANGED <<crl, crlFile, issued, handed, sess, agent, call, adm, acked, faults>>
    BY <1>5 DEF Silence, SweepSelect, SweepUpdate, SessInv, SessTypeOK
  <2> QED
    BY <2>1 DEF SessInv, SessTypeOK, RevokedKnown, HandlerServes
<1>6. CASE PanelRestart
  <2>1. agent' \in [Agents -> Machines]
    BY <1>1, <1>6 DEF PanelRestart, Machines
  <2>2. call' \in [Agents -> Handlers] /\ \A a \in Agents : ~call'[a].heard
    BY <1>6, NoCallType DEF PanelRestart
  <2>3. adm' \in [Admins -> Revokers] /\ \A m \in Admins : adm'[m].pc = "idle" /\ adm'[m].new = 0
    BY <1>6, NoAdmType DEF PanelRestart
  <2>4. SessTypeOK'
    BY <1>6, <2>1, <2>2, <2>3
       DEF PanelRestart, SessInv, SessTypeOK, Machines, Handlers, Revokers
  <2>5. RevokedKnown' /\ HandlerServes'
    BY <1>6, <2>2, <2>3
       DEF PanelRestart, SessInv, SessTypeOK, RevokedKnown, HandlerServes, Certs
  <2> QED
    BY <2>4, <2>5 DEF SessInv
<1>7. CASE UNCHANGED sessVars
  BY <1>7 DEF sessVars, SessInv, SessTypeOK, RevokedKnown, HandlerServes
<1> QED
  BY <1>2, <1>3, <1>4, <1>5, <1>6, <1>7, HandlerStep, MachineStep, AdminCallStep DEF SessionsNext

\* For any machines, administrators and bounds: the inductive invariant of
\* registrations, sessions, revocations and the list's file (register of
\* service.rs, revoke_credentials of nodes.rs, crl.rs).
THEOREM SessionsInvariant == SessionsSpec => []SessInv
BY InitSess, SessStep, PTL DEF SessionsSpec

\* A machine passes the session check only in a step of its own that verifies
\* its certificate: no reply of a handler takes it there.
LEMMA AdmittedIsVerified ==
    ASSUME SessInv, [SessionsNext]_sessVars, NEW a \in Agents, Admitted(a)
    PROVE  Verified(a)
<1> USE DEF Admitted
<1>1. agent \in [Agents -> Machines] /\ call \in [Agents -> Handlers]
  BY DEF SessInv, SessTypeOK, Machines, Handlers
<1>2. ASSUME NEW b \in Agents, Handler(b) PROVE FALSE
  <2>1. \/ agent' = agent
        \/ Reply(b, "backoff") \/ Reply(b, "registered")
        \/ Reply(b, "streaming") /\ call[b].pc = "beatUpdate"
    BY <1>2 DEF Handler, RegisterCrl, RegisterBind, RegisterInsert, ReadPrev, RegisterUpdate,
                HeartbeatUpdate
  <2>2. \/ agent' = agent
        \/ \E pc \in {"backoff", "registered"} : agent' = [agent EXCEPT ![b].pc = pc]
        \/ agent[b].pc = "beating" /\ agent' = [agent EXCEPT ![b].pc = "streaming"]
    BY <2>1 DEF Reply, SessInv, HandlerServes
  <2> QED
    BY <1>1, <2>2 DEF Machines
<1>3. ASSUME NEW b \in Agents, Machine(b) PROVE Verified(a)
  <2>1. CASE Register(b)
    BY <1>1, <2>1 DEF Register, Machines
  <2>2. CASE Subscribe(b)
    BY <1>1, <2>2 DEF Subscribe, Machines
  <2>3. CASE Heartbeat(b)
    BY <1>1, <2>3 DEF Heartbeat, Machines
  <2> QED
    BY <1>3, <2>1, <2>2, <2>3 DEF Machine
<1>4. ASSUME NEW b \in Agents, CallDropped(b) \/ Break(b) \/ Install(b) \/ Expire(b) PROVE FALSE
  BY <1>1, <1>4 DEF CallDropped, Break, Install, Expire, Machines
<1>5. ASSUME NEW m \in Admins, AdminStep(m) \/ RevokeRead(m) \/ Delete(m) PROVE FALSE
  BY <1>5 DEF AdminStep, RevokeIssue, RevokeFileFails, RevokeBind, RevokeKick, DeleteKick,
              RevokeRead, Delete
<1>6. CASE Silence \/ SweepSelect \/ SweepUpdate \/ UNCHANGED sessVars
  BY <1>6 DEF Silence, SweepSelect, SweepUpdate, sessVars
<1>7. CASE PanelRestart
  BY <1>1, <1>7 DEF PanelRestart, Machines
<1> QED
  BY <1>2, <1>3, <1>4, <1>5, <1>6, <1>7 DEF SessionsNext

\* A certificate whose revocation was answered admits nobody any more, also
\* after restarts: what is answered is in the file, and every session is
\* checked against the list (verify_session_with_cert of service.rs).
THEOREM RevocationIsFinal == SessionsSpec => RevocationHolds
<1>1. SessInv /\ [SessionsNext]_sessVars
      => [\A a \in Agents : Admitted(a) => agent[a].cert \notin acked]_sessVars
  BY AdmittedIsVerified DEF SessInv, SessTypeOK, Verified
<1> QED
  BY <1>1, SessionsInvariant, PTL DEF SessionsSpec, RevocationHolds
-----------------------------------------------------------------------------
(* Probes, their waiters and their tasks. *)

Steps == [pc : {"idle", "start", "waiting", "cancel", "answered", "failed", "refused", "aborted"},
          id : Nat]

ProbeTypes ==
  /\ diag \in [Diagnoses -> {"idle", "running", "ended", "gone"}]
  /\ segment \in [Diagnoses -> [Segments -> Steps]]
  /\ probeSeq \in Nat
  /\ \A id \in waiters : id \in 1..probeSeq
  /\ \A p \in stream \cup probing \cup reports : p.id \in 1..probeSeq

\* Probe ids are taken once: a task has an id that was given out, no two tasks the
\* same, and a probe is of the task that has its id.
IdsOwn ==
  /\ \A t \in Tasks : /\ At(t).id <= probeSeq
                      /\ At(t).pc \in Over \cup {"start"} => At(t).id = 0
                      /\ At(t).pc \in {"waiting", "cancel"} => At(t).id # 0
  /\ \A t, u \in Tasks : At(t).id = At(u).id /\ At(t).id # 0 => t = u
  /\ \A p \in stream \cup probing \cup reports, t \in Tasks : At(t).id = p.id => p.of = t

\* A request that has not begun has no tasks; one that has answered has none left.
DiagPhases ==
  \A d \in Diagnoses, i \in Segments :
    /\ diag[d] = "idle" => segment[d][i].pc = "idle"
    /\ diag[d] = "ended" => segment[d][i].pc \in Over

DiagInv == ProbeTypes /\ IdsOwn /\ DiagPhases /\ LeakOnlyByClient

LEMMA TaskParts ==
  /\ \A t \in Tasks : t[1] \in Diagnoses /\ t[2] \in Segments
  /\ \A t, u \in Tasks : t # u => t[1] # u[1] \/ t[2] # u[2]
  BY DEF Tasks

\* A step of one task.
LEMMA GoesEffect ==
  ASSUME ProbeTypes, NEW t \in Tasks, NEW step \in Steps, Goes(t, step)
  PROVE  /\ segment' \in [Diagnoses -> [Segments -> Steps]]
         /\ At(t)' = step
         /\ \A u \in Tasks : u # t => At(u)' = At(u)
         /\ \A d \in Diagnoses, i \in Segments :
              segment'[d][i] = segment[d][i] \/ (d = t[1] /\ i = t[2] /\ segment'[d][i] = step)
<1>1. t[1] \in Diagnoses /\ t[2] \in Segments
  BY TaskParts
<1>2. segment \in [Diagnoses -> [Segments -> Steps]]
  BY DEF ProbeTypes
<1>3. segment' = [segment EXCEPT ![t[1]][t[2]] = step]
  BY DEF Goes
<1>4. segment' \in [Diagnoses -> [Segments -> Steps]]
  BY <1>1, <1>2, <1>3
<1>5. segment'[t[1]][t[2]] = step
  BY <1>1, <1>2, <1>3
<1>6. \A d \in Diagnoses, i \in Segments : d # t[1] \/ i # t[2] => segment'[d][i] = segment[d][i]
  BY <1>1, <1>2, <1>3
<1>7. \A u \in Tasks : u # t => At(u)' = At(u)
  BY <1>6, TaskParts DEF At
<1> QED
  BY <1>4, <1>5, <1>6, <1>7 DEF At

LEMMA AtType == ProbeTypes => \A t \in Tasks : At(t) \in Steps
  BY TaskParts DEF ProbeTypes, At

LEMMA DiagInitInv == DiagInit => DiagInv
<1> SUFFICES ASSUME DiagInit PROVE DiagInv
  OBVIOUS
<1>1. Idle \in Steps /\ Idle.pc = "idle" /\ Idle.id = 0
  BY DEF Steps, Idle
<1>2. ProbeTypes
  BY <1>1 DEF DiagInit, ProbeTypes
<1>3. \A t \in Tasks : At(t) = Idle
  BY TaskParts DEF DiagInit, At
<1>4. IdsOwn
  BY <1>1, <1>3 DEF DiagInit, IdsOwn
<1>5. DiagPhases /\ LeakOnlyByClient
  BY <1>1 DEF DiagInit, DiagPhases, LeakOnlyByClient
<1> QED
  BY <1>2, <1>4, <1>5 DEF DiagInv

\* A task takes the next id, which nobody has: waiter, probe and task get it together.
LEMMA DiagRegister ==
  ASSUME DiagInv, NEW t \in Tasks, RegisterProbe(t) PROVE DiagInv'
<1>1. ProbeTypes /\ IdsOwn /\ DiagPhases /\ LeakOnlyByClient
  BY DEF DiagInv
<1> DEFINE id == probeSeq + 1
<1>2. /\ At(t).pc = "start" /\ At(t) \in Steps /\ At(t).id = 0
      /\ probeSeq' = id /\ id \in Nat /\ id # 0
      /\ UNCHANGED <<diag, probing, reports>>
  BY <1>1, AtType DEF RegisterProbe, IdsOwn, ProbeTypes
<1>3. PICK step \in Steps :
        /\ Goes(t, step)
        /\ \/ /\ step.pc \in {"waiting", "cancel"} /\ step.id = id
              /\ waiters' = waiters \cup {id}
              /\ stream' = stream \cup {[id |-> id, of |-> t]} \/ stream' = stream
           \/ step.pc = "refused" /\ step.id = 0 /\ waiters' = waiters /\ stream' = stream
  <2>1. [pc |-> "waiting", id |-> id] \in Steps /\ [pc |-> "cancel", id |-> id] \in Steps
        /\ Ended("refused") \in Steps /\ Ended("refused").pc = "refused" /\ Ended("refused").id = 0
    BY <1>2 DEF Steps, Ended
  <2>2. CASE Goes(t, Ended("refused")) /\ UNCHANGED <<waiters, stream>>
    BY <2>1, <2>2
  <2>3. CASE Registered(t, id)
    <3>1. CASE Goes(t, [pc |-> "waiting", id |-> id])
      BY <2>1, <2>3, <3>1 DEF Registered
    <3>2. CASE Goes(t, [pc |-> "cancel", id |-> id])
      BY <2>1, <2>3, <3>2 DEF Registered
    <3> QED
      BY <2>3, <3>1, <3>2 DEF Registered
  <2> QED
    BY <2>2, <2>3 DEF RegisterProbe
<1>4. /\ segment' \in [Diagnoses -> [Segments -> Steps]]
      /\ At(t)' = step
      /\ \A u \in Tasks : u # t => At(u)' = At(u)
      /\ \A d \in Diagnoses, i \in Segments :
           segment'[d][i] = segment[d][i] \/ (d = t[1] /\ i = t[2] /\ segment'[d][i] = step)
  BY <1>1, <1>3, GoesEffect
<1>5. ProbeTypes'
  BY <1>1, <1>2, <1>3, <1>4 DEF ProbeTypes
<1>6. IdsOwn'
  <2>1. \A u \in Tasks : At(u) \in Steps /\ At(u).id <= probeSeq /\ At(u).id # id
    BY <1>1, <1>2, AtType DEF IdsOwn, ProbeTypes, Steps
  <2>2. \A u \in Tasks : /\ At(u)'.id <= id
                         /\ At(u)'.pc \in Over \cup {"start"} => At(u)'.id = 0
                         /\ At(u)'.pc \in {"waiting", "cancel"} => At(u)'.id # 0
    <3> SUFFICES ASSUME NEW u \in Tasks
                 PROVE  /\ At(u)'.id <= id
                        /\ At(u)'.pc \in Over \cup {"start"} => At(u)'.id = 0
                        /\ At(u)'.pc \in {"waiting", "cancel"} => At(u)'.id # 0
      OBVIOUS
    <3>1. CASE u = t
      BY <1>2, <1>3, <1>4, <3>1 DEF Over
    <3>2. CASE u # t
      BY <1>1, <1>2, <1>4, <2>1, <3>2 DEF IdsOwn, Steps, ProbeTypes
    <3> QED
      BY <3>1, <3>2
  <2>3. \A u, v \in Tasks : At(u)'.id = At(v)'.id /\ At(u)'.id # 0 => u = v
    BY <1>1, <1>2, <1>3, <1>4, <2>1 DEF IdsOwn
  <2>4. ASSUME NEW p \in stream' \cup probing' \cup reports', NEW u \in Tasks, At(u)'.id = p.id
        PROVE  p.of = u
    <3>1. CASE p \in stream \cup probing \cup reports
      <4>1. p.id \in 1..probeSeq
        BY <1>1, <3>1 DEF ProbeTypes
      <4>2. u # t
        BY <1>1, <1>2, <1>3, <1>4, <2>4, <4>1 DEF ProbeTypes
      <4> QED
        BY <1>1, <1>4, <2>4, <3>1, <4>2 DEF IdsOwn
    <3>2. CASE p = [id |-> id, of |-> t]
      BY <1>4, <2>1, <2>4, <3>2
    <3> QED
      BY <1>2, <1>3, <2>4, <3>1, <3>2
  <2> QED
    BY <1>2, <2>2, <2>3, <2>4 DEF IdsOwn
<1>7. DiagPhases'
  <2>1. diag[t[1]] \notin {"idle", "ended"}
    BY <1>1, <1>2, TaskParts DEF DiagPhases, At, Over
  <2> QED
    BY <1>1, <1>2, <1>4, <2>1 DEF DiagPhases
<1>8. LeakOnlyByClient'
  <2> SUFFICES ASSUME NEW n \in waiters'
               PROVE  \E u \in Tasks :
                        /\ At(u)'.id = n
                        /\ \/ At(u)'.pc \in {"waiting", "cancel"}
                           \/ At(u)'.pc = "aborted" /\ diag'[u[1]] = "gone"
    BY DEF LeakOnlyByClient
  <2>1. CASE n \in waiters
    <3>1. PICK u \in Tasks : /\ At(u).id = n
                             /\ \/ At(u).pc \in {"waiting", "cancel"}
                                \/ At(u).pc = "aborted" /\ diag[u[1]] = "gone"
      BY <1>1, <2>1 DEF LeakOnlyByClient
    <3>2. u # t
      BY <1>2, <3>1
    <3> QED
      BY <1>2, <1>4, <3>1, <3>2
  <2>2. CASE n \notin waiters
    BY <1>3, <1>4, <2>2
  <2> QED
    BY <2>1, <2>2
<1> QED
  BY <1>5, <1>6, <1>7, <1>8 DEF DiagInv

\* A step of a task that keeps or drops its id, and of its waiter unless it keeps the id.
LEMMA DiagMove ==
  ASSUME DiagInv, NEW t \in Tasks, NEW step \in Steps, Goes(t, step),
         UNCHANGED <<diag, probeSeq, stream, probing, reports>>, waiters' \subseteq waiters,
         step.id = At(t).id \/ (step.id = 0 /\ At(t).id \notin waiters'),
         step.pc \in {"cancel", "failed", "aborted"},
         step.pc = "failed" => step.id = 0,
         step.pc = "cancel" => step.id # 0,
         diag[t[1]] # "idle", diag[t[1]] = "ended" => step.pc = "failed",
         step.pc = "aborted" => diag[t[1]] = "gone"
  PROVE  DiagInv'
<1>1. ProbeTypes /\ IdsOwn /\ DiagPhases /\ LeakOnlyByClient
  BY DEF DiagInv
<1>2. /\ segment' \in [Diagnoses -> [Segments -> Steps]]
      /\ At(t)' = step
      /\ \A u \in Tasks : u # t => At(u)' = At(u)
      /\ \A d \in Diagnoses, i \in Segments :
           segment'[d][i] = segment[d][i] \/ (d = t[1] /\ i = t[2] /\ segment'[d][i] = step)
  BY <1>1, GoesEffect
<1>3. ProbeTypes'
  BY <1>1, <1>2 DEF ProbeTypes
<1>4. \A u \in Tasks : At(u)'.id = At(u).id \/ At(u)'.id = 0
  BY <1>2
<1>5. IdsOwn'
  <2>1. \A u \in Tasks : /\ At(u)'.id <= probeSeq
                         /\ At(u)'.pc \in Over \cup {"start"} => At(u)'.id = 0
                         /\ At(u)'.pc \in {"waiting", "cancel"} => At(u)'.id # 0
    <3> SUFFICES ASSUME NEW u \in Tasks
                 PROVE  /\ At(u)'.id <= probeSeq
                        /\ At(u)'.pc \in Over \cup {"start"} => At(u)'.id = 0
                        /\ At(u)'.pc \in {"waiting", "cancel"} => At(u)'.id # 0
      OBVIOUS
    <3>1. CASE u = t
      BY <1>1, <1>2, <3>1 DEF IdsOwn, ProbeTypes, Over
    <3>2. CASE u # t
      BY <1>1, <1>2, <3>2 DEF IdsOwn
    <3> QED
      BY <3>1, <3>2
  <2>2. \A u, v \in Tasks : At(u)'.id = At(v)'.id /\ At(u)'.id # 0 => u = v
    BY <1>1, <1>4 DEF IdsOwn
  <2>3. \A p \in stream \cup probing \cup reports, u \in Tasks : At(u)'.id = p.id => p.of = u
    BY <1>1, <1>4 DEF IdsOwn, ProbeTypes
  <2> QED
    BY <2>1, <2>2, <2>3 DEF IdsOwn
<1>6. DiagPhases'
  BY <1>1, <1>2 DEF DiagPhases, Over
<1>7. LeakOnlyByClient'
  <2> SUFFICES ASSUME NEW n \in waiters'
               PROVE  \E u \in Tasks :
                        /\ At(u)'.id = n
                        /\ \/ At(u)'.pc \in {"waiting", "cancel"}
                           \/ At(u)'.pc = "aborted" /\ diag'[u[1]] = "gone"
    BY DEF LeakOnlyByClient
  <2>1. PICK u \in Tasks : /\ At(u).id = n
                           /\ \/ At(u).pc \in {"waiting", "cancel"}
                              \/ At(u).pc = "aborted" /\ diag[u[1]] = "gone"
    BY <1>1 DEF LeakOnlyByClient
  <2>2. CASE u # t
    BY <1>2, <2>1, <2>2
  <2>3. CASE u = t
    <3>1. n \in 1..probeSeq
      BY <1>1 DEF ProbeTypes
    <3>2. step.id = n /\ n # 0
      BY <1>1, <2>1, <2>3, <3>1 DEF ProbeTypes
    <3> QED
      BY <1>2, <2>3, <3>2
  <2> QED
    BY <2>2, <2>3
<1> QED
  BY <1>3, <1>5, <1>6, <1>7 DEF DiagInv

\* Where a task is, its request has begun and not ended.
LEMMA TaskBegun ==
  ASSUME DiagInv, NEW t \in Tasks, At(t).pc \in {"start", "waiting", "cancel"}
  PROVE  diag[t[1]] \in {"running", "gone"} /\ At(t) \in Steps
<1>1. diag[t[1]] \in {"idle", "running", "ended", "gone"}
  BY TaskParts DEF DiagInv, ProbeTypes
<1>2. diag[t[1]] \notin {"idle", "ended"}
  BY TaskParts DEF DiagInv, DiagPhases, At, Over
<1> QED
  BY <1>1, <1>2, AtType DEF DiagInv

LEMMA DiagTask ==
  ASSUME DiagInv, NEW t \in Tasks, TaskStep(t) \/ Abort(t) PROVE DiagInv'
<1>1. CASE RegisterProbe(t)
  BY <1>1, DiagRegister
<1>2. CASE TimesOut(t)
  <2> DEFINE step == [At(t) EXCEPT !.pc = "cancel"]
  <2>1. /\ At(t).pc = "waiting" /\ Goes(t, step)
        /\ UNCHANGED <<diag, waiters, probeSeq, stream, probing, reports>>
    BY <1>2 DEF TimesOut, probeVars
  <2>2. diag[t[1]] \in {"running", "gone"} /\ At(t) \in Steps /\ At(t).id # 0
    BY <2>1, TaskBegun DEF DiagInv, IdsOwn
  <2>3. step \in Steps /\ step.pc = "cancel" /\ step.id = At(t).id
    BY <2>2 DEF Steps
  <2> HIDE DEF step
  <2> QED
    BY <2>1, <2>2, <2>3, DiagMove
<1>3. CASE CancelProbe(t)
  <2> DEFINE step == Ended("failed")
  <2>1. /\ At(t).pc = "cancel" /\ Goes(t, step) /\ waiters' = waiters \ {At(t).id}
        /\ UNCHANGED <<diag, probeSeq, stream, probing, reports>>
    BY <1>3 DEF CancelProbe, probeVars
  <2>2. diag[t[1]] \in {"running", "gone"}
    BY <2>1, TaskBegun
  <2>3. step \in Steps /\ step.pc = "failed" /\ step.id = 0
    BY DEF Steps, Ended
  <2> HIDE DEF step
  <2> QED
    BY <2>1, <2>2, <2>3, DiagMove
<1>4. CASE Abort(t)
  <2> DEFINE step == [At(t) EXCEPT !.pc = "aborted"]
  <2>1. /\ At(t).pc \in {"start", "waiting"} /\ Goes(t, step)
        /\ diag[t[1]] \in {"ended", "gone"}
        /\ UNCHANGED <<diag, waiters, probeSeq, stream, probing, reports>>
    BY <1>4 DEF Abort, probeVars
  <2>2. diag[t[1]] = "gone" /\ At(t) \in Steps
    BY <2>1, TaskBegun
  <2>3. step \in Steps /\ step.pc = "aborted" /\ step.id = At(t).id
    BY <2>2 DEF Steps
  <2> HIDE DEF step
  <2> QED
    BY <2>1, <2>2, <2>3, DiagMove
<1> QED
  BY <1>1, <1>2, <1>3, <1>4 DEF TaskStep

\* A report ends the task of its id, the only one that has it.
LEMMA DiagReport ==
  ASSUME DiagInv, NEW p \in reports, ReportArrives(p) PROVE DiagInv'
<1>1. ProbeTypes /\ IdsOwn /\ DiagPhases /\ LeakOnlyByClient
  BY DEF DiagInv
<1> DEFINE next(s) == IF p.id \in waiters /\ s.id = p.id /\ s.pc = "waiting"
                      THEN Ended("answered") ELSE s
<1>2. /\ reports' \subseteq reports /\ waiters' = waiters \ {p.id}
      /\ segment' = [d \in Diagnoses |-> [i \in Segments |-> next(segment[d][i])]]
      /\ UNCHANGED <<diag, probeSeq, stream, probing>>
  BY DEF ReportArrives
<1>3. Ended("answered") \in Steps /\ Ended("answered").pc = "answered" /\ Ended("answered").id = 0
  BY DEF Steps, Ended
<1>4. \A s \in Steps : next(s) \in Steps /\ (next(s) = s \/ next(s) = Ended("answered"))
  BY <1>3
<1>5. \A d \in Diagnoses, i \in Segments :
        segment[d][i] \in Steps /\ segment'[d][i] = next(segment[d][i])
  BY <1>1, <1>2 DEF ProbeTypes
<1>6. \A u \in Tasks : At(u) \in Steps /\ At(u)' = next(At(u))
  BY <1>5, TaskParts DEF At
<1>7. segment' \in [Diagnoses -> [Segments -> Steps]]
  BY <1>2, <1>4, <1>5
<1>8. \A s \in Steps : s.id # p.id => next(s) = s
  OBVIOUS
<1> HIDE DEF next
<1>9. ProbeTypes'
  BY <1>1, <1>2, <1>7 DEF ProbeTypes
<1>10. IdsOwn'
  <2>1. \A u \in Tasks : At(u)' = At(u) \/ (At(u)'.id = 0 /\ At(u)'.pc = "answered")
    BY <1>3, <1>4, <1>6
  <2>2. \A u \in Tasks : /\ At(u)'.id <= probeSeq
                         /\ At(u)'.pc \in Over \cup {"start"} => At(u)'.id = 0
                         /\ At(u)'.pc \in {"waiting", "cancel"} => At(u)'.id # 0
    BY <1>1, <2>1 DEF IdsOwn, ProbeTypes
  <2>3. \A u, v \in Tasks : At(u)'.id = At(v)'.id /\ At(u)'.id # 0 => u = v
    BY <1>1, <2>1 DEF IdsOwn
  <2>4. \A q \in stream \cup probing \cup reports, u \in Tasks : At(u)'.id = q.id => q.of = u
    BY <1>1, <2>1 DEF IdsOwn, ProbeTypes
  <2> QED
    BY <1>2, <2>2, <2>3, <2>4 DEF IdsOwn
<1>11. DiagPhases'
  <2>1. \A d \in Diagnoses, i \in Segments :
          segment'[d][i] = segment[d][i] \/ (segment'[d][i].pc = "answered" /\ segment[d][i].pc # "idle")
    BY <1>3, <1>5 DEF next
  <2> QED
    BY <1>1, <1>2, <2>1 DEF DiagPhases, Over
<1>12. LeakOnlyByClient'
  <2> SUFFICES ASSUME NEW n \in waiters'
               PROVE  \E u \in Tasks :
                        /\ At(u)'.id = n
                        /\ \/ At(u)'.pc \in {"waiting", "cancel"}
                           \/ At(u)'.pc = "aborted" /\ diag'[u[1]] = "gone"
    BY DEF LeakOnlyByClient
  <2>1. PICK u \in Tasks : /\ At(u).id = n
                           /\ \/ At(u).pc \in {"waiting", "cancel"}
                              \/ At(u).pc = "aborted" /\ diag[u[1]] = "gone"
    BY <1>1, <1>2 DEF LeakOnlyByClient
  <2>2. At(u)' = At(u)
    BY <1>2, <1>6, <1>8, <2>1
  <2> QED
    BY <1>2, <2>1, <2>2
<1> QED
  BY <1>9, <1>10, <1>11, <1>12 DEF DiagInv

\* A request begins: its tasks have no ids yet.
LEMMA DiagBegin ==
  ASSUME DiagInv, NEW d \in Diagnoses, NEW n \in Segments, NEW unset \in SUBSET Segments,
         Begin(d, n, unset)
  PROVE  DiagInv'
<1>1. ProbeTypes /\ IdsOwn /\ DiagPhases /\ LeakOnlyByClient
  BY DEF DiagInv
<1> DEFINE first(i) == IF i > n THEN Idle ELSE IF i \in unset THEN Ended("failed")
                       ELSE [Idle EXCEPT !.pc = "start"]
<1>2. /\ diag[d] = "idle" /\ diag' = [diag EXCEPT ![d] = "running"]
      /\ segment' = [segment EXCEPT ![d] = [i \in Segments |-> first(i)]]
      /\ UNCHANGED <<waiters, probeSeq, stream, probing, reports>>
  BY DEF Begin, probeVars
<1>3. \A i \in Segments : first(i) \in Steps /\ first(i).id = 0
                          /\ first(i).pc \in {"idle", "failed", "start"}
  BY DEF Steps, Idle, Ended
<1> HIDE DEF first
<1>4. segment' \in [Diagnoses -> [Segments -> Steps]]
  BY <1>1, <1>2, <1>3 DEF ProbeTypes
<1>5. \A u \in Tasks : \/ u[1] # d /\ At(u)' = At(u)
                       \/ u[1] = d /\ At(u)'.id = 0 /\ At(u)'.pc \in {"idle", "failed", "start"}
  BY <1>1, <1>2, <1>3, TaskParts DEF At, ProbeTypes
<1>6. \A u \in Tasks : u[1] = d => At(u).pc = "idle" /\ At(u).id = 0
  BY <1>1, <1>2, TaskParts DEF DiagPhases, IdsOwn, At, Over
<1>7. ProbeTypes'
  BY <1>1, <1>2, <1>4 DEF ProbeTypes
<1>8. IdsOwn'
  <2>1. \A u \in Tasks : /\ At(u)'.id <= probeSeq
                         /\ At(u)'.pc \in Over \cup {"start"} => At(u)'.id = 0
                         /\ At(u)'.pc \in {"waiting", "cancel"} => At(u)'.id # 0
    BY <1>1, <1>5 DEF IdsOwn, ProbeTypes
  <2>2. \A u, v \in Tasks : At(u)'.id = At(v)'.id /\ At(u)'.id # 0 => u = v
    BY <1>1, <1>5 DEF IdsOwn
  <2>3. \A q \in stream \cup probing \cup reports, u \in Tasks : At(u)'.id = q.id => q.of = u
    BY <1>1, <1>5 DEF IdsOwn, ProbeTypes
  <2> QED
    BY <1>2, <2>1, <2>2, <2>3 DEF IdsOwn
<1>9. DiagPhases'
  BY <1>1, <1>2 DEF DiagPhases, ProbeTypes
<1>10. LeakOnlyByClient'
  <2> SUFFICES ASSUME NEW id \in waiters
               PROVE  \E u \in Tasks :
                        /\ At(u)'.id = id
                        /\ \/ At(u)'.pc \in {"waiting", "cancel"}
                           \/ At(u)'.pc = "aborted" /\ diag'[u[1]] = "gone"
    BY <1>2 DEF LeakOnlyByClient
  <2>1. PICK u \in Tasks : /\ At(u).id = id
                           /\ \/ At(u).pc \in {"waiting", "cancel"}
                              \/ At(u).pc = "aborted" /\ diag[u[1]] = "gone"
    BY <1>1 DEF LeakOnlyByClient
  <2>2. u[1] # d /\ At(u)' = At(u)
    BY <1>5, <1>6, <2>1
  <2>3. diag'[u[1]] = diag[u[1]]
    BY <1>1, <1>2, <2>2, TaskParts DEF ProbeTypes
  <2> QED
    BY <2>1, <2>2, <2>3
<1> QED
  BY <1>7, <1>8, <1>9, <1>10 DEF DiagInv

\* The request's own steps, and those of the agent, which only lose probes.
LEMMA DiagOther ==
  ASSUME DiagInv, UNCHANGED <<segment, waiters, probeSeq>>,
         stream' \cup probing' \cup reports' \subseteq stream \cup probing \cup reports,
         \/ UNCHANGED diag
         \/ \E d \in Diagnoses : diag[d] = "running" /\
              \/ diag' = [diag EXCEPT ![d] = "gone"]
              \/ /\ diag' = [diag EXCEPT ![d] = "ended"]
                 /\ \A i \in Segments : segment[d][i].pc \in Over
  PROVE  DiagInv'
<1>1. ProbeTypes /\ IdsOwn /\ DiagPhases /\ LeakOnlyByClient
  BY DEF DiagInv
<1>2. \A u \in Tasks : At(u)' = At(u)
  BY DEF At
<1>3. ProbeTypes'
  BY <1>1 DEF ProbeTypes
<1>4. IdsOwn'
  BY <1>1, <1>2 DEF IdsOwn
<1>5. DiagPhases'
  BY <1>1 DEF DiagPhases, ProbeTypes
<1>6. \A d \in Diagnoses : diag[d] = "gone" => diag'[d] = "gone"
  BY <1>1 DEF ProbeTypes
<1>7. LeakOnlyByClient'
  BY <1>1, <1>2, <1>6, TaskParts DEF LeakOnlyByClient
<1> QED
  BY <1>3, <1>4, <1>5, <1>7 DEF DiagInv

LEMMA DiagNextInv == DiagInv /\ [DiagNext]_diagVars => DiagInv'
<1> SUFFICES ASSUME DiagInv, [DiagNext]_diagVars PROVE DiagInv'
  OBVIOUS
<1>1. ASSUME NEW d \in Diagnoses, NEW n \in Segments, NEW u \in SUBSET Segments, Begin(d, n, u)
      PROVE  DiagInv'
  BY <1>1, DiagBegin
<1>2. ASSUME NEW d \in Diagnoses, End(d) \/ ClientGone(d) PROVE DiagInv'
  BY <1>2, DiagOther DEF End, ClientGone, probeVars
<1>3. ASSUME NEW t \in Tasks, TaskStep(t) \/ Abort(t) PROVE DiagInv'
  BY <1>3, DiagTask
<1>4. ASSUME NEW p \in stream, TakeProbe(p) PROVE DiagInv'
  BY <1>4, DiagOther DEF TakeProbe
<1>5. ASSUME NEW p \in probing, ProbeEnds(p) PROVE DiagInv'
  BY <1>5, DiagOther DEF ProbeEnds
<1>6. ASSUME NEW p \in reports, ReportArrives(p) PROVE DiagInv'
  BY <1>6, DiagReport
<1>7. CASE StreamBreaks
  BY <1>7, DiagOther DEF StreamBreaks
<1>8. CASE UNCHANGED diagVars
  BY <1>8, DiagOther DEF diagVars
<1> QED
  BY <1>1, <1>2, <1>3, <1>4, <1>5, <1>6, <1>7, <1>8 DEF DiagNext

LEMMA DiagInvariant == DiagSpec => []DiagInv
  BY DiagInitInv, DiagNextInv, PTL DEF DiagSpec

\* For any number of diagnoses, segments and probes: a waiter that no task is going to
\* remove was left by a client that went away, whatever is refused, lost or late.
THEOREM WaitersAreRemoved == DiagSpec => []LeakOnlyByClient
<1>1. DiagInv => LeakOnlyByClient
  BY DEF DiagInv
<1> QED
  BY <1>1, DiagInvariant, PTL

\* For any number of diagnoses, segments and probes: a report ends the waiting of no
\* task but the one its probe was sent for, however late it comes.
THEOREM ResultsAreOwn == DiagSpec => OwnResult
<1> DEFINE Own == \A p \in reports, t \in Tasks :
              ReportArrives(p) /\ At(t).pc = "waiting" /\ At(t)'.pc = "answered" => p.of = t
<1>1. DiagInv /\ [DiagNext]_diagVars => [Own]_diagVars
  <2> SUFFICES ASSUME DiagInv, NEW p \in reports, NEW t \in Tasks,
                      ReportArrives(p), At(t).pc = "waiting", At(t)'.pc = "answered"
               PROVE  p.of = t
    OBVIOUS
  <2>1. At(t)' = IF p.id \in waiters /\ At(t).id = p.id /\ At(t).pc = "waiting"
                 THEN Ended("answered") ELSE At(t)
    BY TaskParts DEF ReportArrives, At
  <2>2. At(t).id = p.id
    BY <2>1
  <2> QED
    BY <2>2 DEF DiagInv, IdsOwn
<1> QED
  BY <1>1, DiagInvariant, PTL DEF DiagSpec, OwnResult
-----------------------------------------------------------------------------
(* The composition. *)

\* The panel's node management implements each of its components: what is proved of
\* SessionsSpec and DiagSpec holds of the specification the runs check.
THEOREM ManagementImplementsParts == ManagementSpec => SessionsSpec /\ DiagSpec
<1>1. ManagementInit => SessionsInit /\ DiagInit
  BY DEF ManagementInit
<1>2. [ManagementNext]_managementVars => [SessionsNext]_sessVars /\ [DiagNext]_diagVars
  BY DEF ManagementNext, DiagnosesOver, managementVars
<1> QED
  BY <1>1, <1>2, PTL DEF ManagementSpec, SessionsSpec, DiagSpec
=============================================================================
