----------------------------- MODULE AgentRules -----------------------------
(***************************************************************************)
(* The rules of one agent (node-agent/src: manager.rs, retry.rs, store.rs  *)
(* and the session loop of agent.rs) driven by a panel whose changes are   *)
(* serial: it commits a change and queues the command in one step.  The    *)
(* races inside the panel are the subject of RuleSync.                     *)
(*                                                                         *)
(* A rule listens on one port.  Applying a rule stops its old listener and *)
(* binds the new port; the bind fails while another rule of the agent      *)
(* still holds the port, and may fail for a reason outside the agent.      *)
(***************************************************************************)
EXTENDS Integers, Sequences, FiniteSets

CONSTANTS Rule,         \* rule ids: integers, the replay is in their order
          Port,         \* ports of the node
          Busy,         \* ports a foreign process of the node holds for ever
          NoPort,       \* a rule without a listener
          Gone,         \* a rule the panel has no (undeleted) row of
          None,         \* a rule without a pending retry
          MaxAttempts,  \* MAX_ATTEMPTS of retry.rs
          MaxChanges,   \* bound: changes made through the panel
          MaxFaults,    \* bound: binds and saves that fail for outside reasons
          MaxDrops      \* bound: disconnections and crashes

ASSUME AgentAssumption ==
  /\ Rule \subseteq Nat /\ IsFiniteSet(Rule)
  /\ Busy \subseteq Port /\ NoPort \notin Port
  /\ Gone \notin [port : Port, enabled : BOOLEAN]
  /\ MaxAttempts \in Nat \ {0}
  /\ MaxChanges \in Nat /\ MaxFaults \in Nat /\ MaxDrops \in Nat

VARIABLES
  want,     \* want[r]: the row of r in the panel's database, or Gone
  inbox,    \* commands in the command stream, oldest first
  session,  \* "off" (process down), "offline" or "online"
  running,  \* running[r]: the port r listens on, or NoPort (manager.handles)
  file,     \* file[r]: the port of r in the state file, or NoPort
  pending,  \* pending[r]: the entry of r in the retry queue, or None
  gaveUp,   \* history: rules whose last command failed MaxAttempts times
  behind,   \* history: the state file misses the last snapshot
  latest,   \* history: latest[r] is the last command about r in this session
  changes, faults, drops  \* counters of the bounds

agentVars == <<want, inbox, session, running, file, pending, gaveUp, behind, latest,
               changes, faults, drops>>
agentState == <<running, file, pending, gaveUp, behind, latest>>

Config == [port : Port, enabled : BOOLEAN]

ApplyRule(r, c) == [op |-> "apply", rule |-> r, config |-> c]
RemoveRule(r) == [op |-> "remove", rule |-> r]
RestartRule(r) == [op |-> "restart", rule |-> r]
ReconcileRules(keep) == [op |-> "reconcile", keep |-> keep]

RuleCommand ==
  {ApplyRule(r, c) : r \in Rule, c \in Config}
    \cup {RemoveRule(r) : r \in Rule} \cup {RestartRule(r) : r \in Rule}
Command == RuleCommand \cup {ReconcileRules(keep) : keep \in SUBSET Rule}

\* An entry of the retry queue: the command and how often it has failed.
Retry == [cmd : RuleCommand, attempts : 1..(MaxAttempts - 1)]

\* No command and no entry of the queue is the null value.
ASSUME NoneIsNothing == None \notin RuleCommand /\ None \notin Retry

\* The port r should listen on.
Wanted(r) == IF want[r] # Gone /\ want[r].enabled THEN want[r].port ELSE NoPort

\* The rules the panel still has.
Live == {r \in Rule : want[r] # Gone}

\* The orders in which list_active_for_node may list the rules S: by id.
ById(S) ==
  {ids \in [1..Cardinality(S) -> S] :
     /\ \A r \in S : \E i \in DOMAIN ids : ids[i] = r
     /\ \A i, j \in DOMAIN ids : i < j => ids[i] < ids[j]}

\* The replay of a new subscription: every rule in the order ids, then the full set of ids.
Replay(ids) ==
  Append([i \in 1..Cardinality(Live) |-> ApplyRule(ids[i], want[ids[i]])], ReconcileRules(Live))

AgentInit ==
  /\ want = [r \in Rule |-> Gone]
  /\ inbox = <<>>
  /\ session = "offline"
  /\ running = [r \in Rule |-> NoPort]
  /\ file = [r \in Rule |-> NoPort]
  /\ pending = [r \in Rule |-> None]
  /\ gaveUp = {} /\ behind = FALSE
  /\ latest = [r \in Rule |-> None]
  /\ changes = 0 /\ faults = 0 /\ drops = 0
-----------------------------------------------------------------------------
(* The panel. *)

Push(cmd) == inbox' = IF session = "online" THEN Append(inbox, cmd) ELSE inbox

Change == changes < MaxChanges /\ changes' = changes + 1 /\
          UNCHANGED <<session, agentState, faults, drops>>

\* Create or update: the unique index on (node, port) counts disabled rules too.
PanelApply(r, c) ==
  /\ Change
  /\ want[r] # c
  /\ \A q \in Live \ {r} : want[q].port # c.port
  /\ want' = [want EXCEPT ![r] = c]
  /\ Push(ApplyRule(r, c))

PanelDelete(r) ==
  /\ Change
  /\ r \in Live
  /\ want' = [want EXCEPT ![r] = Gone]
  /\ Push(RemoveRule(r))

PanelRestart(r) ==
  /\ Change
  /\ r \in Live
  /\ Push(RestartRule(r))
  /\ UNCHANGED want
-----------------------------------------------------------------------------
(* The agent. *)

Spurious == faults < MaxFaults

\* What starting r on p can lead to: the old listener is gone either way.
Start(r, p) ==
  LET free == p \notin Busy /\ \A q \in Rule \ {r} : running[q] # p
      bound == [run |-> [running EXCEPT ![r] = p], ok |-> TRUE, fault |-> 0]
      failed(f) == [run |-> [running EXCEPT ![r] = NoPort], ok |-> FALSE, fault |-> f]
  IN  IF free THEN {bound} \cup (IF Spurious THEN {failed(1)} ELSE {}) ELSE {failed(0)}

Stop(S) == {[run |-> [q \in Rule |-> IF q \in S THEN NoPort ELSE running[q]],
             ok |-> TRUE, fault |-> 0]}

\* The outcomes of handle_command inside the manager lock.  A restart of a rule
\* without a listener does nothing.
Outcomes(cmd) ==
  CASE cmd.op = "apply" -> IF cmd.config.enabled THEN Start(cmd.rule, cmd.config.port)
                                                 ELSE Stop({cmd.rule})
    [] cmd.op = "remove" -> Stop({cmd.rule})
    [] cmd.op = "restart" -> IF running[cmd.rule] = NoPort THEN Stop({})
                             ELSE Start(cmd.rule, running[cmd.rule])
    [] cmd.op = "reconcile" -> Stop(Rule \ cmd.keep)

\* Mutation: snapshots are written only when a listener was started.
SaveOnStart(run, spent) ==
  /\ file' = IF \E r \in Rule : run[r] # running[r] /\ run[r] # NoPort THEN run ELSE file
  /\ behind' = FALSE /\ faults' = faults + spent

\* store.save of the snapshot; a failure is only logged.
Save(run, spent) ==
  \/ file' = run /\ behind' = FALSE /\ faults' = faults + spent
  \/ faults + spent < MaxFaults /\ UNCHANGED file /\ behind' = TRUE /\ faults' = faults + spent + 1

\* Mutation: a failed command is not queued for retry.
DropFailed(queue, cmd, n) == pending' = queue /\ UNCHANGED gaveUp

\* RetryQueue::push_failed after the failure number n of cmd.
PushFailed(queue, cmd, n) ==
  /\ pending' = [queue EXCEPT ![cmd.rule] =
                   IF n >= MaxAttempts THEN None ELSE [cmd |-> cmd, attempts |-> n]]
  /\ gaveUp' = IF n >= MaxAttempts THEN gaveUp \cup {cmd.rule} ELSE gaveUp \ {cmd.rule}

\* handle_command for cmd, with the retry queue left as queue: a failure returns
\* before the snapshot is saved and counts as failure number n.
HandleCommand(cmd, queue, n) ==
  \E o \in Outcomes(cmd) :
    /\ running' = o.run
    /\ IF o.ok
       THEN /\ Save(o.run, o.fault)
            /\ pending' = queue
            /\ gaveUp' = IF cmd.op = "reconcile" THEN gaveUp ELSE gaveUp \ {cmd.rule}
       ELSE /\ PushFailed(queue, cmd, n)
            /\ faults' = faults + o.fault
            /\ UNCHANGED <<file, behind>>

\* Mutation: a new command leaves the older retries of its rule in the queue.
SupersedeNothing(cmd) == pending

\* RetryQueue::supersede: a rule command cancels the pending retry of its rule.
Supersede(cmd) ==
  IF cmd.op = "reconcile" THEN pending ELSE [pending EXCEPT ![cmd.rule] = None]

\* The session loop takes the next command of the stream.
Receive ==
  /\ session = "online"
  /\ inbox # <<>>
  /\ LET cmd == Head(inbox) IN
       /\ HandleCommand(cmd, Supersede(cmd), 1)
       /\ latest' = IF cmd.op = "reconcile" THEN latest ELSE [latest EXCEPT ![cmd.rule] = cmd]
  /\ inbox' = Tail(inbox)
  /\ UNCHANGED <<want, session, changes, drops>>

\* The retry tick finds the entry of r due: RETRY_DELAY has passed.
RetryDue(r) ==
  /\ session = "online"
  /\ pending[r] # None
  /\ HandleCommand(pending[r].cmd, [pending EXCEPT ![r] = None], pending[r].attempts + 1)
  /\ UNCHANGED <<want, inbox, session, latest, changes, drops>>

\* Register and subscribe: the panel replays its rules.
Connect ==
  /\ session = "offline"
  /\ session' = "online"
  /\ \E ids \in ById(Live) : inbox' = Replay(ids)
  /\ UNCHANGED <<want, agentState, changes, faults, drops>>

\* What a session keeps in local variables is gone with it.
EndSession ==
  /\ drops < MaxDrops /\ drops' = drops + 1
  /\ inbox' = <<>>
  /\ pending' = [r \in Rule |-> None]
  /\ gaveUp' = {}
  /\ latest' = [r \in Rule |-> None]
  /\ UNCHANGED <<want, file, changes, faults>>

\* The stream breaks; the listeners stay.
Disconnect ==
  /\ session = "online"
  /\ session' = "offline"
  /\ EndSession
  /\ UNCHANGED <<running, behind>>

\* The process dies.  Only the state file survives.
Crash ==
  /\ session # "off"
  /\ session' = "off"
  /\ EndSession
  /\ running' = [r \in Rule |-> NoPort]
  /\ UNCHANGED behind

\* run_agent loads the state file and applies it before it connects; rules that
\* fail to bind are only logged.
Startup ==
  /\ session = "off"
  /\ session' = "offline"
  /\ \E failed \in SUBSET {r \in Rule : file[r] # NoPort} :
       /\ faults + Cardinality(failed) <= MaxFaults
       /\ faults' = faults + Cardinality(failed)
       /\ running' = [r \in Rule |-> IF r \in failed THEN NoPort ELSE file[r]]
  /\ UNCHANGED <<want, inbox, file, pending, gaveUp, behind, latest, changes, drops>>

AgentStep == Receive \/ Connect \/ Startup

AgentNext ==
  \/ \E r \in Rule : \/ \E c \in Config : PanelApply(r, c)
                     \/ PanelDelete(r) \/ PanelRestart(r) \/ RetryDue(r)
  \/ AgentStep \/ Disconnect \/ Crash

AgentSpec == AgentInit /\ [][AgentNext]_agentVars

\* The agent reads its stream, retries what is due, reconnects after a backoff
\* and is restarted by its service manager.
FairAgentSpec ==
  /\ AgentSpec
  /\ WF_agentVars(AgentStep)
  /\ \A r \in Rule : WF_agentVars(RetryDue(r))
-----------------------------------------------------------------------------
AgentTypeOK ==
  /\ want \in [Rule -> Config \cup {Gone}]
  /\ inbox \in Seq(Command)
  /\ session \in {"off", "offline", "online"}
  /\ running \in [Rule -> Port \cup {NoPort}]
  /\ file \in [Rule -> Port \cup {NoPort}]
  /\ pending \in [Rule -> Retry \cup {None}]
  /\ gaveUp \subseteq Rule
  /\ behind \in BOOLEAN
  /\ latest \in [Rule -> RuleCommand \cup {None}]

\* No command that can stop or start r is on its way.
Settled(r) ==
  /\ session = "online"
  /\ \A i \in DOMAIN inbox : inbox[i].op # "reconcile" /\ inbox[i].rule # r

\* A retry never replays anything but the newest command of its rule: an expired
\* ApplyRule does not bring back a rule that was deleted, disabled or moved
\* (retry.rs, comment on supersede).
RetriesAreLatest ==
  \A r \in Rule : pending[r] # None => pending[r].cmd = latest[r]

\* A RestartRule was the last command about r: it has cancelled what was to be retried.
Restarted(r) == latest[r] # None /\ latest[r].op = "restart"

\* What the panel wants of a rule is what the agent does, or the agent is still
\* trying, or it has failed MAX_ATTEMPTS times (retry.rs, first line).
RunsOrRetries(r) == running[r] = Wanted(r) \/ pending[r] # None \/ r \in gaveUp

\* Every settled rule runs as the panel wants it, is being retried or was given up,
\* whatever commands failed: unless a restart was the last thing asked for.
SettledOrRetrying == \A r \in Rule : Settled(r) /\ ~Restarted(r) => RunsOrRetries(r)

\* The same of restarted rules: a restart neither loses nor gives up a rule. Not an
\* invariant: a RestartRule cancels the retry of a failed ApplyRule (retry.rs:62), finds
\* no rule to restart (manager.rs:146) and succeeds.
RestartKeepsTrying == \A r \in Rule : Settled(r) => RunsOrRetries(r)

\* After a crash the agent runs, before it reaches the panel, what it ran: the state
\* file holds every settled rule that runs, and none the panel deleted or disabled.
\* A failed command returns before the snapshot is saved, and must not break this.
DiskAgrees ==
  \A r \in Rule : Settled(r) /\ ~behind =>
    /\ running[r] # NoPort => file[r] = running[r]
    /\ Wanted(r) = NoPort => file[r] = NoPort

\* Moves of ports between rules while the agent was offline make replayed commands
\* fail on ports that another rule still holds; in the end every rule runs where the
\* panel wants it, unless its command failed MAX_ATTEMPTS times or was a restart.
Converges ==
  <>[](session = "online" /\
       \A r \in Rule : running[r] = Wanted(r) \/ r \in gaveUp \/ Restarted(r))

=============================================================================
