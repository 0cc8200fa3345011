------------------------------ MODULE RuleSync ------------------------------
(***************************************************************************)
(* How rule changes reach the agents: the handlers of routes/rules.rs, the *)
(* sweepers, the reconcile task of subscribe_commands (grpc/service.rs),   *)
(* the per-node sections (NodeSections) and the command channels, composed *)
(* with agents that apply what they receive.                               *)
(*                                                                         *)
(* Every await of a handler is a point where another task may run, so the  *)
(* read, the write, the second read, the lock and the pushes of a handler  *)
(* are actions of their own.  A row is abstracted to the version its last  *)
(* write gave it.                                                          *)
(***************************************************************************)
EXTENDS Integers, Sequences, FiniteSets, Functions

CONSTANTS Node,             \* node ids
          Rule,             \* rule ids, integers
          NodesOf,          \* NodesOf[r]: the entry node, or the hops of its tunnel
          Handler,          \* request handlers and sweepers
          Ops,              \* kinds of jobs the handlers run
          Serial,           \* TRUE: jobs on one rule do not overlap
          Capacity,         \* CHANNEL_CAPACITY
          MaxJobs,          \* bound: jobs started
          MaxSubscriptions  \* bound: subscriptions opened

AllOps == {"create", "update", "delete", "sweep"}

ASSUME SyncAssumption ==
  /\ Rule \subseteq Nat /\ IsFiniteSet(Rule) /\ NodesOf \in [Rule -> SUBSET Node] /\ Ops \subseteq AllOps
  /\ Serial \in BOOLEAN /\ Capacity \in Nat \ {0} /\ MaxJobs \in Nat /\ MaxSubscriptions \in Nat
  /\ Handler \cap (1..MaxSubscriptions) = {}

Gen == 1..MaxSubscriptions
NoGen == 0
NoRow == 0

VARIABLES
  row,      \* row[r]: version of the undeleted row of r, or NoRow
  issued,   \* ids that were given to a row, deleted ones included
  jobs,     \* jobs started; the job number is the version it writes
  job,      \* job[h]: the job of handler h, see NoJob
  section,  \* section[t]: the nodes task t holds locked (NodeSections)
  sub,      \* sub[n]: the open subscription of n, or NoGen
  queue,    \* queue[n]: commands in the channel of sub[n]
  opened,   \* subscriptions opened
  replay,   \* replay[g]: the reconcile task of subscription g
  applied,  \* applied[n][r]: version agent n runs, or NoRow
  synced,   \* history: nodes whose current subscription was fully replayed
  missed,   \* history: nodes that missed a push since they subscribed
  told      \* history: told[r]: nodes whose removal of r was reported as sent

dbVars == <<row, issued>>
chanVars == <<sub, queue, opened>>
syncVars == <<row, issued, jobs, job, section, sub, queue, opened, replay, applied,
              synced, missed, told>>

Sections == INSTANCE NodeSections WITH Task <- Handler \cup Gen

NoJob == [op |-> "none", rule |-> NoRow, step |-> "idle", version |-> 0, seen |-> NoRow, left |-> {}]
NoReplay == [node |-> NoRow, step |-> "none", left |-> <<>>]

Steps == {"idle", "write", "reread", "lock", "push", "done"}

ApplyRule(r, v) == [op |-> "apply", rule |-> r, version |-> v]
RemoveRule(r) == [op |-> "remove", rule |-> r]
ReconcileRules(keep) == [op |-> "reconcile", keep |-> keep]

SyncInit ==
  /\ row = [r \in Rule |-> NoRow] /\ issued = {}
  /\ jobs = 0
  /\ job = [h \in Handler |-> NoJob]
  /\ Sections!SectionsInit
  /\ sub = [n \in Node |-> NoGen] /\ queue = [n \in Node |-> <<>>] /\ opened = 0
  /\ replay = [g \in Gen |-> NoReplay]
  /\ applied = [n \in Node |-> [r \in Rule |-> NoRow]]
  /\ synced = {} /\ missed = {}
  /\ told = [r \in Rule |-> {}]
-----------------------------------------------------------------------------
(* Jobs of handlers and sweepers. *)

Busy(r) == \E h \in Handler : job[h].step # "idle" /\ job[h].rule = r

StartJob(h, o, r, step) ==
  /\ job[h].step = "idle" /\ o \in Ops
  /\ jobs < MaxJobs /\ jobs' = jobs + 1
  /\ Serial => ~Busy(r)
  /\ job' = [job EXCEPT ![h] = [op |-> o, rule |-> r, step |-> step, version |-> jobs',
                                seen |-> NoRow, left |-> NodesOf[r]]]

\* create: the INSERT issues the id.
BeginCreate(h, r) ==
  /\ r \notin issued
  /\ StartJob(h, "create", r, "reread")
  /\ row' = [row EXCEPT ![r] = jobs'] /\ issued' = issued \cup {r}
  /\ UNCHANGED <<section, chanVars, replay, applied, synced, missed, told>>

\* update, set_enabled, a sweeper or a profile update: find_by_id, then the checks.
\* delete: the target nodes are computed from the row read here.
BeginChange(h, o, r) ==
  /\ row[r] # NoRow
  /\ o # "create"
  /\ StartJob(h, o, r, IF o = "delete" THEN "lock" ELSE "write")
  /\ UNCHANGED <<dbVars, section, chanVars, replay, applied, synced, missed, told>>

\* The job continues with step s.
Goto(h, s) == job' = [job EXCEPT ![h].step = s]

\* The UPDATE of the row; without a row it answers NotFound.
Write(h) ==
  /\ job[h].step = "write" /\ job[h].op # "delete"
  /\ LET r == job[h].rule IN
       IF row[r] = NoRow THEN Goto(h, "done") /\ UNCHANGED row
       ELSE Goto(h, "reread") /\ row' = [row EXCEPT ![r] = job[h].version]
  /\ UNCHANGED <<issued, jobs, section, chanVars, replay, applied, synced, missed, told>>

\* The row is read again for the command; a sweeper pushes it without a lock.
Reread(h) ==
  /\ job[h].step = "reread"
  /\ LET r == job[h].rule IN
       job' = [job EXCEPT ![h].seen = row[r],
                          ![h].step = IF row[r] = NoRow THEN "done"
                                      ELSE IF job[h].op = "sweep" THEN "push" ELSE "lock"]
  /\ UNCHANGED <<dbVars, jobs, section, chanVars, replay, applied, synced, missed, told>>

\* Mutation: the job goes on without its locks.
LockNothing(h) ==
  /\ job[h].step = "lock"
  /\ Goto(h, IF job[h].op = "delete" THEN "write" ELSE "push")
  /\ UNCHANGED <<dbVars, jobs, section, chanVars, replay, applied, synced, missed, told>>

\* lock_nodes over the target nodes of the rule.
Lock(h) ==
  /\ job[h].step = "lock"
  /\ Sections!Enter(h, NodesOf[job[h].rule])
  /\ Goto(h, IF job[h].op = "delete" THEN "write" ELSE "push")
  /\ UNCHANGED <<dbVars, jobs, chanVars, replay, applied, synced, missed, told>>

\* soft_delete inside the section.
SoftDelete(h) ==
  /\ job[h].step = "write" /\ job[h].op = "delete"
  /\ LET r == job[h].rule IN
       /\ row' = [row EXCEPT ![r] = NoRow]
       /\ Goto(h, IF row[r] = NoRow THEN "done" ELSE "push")
  /\ UNCHANGED <<issued, jobs, section, chanVars, replay, applied, synced, missed, told>>

CommandOf(h) == IF job[h].op = "delete" THEN RemoveRule(job[h].rule)
                                        ELSE ApplyRule(job[h].rule, job[h].seen)

\* try_send to n would succeed.
Accepts(n) == sub[n] # NoGen /\ Len(queue[n]) < Capacity

\* dispatch of the command to one target node; a refusal is only logged.
Push(h, n) ==
  /\ job[h].step = "push" /\ n \in job[h].left
  /\ LET left == job[h].left \ {n} IN
       job' = [job EXCEPT ![h].left = left, ![h].step = IF left = {} THEN "done" ELSE @]
  /\ IF Accepts(n)
     THEN /\ queue' = [queue EXCEPT ![n] = Append(@, CommandOf(h))]
          /\ told' = IF job[h].op = "delete" THEN [told EXCEPT ![job[h].rule] = @ \cup {n}]
                                             ELSE told
          /\ UNCHANGED missed
     ELSE /\ missed' = missed \cup {n}
          /\ UNCHANGED <<queue, told>>
  /\ UNCHANGED <<dbVars, jobs, section, sub, opened, replay, applied, synced>>

\* The reply is sent, the guards drop.
Finish(h) ==
  /\ job[h].step = "done"
  /\ job' = [job EXCEPT ![h] = NoJob]
  /\ Sections!Exit(h)
  /\ UNCHANGED <<dbVars, jobs, chanVars, replay, applied, synced, missed, told>>

\* The client is gone: the server drops the handler at an await.  A row that was
\* already written stays written, and nothing is pushed.
Abandon(h) ==
  /\ job[h].op # "sweep"
  /\ \/ job[h].step \in {"write", "reread", "lock"}
     \/ job[h].step = "push" /\ job[h].left = NodesOf[job[h].rule]
  /\ LET written == \/ job[h].step \in {"reread", "push"}
                    \/ job[h].step = "lock" /\ job[h].op # "delete"
     IN  missed' = IF written THEN missed \cup NodesOf[job[h].rule] ELSE missed
  /\ job' = [job EXCEPT ![h] = NoJob]
  /\ Sections!Exit(h)
  /\ UNCHANGED <<dbVars, jobs, chanVars, replay, applied, synced, told>>
-----------------------------------------------------------------------------
(* Subscriptions and their reconcile tasks. *)

CloseStream(n) ==
  /\ queue' = [queue EXCEPT ![n] = <<>>]
  /\ synced' = synced \ {n}
  /\ told' = [r \in Rule |-> told[r] \ {n}]

\* An agent (re)connects: a new channel replaces what was registered, and a
\* reconcile task is spawned.
Subscribe(n) ==
  /\ opened < MaxSubscriptions
  /\ LET g == opened + 1 IN
       /\ opened' = g
       /\ sub' = [sub EXCEPT ![n] = g]
       /\ replay' = [replay EXCEPT ![g] = [node |-> n, step |-> "lock", left |-> <<>>]]
  /\ CloseStream(n)
  /\ missed' = missed \ {n}
  /\ UNCHANGED <<dbVars, jobs, job, section, applied>>

Disconnect(n) ==
  /\ sub[n] # NoGen
  /\ sub' = [sub EXCEPT ![n] = NoGen]
  /\ CloseStream(n)
  /\ UNCHANGED <<dbVars, jobs, job, section, opened, replay, applied, missed>>

ReplayLock(g) ==
  /\ replay[g].step = "lock"
  /\ Sections!Enter(g, {replay[g].node})
  /\ replay' = [replay EXCEPT ![g].step = "read"]
  /\ UNCHANGED <<dbVars, jobs, job, chanVars, applied, synced, missed, told>>

\* The rules n should run.
RulesOf(n) == {r \in Rule : n \in NodesOf[r] /\ row[r] # NoRow}

\* The orders in which the queries may list the rules S.  It is left open: a
\* node's own rules come first, then each tunnel's, and nothing depends on it.
Listings(S) == Bijection(1..Cardinality(S), S)

ApplyAll(ids) == [i \in DOMAIN ids |-> ApplyRule(ids[i], row[ids[i]])]

\* Mutation: rules written since the last restart of the panel are left out of keep_ids.
SnapshotPartly(n, ids) == Append(ApplyAll(ids), ReconcileRules({r \in RulesOf(n) : row[r] = 1}))

\* reconcile_commands_for_node and the closing ReconcileRules.
Snapshot(n, ids) == Append(ApplyAll(ids), ReconcileRules(RulesOf(n)))

ReplayRead(g) ==
  /\ replay[g].step = "read"
  /\ \E ids \in Listings(RulesOf(replay[g].node)) :
       replay' = [replay EXCEPT ![g].step = "send", ![g].left = Snapshot(replay[g].node, ids)]
  /\ UNCHANGED <<dbVars, jobs, job, section, chanVars, applied, synced, missed, told>>

EndReplay(g) ==
  /\ replay' = [replay EXCEPT ![g].step = "done", ![g].left = <<>>]
  /\ Sections!Exit(g)
  /\ UNCHANGED <<dbVars, jobs, job, chanVars, applied, missed, told>>

\* The query failed: nothing is sent, the agent keeps the rules it has.
ReplayFail(g) ==
  /\ replay[g].step = "read"
  /\ EndReplay(g)
  /\ UNCHANGED synced

\* Mutation: only the replay is noticed to be over, not the stream.
ReplayAbortNever(g) == FALSE /\ EndReplay(g) /\ UNCHANGED synced

\* send().await fails: the receiver of this subscription is gone.
ReplayAbort(g) ==
  /\ replay[g].step = "send"
  /\ sub[replay[g].node] # g
  /\ EndReplay(g)
  /\ UNCHANGED synced

\* send().await, waiting for room.
ReplaySend(g) ==
  /\ replay[g].step = "send" /\ replay[g].left # <<>>
  /\ LET n == replay[g].node IN
       /\ sub[n] = g
       /\ Len(queue[n]) < Capacity
       /\ queue' = [queue EXCEPT ![n] = Append(@, Head(replay[g].left))]
  /\ replay' = [replay EXCEPT ![g].left = Tail(@)]
  /\ UNCHANGED <<dbVars, jobs, job, section, sub, opened, applied, synced, missed, told>>

ReplayDone(g) ==
  /\ replay[g].step = "send" /\ replay[g].left = <<>>
  /\ sub[replay[g].node] = g
  /\ EndReplay(g)
  /\ synced' = synced \cup {replay[g].node}
-----------------------------------------------------------------------------
\* What a command makes of the version v of rule r on an agent.
Effect(cmd, r, v) ==
  CASE cmd.op = "apply" /\ cmd.rule = r -> cmd.version
    [] cmd.op = "remove" /\ cmd.rule = r -> NoRow
    [] cmd.op = "reconcile" /\ r \notin cmd.keep -> NoRow
    [] OTHER -> v

\* The agent handles the next command of its stream.
Deliver(n) ==
  /\ queue[n] # <<>>
  /\ applied' = [applied EXCEPT ![n] = [r \in Rule |-> Effect(Head(queue[n]), r, @[r])]]
  /\ queue' = [queue EXCEPT ![n] = Tail(@)]
  /\ UNCHANGED <<dbVars, jobs, job, section, sub, opened, replay, synced, missed, told>>

Continue(h) ==
  \/ Write(h) \/ Reread(h) \/ Lock(h) \/ SoftDelete(h) \/ Finish(h)
  \/ \E n \in Node : Push(h, n)

ReplayStep(g) ==
  \/ ReplayLock(g) \/ ReplayRead(g) \/ ReplaySend(g) \/ ReplayDone(g) \/ ReplayAbort(g)

SyncNext ==
  \/ \E h \in Handler :
       \/ Continue(h) \/ Abandon(h)
       \/ \E r \in Rule : BeginCreate(h, r) \/ \E o \in Ops : BeginChange(h, o, r)
  \/ \E n \in Node : Subscribe(n) \/ Disconnect(n) \/ Deliver(n)
  \/ \E g \in Gen : ReplayStep(g) \/ ReplayFail(g)

SyncSpec == SyncInit /\ [][SyncNext]_syncVars

\* Tasks are polled and agents read their streams.  The mutexes and the channels are
\* fair: a task that finds its nodes unlocked, or room in its channel, again and
\* again gets them in the end (NodeLocks, CommandChannels), hence SF.
FairSyncSpec ==
  /\ SyncSpec
  /\ \A h \in Handler : SF_syncVars(Continue(h))
  /\ \A g \in Gen : SF_syncVars(ReplayStep(g))
  /\ \A n \in Node : WF_syncVars(Deliver(n))
-----------------------------------------------------------------------------
Version == 0..MaxJobs
Command == [op : {"apply"}, rule : Rule, version : Version] \cup [op : {"remove"}, rule : Rule]
             \cup [op : {"reconcile"}, keep : SUBSET Rule]
Job == [op : AllOps \cup {"none"}, rule : Rule \cup {NoRow}, step : Steps,
        version : Version, seen : Version, left : SUBSET Node]
Replay == [node : Node \cup {NoRow}, step : {"none", "lock", "read", "send", "done"},
           left : Seq(Command)]

SyncTypeOK ==
  /\ row \in [Rule -> Version] /\ issued \subseteq Rule /\ jobs \in Version
  /\ job \in [Handler -> Job]
  /\ section \in [Handler \cup Gen -> SUBSET Node]
  /\ sub \in [Node -> Gen \cup {NoGen}]
  /\ queue \in [Node -> Seq(Command)] /\ \A n \in Node : Len(queue[n]) <= Capacity
  /\ opened \in 0..MaxSubscriptions
  /\ replay \in [Gen -> Replay]
  /\ applied \in [Node -> [Rule -> Version]]
  /\ synced \subseteq Node /\ missed \subseteq Node
  /\ told \in [Rule -> SUBSET Node]

\* Nothing is under way that may still change what n runs.
Quiet(n) ==
  /\ queue[n] = <<>>
  /\ \A h \in Handler : job[h].step # "idle" => n \notin NodesOf[job[h].rule]
  /\ \A g \in Gen : replay[g].node = n => replay[g].step = "done"

\* A node that stays connected after its replay, and refused no push, runs exactly
\* the rows of the database as soon as nothing is under way: no change is lost
\* between the replay of a reconnecting agent and the handlers, and the online
\* agent needs no further reconnection to agree with the panel.
Converged ==
  \A n \in Node : n \in synced \ missed /\ Quiet(n) =>
    \A r \in Rule : applied[n][r] = IF n \in NodesOf[r] THEN row[r] ELSE NoRow

\* cmd says what becomes of rule r.
Touches(cmd, r) ==
  \/ cmd.op \in {"apply", "remove"} /\ cmd.rule = r
  \/ cmd.op = "reconcile" /\ r \notin cmd.keep

Untouched(cmds, r) == \A j \in 1..Len(cmds) : ~Touches(cmds[j], r)

\* The last of the commands that touches r makes it v.
MakeIt(cmds, r, v) ==
  \E k \in 1..Len(cmds) :
     /\ Touches(cmds[k], r) /\ Effect(cmds[k], r, NoRow) = v
     /\ \A j \in (k + 1)..Len(cmds) : ~Touches(cmds[j], r)

\* What runs of r once cmds are handled, where it was `was', is v.
DrainsTo(cmds, was, r, v) == MakeIt(cmds, r, v) \/ (Untouched(cmds, r) /\ was = v)

\* A removal that was reported as sent (dispatched: true) is final: while the node
\* stays connected no replay and no other job brings the rule back.
DispatchedMeansDeleted ==
  \A r \in Rule : \A n \in told[r] : DrainsTo(queue[n], applied[n][r], r, NoRow)

\* Every job ends although it may wait for a replay, and a replay for its agent.
JobsEnd == \A h \in Handler : job[h].step # "idle" ~> job[h].step = "idle"

=============================================================================
