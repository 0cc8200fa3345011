--------------------------- MODULE StatsPipeline ---------------------------
(***************************************************************************)
(* How relayed bytes become billed bytes: the relay tasks add to atomic    *)
(* counters (node-agent/src/stats.rs), the session task drains and reports *)
(* them (agent.rs, report_stats) and the panel adds every bucket to its    *)
(* rule in a transaction of its own (grpc/service.rs, report_rule_stats).  *)
(*                                                                         *)
(* A call that failed for the agent may still be under way in the panel,   *)
(* next to the call that repeats its bytes.  One amount per rule stands    *)
(* for rx, tx and the connection count, which always move together.        *)
(***************************************************************************)
EXTENDS Integers

CONSTANTS Rule,         \* rules of the node
          MaxBytes,     \* bound: bytes relayed for a rule
          MaxReports,   \* bound: calls of report_rule_stats
          MaxFailures,  \* bound: calls that fail by themselves, handlers that are dropped
          MaxDbErrors,  \* bound: transactions that fail
          MaxCrashes    \* bound: crashes of the agent

ASSUME StatsAssumption ==
  MaxBytes \in Nat /\ MaxReports \in Nat /\ MaxFailures \in Nat
  /\ MaxDbErrors \in Nat /\ MaxCrashes \in Nat

Call == 1..MaxReports

VARIABLES
  rows,     \* rules the panel has not deleted
  total,    \* total[r]: the traffic column of forward_rules
  counter,  \* counter[r]: the agent's atomic counter
  phase,    \* of the session task: "off", "idle", "drain", "wait" or "restore"
  todo,     \* rules still to be drained or restored
  held,     \* held[r]: bytes in the agent's snapshot
  calls,    \* reports sent; the newest is the one the agent waits for
  amount,   \* amount[c][r]: bytes of r in the batch of call c
  left,     \* left[c]: buckets of c the panel has not come to
  done,     \* done[c]: buckets of c that were committed
  serving,  \* calls whose handler runs
  failures, dbErrors, crashes,  \* counters of the bounds
  moved,    \* history: bytes relayed
  twice,    \* history: bytes committed although the agent counts them as failed or lost
  gone,     \* history: bytes lost with the process
  lost      \* history: bytes acknowledged, but not committed

panelVars == <<rows, total, amount, left, done, serving>>
agentVars == <<counter, phase, todo, held>>
bounds == <<calls, failures, dbErrors, crashes>>
history == <<moved, twice, gone, lost>>
statsVars == <<panelVars, agentVars, bounds, history>>

Zero == [r \in Rule |-> 0]

StatsInit ==
  /\ rows = Rule /\ total = Zero
  /\ counter = Zero /\ phase = "idle" /\ todo = {} /\ held = Zero
  /\ calls = 0 /\ failures = 0 /\ dbErrors = 0 /\ crashes = 0
  /\ amount = [c \in Call |-> Zero]
  /\ left = [c \in Call |-> {}] /\ done = [c \in Call |-> {}] /\ serving = {}
  /\ moved = Zero /\ twice = Zero /\ gone = Zero /\ lost = Zero

\* The agent waits for the answer to call c.
Awaited(c) == phase = "wait" /\ c = calls

\* Bytes the agent's snapshot still answers for.
Outstanding(r) == IF phase = "wait" /\ r \in done[calls] THEN 0 ELSE held[r]
-----------------------------------------------------------------------------
(* The agent. *)

\* A relay task adds what it forwarded; at any moment.
Relay(r) ==
  /\ phase # "off"
  /\ moved[r] < MaxBytes
  /\ moved' = [moved EXCEPT ![r] = @ + 1]
  /\ counter' = [counter EXCEPT ![r] = @ + 1]
  /\ UNCHANGED <<panelVars, phase, todo, held, bounds, twice, gone, lost>>

\* The stats tick.
StartReport ==
  /\ phase = "idle"
  /\ phase' = "drain" /\ todo' = Rule
  /\ UNCHANGED <<panelVars, counter, held, bounds, history>>

\* Mutation: the counter is read, but not reset.
DrainCopy(r) ==
  /\ phase = "drain" /\ r \in todo
  /\ held' = [held EXCEPT ![r] = counter[r]]
  /\ todo' = todo \ {r}
  /\ UNCHANGED <<panelVars, counter, phase, bounds, history>>

\* drain_snapshot: swap(0), one counter after the other.
Drain(r) ==
  /\ phase = "drain" /\ r \in todo
  /\ held' = [held EXCEPT ![r] = counter[r]]
  /\ counter' = [counter EXCEPT ![r] = 0]
  /\ todo' = todo \ {r}
  /\ UNCHANGED <<panelVars, phase, bounds, history>>

\* Without traffic nothing is sent.
SkipReport ==
  /\ phase = "drain" /\ todo = {} /\ held = Zero
  /\ phase' = "idle"
  /\ UNCHANGED <<panelVars, counter, todo, held, bounds, history>>

Send ==
  /\ phase = "drain" /\ todo = {} /\ held # Zero
  /\ calls < MaxReports /\ calls' = calls + 1
  /\ phase' = "wait"
  /\ amount' = [amount EXCEPT ![calls'] = held]
  /\ left' = [left EXCEPT ![calls'] = {r \in Rule : held[r] # 0}]
  /\ serving' = serving \cup {calls'}
  /\ UNCHANGED <<rows, total, done, counter, todo, held, failures, dbErrors, crashes, history>>

\* Mutation: the answer is taken for good before every bucket was served.
AckEarly ==
  /\ phase = "wait" /\ calls \in serving
  /\ serving' = serving \ {calls}
  /\ phase' = "idle" /\ held' = Zero
  /\ lost' = [r \in Rule |-> lost[r] + Outstanding(r)]
  /\ UNCHANGED <<rows, total, amount, left, done, counter, todo, bounds, moved, twice, gone>>

\* Ack ok: the handler came to the end of the batch, whatever its transactions did.
AckOk ==
  /\ phase = "wait" /\ calls \in serving /\ left[calls] = {}
  /\ serving' = serving \ {calls}
  /\ phase' = "idle" /\ held' = Zero
  /\ lost' = [r \in Rule |-> lost[r] + Outstanding(r)]
  /\ UNCHANGED <<rows, total, amount, left, done, counter, todo, bounds, moved, twice, gone>>

\* The call fails for the agent: its handler is gone, or the answer does not come
\* through although the handler goes on.
CallFailed ==
  /\ phase = "wait"
  /\ IF calls \in serving THEN failures < MaxFailures /\ failures' = failures + 1
                          ELSE UNCHANGED failures
  /\ phase' = "restore" /\ todo' = Rule
  /\ twice' = [r \in Rule |-> twice[r] + (held[r] - Outstanding(r))]
  /\ UNCHANGED <<panelVars, counter, held, calls, dbErrors, crashes, moved, gone, lost>>

\* Mutation: what the relay tasks added since the drain is overwritten.
RestoreStore(r) ==
  /\ phase = "restore" /\ r \in todo
  /\ counter' = [counter EXCEPT ![r] = held[r]]
  /\ held' = [held EXCEPT ![r] = 0]
  /\ todo' = todo \ {r}
  /\ UNCHANGED <<panelVars, phase, bounds, history>>

\* restore: fetch_add, one counter after the other.
Restore(r) ==
  /\ phase = "restore" /\ r \in todo
  /\ counter' = [counter EXCEPT ![r] = @ + held[r]]
  /\ held' = [held EXCEPT ![r] = 0]
  /\ todo' = todo \ {r}
  /\ UNCHANGED <<panelVars, phase, bounds, history>>

EndRestore ==
  /\ phase = "restore" /\ todo = {}
  /\ phase' = "idle"
  /\ UNCHANGED <<panelVars, counter, todo, held, bounds, history>>

\* The agent handles the RemoveRule of a deleted rule, or a ReconcileRules without
\* it: the session task reports or handles a command, never both.
Remove(r) ==
  /\ phase = "idle"
  /\ r \notin rows
  /\ counter' = [counter EXCEPT ![r] = 0]
  /\ UNCHANGED <<panelVars, phase, todo, held, bounds, history>>

\* The counters live in memory.
Crash ==
  /\ phase # "off"
  /\ crashes < MaxCrashes /\ crashes' = crashes + 1
  /\ phase' = "off"
  /\ gone' = [r \in Rule |-> gone[r] + counter[r] + Outstanding(r)]
  /\ counter' = Zero /\ held' = Zero /\ todo' = {}
  /\ UNCHANGED <<panelVars, calls, failures, dbErrors, moved, twice, lost>>

Start ==
  /\ phase = "off"
  /\ phase' = "idle"
  /\ UNCHANGED <<panelVars, counter, todo, held, bounds, history>>
-----------------------------------------------------------------------------
(* The panel. *)

\* The handler comes to the bucket of r.
Reach(c, r) ==
  /\ c \in serving /\ r \in left[c]
  /\ left' = [left EXCEPT ![c] = @ \ {r}]

\* The transaction of one bucket.
Commit(c, r) ==
  /\ Reach(c, r)
  /\ r \in rows
  /\ total' = [total EXCEPT ![r] = @ + amount[c][r]]
  /\ done' = [done EXCEPT ![c] = @ \cup {r}]
  /\ twice' = IF Awaited(c) THEN twice ELSE [twice EXCEPT ![r] = @ + amount[c][r]]
  /\ UNCHANGED <<rows, amount, serving, agentVars, bounds, moved, gone, lost>>

\* The UPDATE meets no undeleted row: the bucket is rolled back.
Discard(c, r) ==
  /\ Reach(c, r)
  /\ r \notin rows
  /\ UNCHANGED <<rows, total, amount, done, serving, agentVars, bounds, history>>

\* Begin, a statement or the commit fails: a warning, and on to the next bucket.
DbError(c, r) ==
  /\ Reach(c, r)
  /\ dbErrors < MaxDbErrors /\ dbErrors' = dbErrors + 1
  /\ UNCHANGED <<rows, total, amount, done, serving, agentVars, calls, failures, crashes, history>>

\* The connection breaks and the handler is dropped between two buckets.
DropHandler(c) ==
  /\ c \in serving
  /\ failures < MaxFailures /\ failures' = failures + 1
  /\ serving' = serving \ {c}
  /\ UNCHANGED <<rows, total, amount, left, done, agentVars, calls, dbErrors, crashes, history>>

PanelDelete(r) ==
  /\ r \in rows
  /\ rows' = rows \ {r}
  /\ UNCHANGED <<total, amount, left, done, serving, agentVars, bounds, history>>
-----------------------------------------------------------------------------
AgentStep ==
  \/ StartReport \/ SkipReport \/ Send \/ AckOk \/ EndRestore \/ Start
  \/ phase = "wait" /\ calls \notin serving /\ CallFailed
  \/ \E r \in Rule : Drain(r) \/ Restore(r)

Serve(c, r) == Commit(c, r) \/ Discard(c, r)

StatsNext ==
  \/ AgentStep \/ CallFailed \/ Crash
  \/ \E r \in Rule : Relay(r) \/ Remove(r) \/ PanelDelete(r)
  \/ \E c \in Call : DropHandler(c) \/ \E r \in Rule : Serve(c, r) \/ DbError(c, r)

StatsSpec == StatsInit /\ [][StatsNext]_statsVars

\* The session task is polled and its interval ticks; the panel polls its handlers.
FairStatsSpec ==
  /\ StatsSpec
  /\ WF_statsVars(AgentStep)
  /\ WF_statsVars(\E c \in Call, r \in Rule : Serve(c, r))
-----------------------------------------------------------------------------
StatsTypeOK ==
  /\ rows \subseteq Rule /\ total \in [Rule -> Nat]
  /\ counter \in [Rule -> Nat] /\ held \in [Rule -> Nat]
  /\ phase \in {"off", "idle", "drain", "wait", "restore"} /\ todo \subseteq Rule
  /\ calls \in 0..MaxReports
  /\ amount \in [Call -> [Rule -> Nat]]
  /\ left \in [Call -> SUBSET Rule] /\ done \in [Call -> SUBSET Rule]
  /\ serving \subseteq 1..calls
  /\ moved \in [Rule -> Nat] /\ twice \in [Rule -> Nat]
  /\ gone \in [Rule -> Nat] /\ lost \in [Rule -> Nat]

\* What the session task and the newest call agree on in every phase; no bucket is
\* served a second time.
ReportInv ==
  /\ phase \in {"off", "idle"} => held = Zero
  /\ phase = "drain" => \A r \in todo : held[r] = 0
  /\ phase = "restore" => \A r \in Rule \ todo : held[r] = 0
  /\ phase = "wait" => calls > 0 /\ amount[calls] = held
  /\ \A c \in Call : left[c] \cap done[c] = {} /\ (c > calls => left[c] = {} /\ done[c] = {})

StatsInv == StatsTypeOK /\ ReportInv

\* Every byte of a rule the panel has is billed once, waits in the agent, was lost
\* with a crash of the agent, or was acknowledged after a failed transaction; and a
\* byte is billed again only for a call that failed for the agent (stats.rs, comment
\* on restore: nothing is lost and nothing doubled otherwise).
Conserved ==
  \A r \in rows :
    moved[r] + twice[r] = total[r] + counter[r] + Outstanding(r) + gone[r] + lost[r]

\* A report that was acknowledged was billed: a byte is lost only with the process. Not
\* an invariant: a bucket whose transaction fails is skipped (service.rs:570).
NoAckedLoss == \A r \in rows : lost[r] = 0

\* The acknowledgement of a report covers every bucket the panel came to, unless the
\* database failed: the agent forgets nothing that is not billed.
AckMeansBilled == dbErrors = 0 => NoAckedLoss

\* Every byte that is relayed is billed in the end, whatever calls fail in between,
\* but for what a crash or a failed transaction takes (and unless MaxReports, which
\* bounds the model and not the code, is used up with bytes left).
Reported ==
  <>[](\/ calls = MaxReports /\ (counter # Zero \/ held # Zero)
       \/ \A r \in rows : moved[r] + twice[r] = total[r] + gone[r] + lost[r])
=============================================================================
