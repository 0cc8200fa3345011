-------------------------- MODULE AgentRulesProofs --------------------------
(* Theorems about the agent's rules, retries and state file (AgentRules). *)
EXTENDS AgentRules, FiniteSetTheorems, TLAPS

\* What the queue and the history of commands agree on: an entry is filed under the
\* rule of its command, and the command is the newest one of that rule.
RetryInv ==
  /\ pending = [r \in Rule |-> pending[r]]
  /\ latest = [r \in Rule |-> latest[r]]
  /\ \A r \in Rule : pending[r] # None => pending[r].cmd = latest[r] /\ pending[r].cmd.rule = r

\* A command that stops rules cannot fail, so a ReconcileRules is never queued.
LEMMA ReconcileSucceeds ==
  ASSUME NEW cmd, cmd.op = "reconcile", NEW o \in Outcomes(cmd)
  PROVE  o.ok = TRUE
<1>1. o \in Stop(Rule \ cmd.keep)
  BY DEF Outcomes
<1> QED
  BY <1>1 DEF Stop

\* What handling cmd does to the queue, whatever its outcome: at most the entry of
\* its own rule changes, to None or to cmd itself.
LEMMA HandledQueue ==
  ASSUME NEW cmd, NEW queue, NEW n, queue = [r \in Rule |-> queue[r]],
         HandleCommand(cmd, queue, n)
  PROVE  /\ pending' = [r \in Rule |-> pending'[r]]
         /\ \A r \in Rule : \/ pending'[r] = queue[r]
                            \/ pending'[r] = None
                            \/ cmd.op # "reconcile" /\ cmd.rule = r /\ pending'[r].cmd = cmd
<1> PICK o \in Outcomes(cmd) :
      IF o.ok THEN pending' = queue ELSE PushFailed(queue, cmd, n)
  BY DEF HandleCommand
<1>1. CASE o.ok
  BY <1>1
<1>2. CASE ~o.ok
  <2>1. cmd.op # "reconcile"
    BY <1>2, ReconcileSucceeds
  <2>2. pending' = [queue EXCEPT ![cmd.rule] =
                      IF n >= MaxAttempts THEN None ELSE [cmd |-> cmd, attempts |-> n]]
    BY <1>2 DEF PushFailed
  <2> QED
    BY <2>1, <2>2
<1> QED
  BY <1>1, <1>2

LEMMA RetryInit == AgentInit => RetryInv
  BY DEF AgentInit, RetryInv

\* Commands of the stream: the older entry of the rule is gone before the command is
\* handled, and a failure files the command that is the newest from now on.
LEMMA RetryReceive == RetryInv /\ Receive => RetryInv'
<1> SUFFICES ASSUME RetryInv, Receive PROVE RetryInv'
  OBVIOUS
<1> DEFINE cmd == Head(inbox)
           queue == Supersede(cmd)
<1>1. /\ HandleCommand(cmd, queue, 1)
      /\ latest' = IF cmd.op = "reconcile" THEN latest ELSE [latest EXCEPT ![cmd.rule] = cmd]
  BY DEF Receive
<1>2. queue = [r \in Rule |-> queue[r]]
  BY DEF Supersede, RetryInv
<1>3. /\ pending' = [r \in Rule |-> pending'[r]]
      /\ \A r \in Rule : \/ pending'[r] = queue[r]
                         \/ pending'[r] = None
                         \/ cmd.op # "reconcile" /\ cmd.rule = r /\ pending'[r].cmd = cmd
  <2> HIDE DEF cmd, queue
  <2> QED
    BY <1>1, <1>2, HandledQueue
<1>4. latest' = [r \in Rule |-> latest'[r]]
  BY <1>1 DEF RetryInv
<1>5. ASSUME NEW r \in Rule, pending'[r] # None
      PROVE  pending'[r].cmd = latest'[r] /\ pending'[r].cmd.rule = r
  <2>1. CASE pending'[r] = queue[r]
    <3>1. pending[r] # None /\ queue[r] = pending[r] /\ (cmd.op = "reconcile" \/ cmd.rule # r)
      BY <2>1, <1>5 DEF Supersede, RetryInv
    <3>2. latest'[r] = latest[r]
      BY <3>1, <1>1 DEF RetryInv
    <3> QED
      BY <2>1, <3>1, <3>2 DEF RetryInv
  <2>2. CASE cmd.op # "reconcile" /\ cmd.rule = r /\ pending'[r].cmd = cmd
    BY <2>2, <1>1 DEF RetryInv
  <2> QED
    BY <1>3, <1>5, <2>1, <2>2
<1> QED
  BY <1>3, <1>4, <1>5 DEF RetryInv

\* A retry leaves the queue before it is handled, and goes back as it was.
LEMMA RetryRetry == ASSUME NEW q \in Rule PROVE RetryInv /\ RetryDue(q) => RetryInv'
<1> SUFFICES ASSUME RetryInv, RetryDue(q) PROVE RetryInv'
  OBVIOUS
<1> DEFINE cmd == pending[q].cmd
           queue == [pending EXCEPT ![q] = None]
<1>1. /\ HandleCommand(cmd, queue, pending[q].attempts + 1)
      /\ latest' = latest
      /\ cmd = latest[q] /\ cmd.rule = q
  BY DEF RetryDue, RetryInv
<1>2. queue = [r \in Rule |-> queue[r]]
  BY DEF RetryInv
<1>3. /\ pending' = [r \in Rule |-> pending'[r]]
      /\ \A r \in Rule : \/ pending'[r] = queue[r]
                         \/ pending'[r] = None
                         \/ cmd.op # "reconcile" /\ cmd.rule = r /\ pending'[r].cmd = cmd
  <2> HIDE DEF cmd, queue
  <2> QED
    BY <1>1, <1>2, HandledQueue
<1>4. ASSUME NEW r \in Rule, pending'[r] # None
      PROVE  pending'[r].cmd = latest'[r] /\ pending'[r].cmd.rule = r
  BY <1>1, <1>3, <1>4 DEF RetryInv
<1> QED
  BY <1>1, <1>3, <1>4 DEF RetryInv

LEMMA RetryNext == RetryInv /\ [AgentNext]_agentVars => RetryInv'
<1> SUFFICES ASSUME RetryInv, [AgentNext]_agentVars PROVE RetryInv'
  OBVIOUS
<1>1. ASSUME NEW r \in Rule, NEW c \in Config, PanelApply(r, c) PROVE RetryInv'
  BY <1>1 DEF PanelApply, Change, agentState, RetryInv
<1>2. ASSUME NEW r \in Rule, PanelDelete(r) \/ PanelRestart(r) PROVE RetryInv'
  BY <1>2 DEF PanelDelete, PanelRestart, Change, agentState, RetryInv
<1>3. ASSUME NEW r \in Rule, RetryDue(r) PROVE RetryInv'
  BY <1>3, RetryRetry
<1>4. CASE Receive
  BY <1>4, RetryReceive
<1>5. CASE Connect
  BY <1>5 DEF Connect, agentState, RetryInv
<1>6. CASE Startup
  BY <1>6 DEF Startup, RetryInv
<1>7. CASE Disconnect \/ Crash
  BY <1>7 DEF Disconnect, Crash, EndSession, RetryInv
<1>8. CASE UNCHANGED agentVars
  BY <1>8 DEF agentVars, RetryInv
<1> QED
  BY <1>1, <1>2, <1>3, <1>4, <1>5, <1>6, <1>7, <1>8 DEF AgentNext, AgentStep

\* For any rules, ports and bounds: a retry repeats only the newest command about its
\* rule, so an expired ApplyRule never brings back a deleted or changed rule.
THEOREM RetriesRepeatLatest == AgentSpec => []RetriesAreLatest
<1>1. RetryInv => RetriesAreLatest
  BY DEF RetryInv, RetriesAreLatest
<1> QED
  BY <1>1, RetryInit, RetryNext, PTL DEF AgentSpec
-----------------------------------------------------------------------------
(* What the agent runs and what its state file holds. *)

\* cmd makes the rule r listen or stop, and is not a restart.
Decides(cmd, r) ==
  IF cmd.op = "reconcile" THEN r \notin cmd.keep ELSE cmd.op # "restart" /\ cmd.rule = r

\* cmd may change what the rule r does.
Touches(cmd, r) == IF cmd.op = "reconcile" THEN r \notin cmd.keep ELSE cmd.rule = r

\* The port a deciding command leaves its rule on, when it succeeds.
Target(cmd) == IF cmd.op = "apply" /\ cmd.config.enabled THEN cmd.config.port ELSE NoPort

\* cmd asks for what the panel wants of r.
Says(cmd, r) == IF cmd.op = "apply" THEN want[r] = cmd.config ELSE want[r] = Gone

\* Nothing on its way decides about r.
Undecided(r) == \A i \in 1..Len(inbox) : ~Decides(inbox[i], r)

\* The last command on its way that decides about r asks for what the panel wants.
LastDecides(r) ==
  \A i \in 1..Len(inbox) :
    Decides(inbox[i], r) /\ (\A j \in 1..Len(inbox) : j > i => ~Decides(inbox[j], r))
      => Says(inbox[i], r)

\* A ReconcileRules that stops r is the first the agent hears of r in its session: no
\* retry of r can outlive it.
ReconcileFirst(r) ==
  \A i \in 1..Len(inbox) : inbox[i].op = "reconcile" /\ r \notin inbox[i].keep =>
    /\ latest[r] = None
    /\ \A j \in 1..(i - 1) : inbox[j].op # "reconcile" /\ inbox[j].rule # r

\* A rule nothing decides about any more: its newest command asks for what the panel
\* wants, the rule runs or is retried, and a rule that must not run does not, on the
\* disk either.
Told(r) ==
  session = "online" /\ Undecided(r) =>
    /\ latest[r] # None /\ latest[r].op # "restart" => Says(latest[r], r)
    /\ Restarted(r) \/ RunsOrRetries(r)
    /\ Wanted(r) = NoPort => running[r] = NoPort /\ (behind \/ file[r] = NoPort)

FileHolds == ~behind => \A r \in Rule : running[r] # NoPort => file[r] = running[r]

\* Outside a session there is nothing to hear and nothing to retry.
NothingKept ==
  session # "online" =>
    /\ inbox = <<>>
    /\ \A r \in Rule : latest[r] = None /\ pending[r] = None

AgentInv ==
  /\ AgentTypeOK
  /\ NothingKept
  /\ FileHolds
  /\ \A r \in Rule : LastDecides(r) /\ ReconcileFirst(r) /\ Told(r)

LEMMA CommandFields ==
  ASSUME NEW cmd \in Command
  PROVE  /\ cmd.op \in {"apply", "remove", "restart", "reconcile"}
         /\ cmd.op # "reconcile" => cmd \in RuleCommand /\ cmd.rule \in Rule
         /\ cmd.op = "reconcile" => cmd.keep \in SUBSET Rule
         /\ cmd.op = "apply" => cmd.config \in Config
  BY DEF Command, RuleCommand, ApplyRule, RemoveRule, RestartRule, ReconcileRules

LEMMA RuleCommands ==
  ASSUME NEW cmd \in RuleCommand
  PROVE  cmd \in Command /\ cmd.op \in {"apply", "remove", "restart"}
  BY DEF Command, RuleCommand, ApplyRule, RemoveRule, RestartRule

\* What the manager does for cmd, whatever the outcome.
LEMMA OutcomeEffect ==
  ASSUME NEW cmd \in Command, NEW o \in Outcomes(cmd),
         running \in [Rule -> Port \cup {NoPort}]
  PROVE  /\ o.run \in [Rule -> Port \cup {NoPort}]
         /\ o.ok \in BOOLEAN /\ o.fault \in {0, 1}
         /\ \A q \in Rule :
              /\ ~Touches(cmd, q) => o.run[q] = running[q]
              /\ Decides(cmd, q) /\ o.ok => o.run[q] = Target(cmd)
              /\ cmd.op = "restart" /\ running[q] = NoPort => o.run[q] = NoPort
              /\ ~o.ok => o.run[q] = NoPort \/ o.run[q] = running[q]
         /\ ~o.ok => \/ cmd.op = "restart"
                     \/ cmd.op = "apply" /\ Target(cmd) \in Port
<1>1. ASSUME NEW q \in Rule, NEW p \in Port, o \in Start(q, p)
      PROVE  /\ o.ok \in BOOLEAN /\ o.fault \in {0, 1}
             /\ o.run = [running EXCEPT ![q] = IF o.ok THEN p ELSE NoPort]
  <2> DEFINE bound == [run |-> [running EXCEPT ![q] = p], ok |-> TRUE, fault |-> 0]
             failed(f) == [run |-> [running EXCEPT ![q] = NoPort], ok |-> FALSE, fault |-> f]
  <2>1. o \in {bound, failed(0), failed(1)}
    BY <1>1, Zenon DEF Start
  <2>2. CASE o = bound
    BY <2>2
  <2>3. CASE o = failed(0)
    BY <2>3
  <2>4. CASE o = failed(1)
    BY <2>4
  <2> QED
    BY <2>1, <2>2, <2>3, <2>4, Zenon
<1>2. ASSUME NEW S, o \in Stop(S)
      PROVE  /\ o.ok /\ o.fault = 0
             /\ o.run = [q \in Rule |-> IF q \in S THEN NoPort ELSE running[q]]
  BY <1>2 DEF Stop
<1>3. CASE cmd.op = "apply"
  <2>1. cmd.rule \in Rule /\ cmd.config \in Config
    BY <1>3, CommandFields
  <2>2. CASE cmd.config.enabled
    <3>1. o \in Start(cmd.rule, cmd.config.port) /\ cmd.config.port \in Port
      BY <1>3, <2>1, <2>2 DEF Outcomes, Config
    <3>2. /\ o.ok \in BOOLEAN /\ o.fault \in {0, 1}
          /\ o.run = [running EXCEPT ![cmd.rule] = IF o.ok THEN cmd.config.port ELSE NoPort]
      BY <1>1, <2>1, <3>1
    <3> QED
      BY <1>3, <2>1, <2>2, <3>1, <3>2 DEF Touches, Decides, Target
  <2>3. CASE ~cmd.config.enabled
    <3>1. o \in Stop({cmd.rule})
      BY <1>3, <2>3 DEF Outcomes
    <3>2. /\ o.ok /\ o.fault = 0
          /\ o.run = [q \in Rule |-> IF q \in {cmd.rule} THEN NoPort ELSE running[q]]
      BY <1>2, <3>1
    <3> QED
      BY <1>3, <2>1, <2>3, <3>2 DEF Touches, Decides, Target
  <2> QED
    BY <2>1, <2>2, <2>3 DEF Config
<1>4. CASE cmd.op = "remove"
  <2>1. o \in Stop({cmd.rule})
    BY <1>4 DEF Outcomes
  <2>2. /\ o.ok /\ o.fault = 0
        /\ o.run = [q \in Rule |-> IF q \in {cmd.rule} THEN NoPort ELSE running[q]]
    BY <1>2, <2>1
  <2> QED
    BY <1>4, <2>2 DEF Touches, Decides, Target
<1>5. CASE cmd.op = "reconcile"
  <2>1. o \in Stop(Rule \ cmd.keep)
    BY <1>5 DEF Outcomes
  <2>2. /\ o.ok /\ o.fault = 0
        /\ o.run = [q \in Rule |-> IF q \in Rule \ cmd.keep THEN NoPort ELSE running[q]]
    BY <1>2, <2>1
  <2> QED
    BY <1>5, <2>2 DEF Touches, Decides, Target
<1>6. CASE cmd.op = "restart"
  <2>1. cmd.rule \in Rule
    BY <1>6, CommandFields
  <2>2. CASE running[cmd.rule] = NoPort
    <3>1. o \in Stop({})
      BY <1>6, <2>2 DEF Outcomes
    <3>2. /\ o.ok /\ o.fault = 0
          /\ o.run = [q \in Rule |-> IF q \in {} THEN NoPort ELSE running[q]]
      BY <1>2, <3>1
    <3> QED
      BY <1>6, <3>2 DEF Touches, Decides
  <2>3. CASE running[cmd.rule] # NoPort
    <3>1. o \in Start(cmd.rule, running[cmd.rule]) /\ running[cmd.rule] \in Port
      BY <1>6, <2>1, <2>3 DEF Outcomes
    <3>2. /\ o.ok \in BOOLEAN /\ o.fault \in {0, 1}
          /\ o.run = [running EXCEPT ![cmd.rule] = IF o.ok THEN running[cmd.rule] ELSE NoPort]
      BY <1>1, <2>1, <3>1
    <3> QED
      BY <1>6, <2>1, <2>3, <3>1, <3>2 DEF Touches, Decides
  <2> QED
    BY <2>2, <2>3
<1> QED
  BY <1>3, <1>4, <1>5, <1>6, CommandFields

\* What handling cmd changes: pending and gaveUp of its rule only, and the state file
\* keeps up with the listeners unless a save failed.
LEMMA HandleEffect ==
  ASSUME NEW cmd \in Command, NEW queue \in [Rule -> Retry \cup {None}],
         NEW n \in 1..MaxAttempts, AgentTypeOK, HandleCommand(cmd, queue, n)
  PROVE  /\ running' \in [Rule -> Port \cup {NoPort}]
         /\ file' \in [Rule -> Port \cup {NoPort}]
         /\ pending' \in [Rule -> Retry \cup {None}]
         /\ gaveUp' \subseteq Rule /\ behind' \in BOOLEAN
         /\ FileHolds => FileHolds'
         /\ \A q \in Rule :
              /\ ~Touches(cmd, q) =>
                   /\ running'[q] = running[q] /\ pending'[q] = queue[q]
                   /\ q \in gaveUp => q \in gaveUp'
              /\ Decides(cmd, q) =>
                   \/ running'[q] = Target(cmd) /\ (behind' \/ file'[q] = Target(cmd))
                   \/ Target(cmd) # NoPort /\ (pending'[q] # None \/ q \in gaveUp')
              /\ running[q] = NoPort /\ (behind \/ file[q] = NoPort)
                 /\ (~Touches(cmd, q) \/ cmd.op = "restart")
                   => running'[q] = NoPort /\ (behind' \/ file'[q] = NoPort)
<1>1. PICK o \in Outcomes(cmd) :
        /\ running' = o.run
        /\ o.ok => /\ (file' = o.run /\ behind' = FALSE) \/ (file' = file /\ behind' = TRUE)
                   /\ pending' = queue
                   /\ gaveUp' = IF cmd.op = "reconcile" THEN gaveUp ELSE gaveUp \ {cmd.rule}
        /\ ~o.ok => PushFailed(queue, cmd, n) /\ file' = file /\ behind' = behind
  BY DEF HandleCommand, Save
<1>2. running \in [Rule -> Port \cup {NoPort}] /\ file \in [Rule -> Port \cup {NoPort}]
      /\ gaveUp \subseteq Rule /\ behind \in BOOLEAN
  BY DEF AgentTypeOK
<1>3. /\ o.run \in [Rule -> Port \cup {NoPort}]
      /\ \A q \in Rule :
           /\ ~Touches(cmd, q) => o.run[q] = running[q]
           /\ Decides(cmd, q) /\ o.ok => o.run[q] = Target(cmd)
           /\ cmd.op = "restart" /\ running[q] = NoPort => o.run[q] = NoPort
           /\ ~o.ok => o.run[q] = NoPort \/ o.run[q] = running[q]
      /\ ~o.ok => \/ cmd.op = "restart"
                  \/ cmd.op = "apply" /\ Target(cmd) \in Port
  BY <1>2, OutcomeEffect
<1>4. CASE o.ok
  <2>1. pending' \in [Rule -> Retry \cup {None}] /\ gaveUp' \subseteq Rule
        /\ file' \in [Rule -> Port \cup {NoPort}] /\ behind' \in BOOLEAN
    BY <1>1, <1>2, <1>3, <1>4
  <2>2. FileHolds'
    BY <1>1, <1>4 DEF FileHolds
  <2>3. ASSUME NEW q \in Rule, ~Touches(cmd, q)
        PROVE  q \in gaveUp => q \in gaveUp'
    BY <1>1, <1>4, <2>3 DEF Touches
  <2> QED
    BY <1>1, <1>3, <1>4, <2>1, <2>2, <2>3
<1>5. CASE ~o.ok
  <2>1. cmd.op # "reconcile" /\ cmd \in RuleCommand /\ cmd.rule \in Rule
    BY <1>3, <1>5, CommandFields
  <2> DEFINE entry == IF n >= MaxAttempts THEN None ELSE [cmd |-> cmd, attempts |-> n]
  <2>2. /\ pending' = [queue EXCEPT ![cmd.rule] = entry]
        /\ gaveUp' = IF n >= MaxAttempts THEN gaveUp \cup {cmd.rule} ELSE gaveUp \ {cmd.rule}
        /\ file' = file /\ behind' = behind /\ running' = o.run
    BY <1>1, <1>5 DEF PushFailed
  <2>3. /\ n >= MaxAttempts => entry = None
        /\ n < MaxAttempts => entry \in Retry /\ entry # None
    BY <2>1, AgentAssumption, NoneIsNothing DEF Retry
  <2>4. pending'[cmd.rule] = entry /\ entry \in Retry \cup {None}
        /\ (entry # None \/ cmd.rule \in gaveUp')
    BY <2>1, <2>2, <2>3, AgentAssumption
  <2>5. pending' \in [Rule -> Retry \cup {None}] /\ gaveUp' \subseteq Rule
    BY <1>2, <2>1, <2>2, <2>4
  <2>6. ASSUME FileHolds PROVE FileHolds'
    BY <1>3, <1>5, <2>2, <2>6 DEF FileHolds
  <2>7. ASSUME NEW q \in Rule, ~Touches(cmd, q)
        PROVE  /\ running'[q] = running[q] /\ pending'[q] = queue[q]
               /\ q \in gaveUp => q \in gaveUp'
    BY <1>3, <2>1, <2>2, <2>7 DEF Touches
  <2>8. ASSUME NEW q \in Rule, Decides(cmd, q)
        PROVE  Target(cmd) # NoPort /\ (pending'[q] # None \/ q \in gaveUp')
    <3>1. cmd.op # "restart" /\ cmd.rule = q
      BY <2>1, <2>8 DEF Decides
    <3>2. Target(cmd) # NoPort
      BY <1>3, <1>5, <3>1, AgentAssumption
    <3> QED
      BY <2>4, <3>1, <3>2
  <2>9. ASSUME NEW q \in Rule, running[q] = NoPort, behind \/ file[q] = NoPort
        PROVE  running'[q] = NoPort /\ (behind' \/ file'[q] = NoPort)
    BY <1>3, <1>5, <2>2, <2>9
  <2> QED
    BY <1>2, <2>2, <1>3, <2>5, <2>6, <2>7, <2>8, <2>9
<1> QED
  BY <1>3, <1>4, <1>5, OutcomeEffect, <1>2

\* A command that asks for what the panel wants leaves the rule running as wanted, or
\* to be retried, or given up; and stopped, on the disk too, when it must not run.
LEMMA SaidIsDone ==
  ASSUME NEW cmd \in Command, NEW queue \in [Rule -> Retry \cup {None}],
         NEW n \in 1..MaxAttempts, AgentTypeOK, HandleCommand(cmd, queue, n),
         NEW r \in Rule, Decides(cmd, r), Says(cmd, r)
  PROVE  /\ running'[r] = Wanted(r) \/ pending'[r] # None \/ r \in gaveUp'
         /\ Wanted(r) = NoPort => running'[r] = NoPort /\ (behind' \/ file'[r] = NoPort)
<1>1. Wanted(r) = Target(cmd)
  <2>1. CASE cmd.op = "apply"
    BY <2>1, CommandFields, AgentAssumption DEF Says, Wanted, Target, Config
  <2>2. CASE cmd.op # "apply"
    BY <2>2 DEF Says, Wanted, Target
  <2> QED
    BY <2>1, <2>2
<1>2. \/ running'[r] = Target(cmd) /\ (behind' \/ file'[r] = Target(cmd))
      \/ Target(cmd) # NoPort /\ (pending'[r] # None \/ r \in gaveUp')
  BY HandleEffect
<1> QED
  BY <1>1, <1>2

\* The commands left in the stream are those behind its head.
LEMMA TailOf ==
  ASSUME NEW s \in Seq(Command), s # <<>>
  PROVE  /\ Head(s) = s[1] /\ s[1] \in Command /\ Tail(s) \in Seq(Command)
         /\ Len(Tail(s)) = Len(s) - 1 /\ Len(s) \in Nat \ {0}
         /\ \A i \in 1..Len(Tail(s)) : i + 1 \in 1..Len(s) /\ Tail(s)[i] = s[i + 1]
         /\ \A i \in 2..Len(s) : i - 1 \in 1..Len(Tail(s)) /\ Tail(s)[i - 1] = s[i]
  OBVIOUS

LEMMA AgentReceive == RetryInv /\ AgentInv /\ Receive => AgentInv'
<1> SUFFICES ASSUME RetryInv, AgentInv, Receive PROVE AgentInv'
  OBVIOUS
<1> DEFINE cmd == Head(inbox)
           queue == Supersede(cmd)
<1>1. /\ session = "online" /\ inbox # <<>> /\ inbox' = Tail(inbox)
      /\ want' = want /\ session' = session
      /\ HandleCommand(cmd, queue, 1)
      /\ latest' = IF cmd.op = "reconcile" THEN latest ELSE [latest EXCEPT ![cmd.rule] = cmd]
  BY DEF Receive
<1>2. AgentTypeOK
  BY DEF AgentInv
<1>3. inbox \in Seq(Command)
  BY <1>2 DEF AgentTypeOK
<1>4. /\ cmd = inbox[1] /\ cmd \in Command /\ inbox' \in Seq(Command)
      /\ Len(inbox') = Len(inbox) - 1 /\ Len(inbox) \in Nat \ {0}
      /\ \A i \in 1..Len(inbox') : i + 1 \in 1..Len(inbox) /\ inbox'[i] = inbox[i + 1]
      /\ \A i \in 2..Len(inbox) : i - 1 \in 1..Len(inbox') /\ inbox'[i - 1] = inbox[i]
  BY <1>1, <1>3, TailOf
<1>5. cmd.op # "reconcile" => cmd \in RuleCommand /\ cmd.rule \in Rule
  BY <1>4, CommandFields
<1>6. queue \in [Rule -> Retry \cup {None}]
  BY <1>2 DEF Supersede, AgentTypeOK
<1>7. 1 \in 1..MaxAttempts
  BY AgentAssumption
<1>8. latest' \in [Rule -> RuleCommand \cup {None}]
  BY <1>1, <1>2, <1>5 DEF AgentTypeOK
<1> HIDE DEF cmd
<1>9. \A q \in Rule : ~Touches(cmd, q) => queue[q] = pending[q] /\ latest'[q] = latest[q]
  BY <1>1, <1>2, <1>5 DEF Supersede, Touches, AgentTypeOK
<1>10. \A q \in Rule : cmd.op # "reconcile" /\ cmd.rule = q => latest'[q] = cmd
  BY <1>1, <1>2 DEF AgentTypeOK
<1> HIDE DEF queue
<1>11. /\ running' \in [Rule -> Port \cup {NoPort}]
       /\ file' \in [Rule -> Port \cup {NoPort}]
       /\ pending' \in [Rule -> Retry \cup {None}]
       /\ gaveUp' \subseteq Rule /\ behind' \in BOOLEAN
       /\ FileHolds => FileHolds'
       /\ \A q \in Rule :
            /\ ~Touches(cmd, q) =>
                 /\ running'[q] = running[q] /\ pending'[q] = queue[q]
                 /\ q \in gaveUp => q \in gaveUp'
            /\ running[q] = NoPort /\ (behind \/ file[q] = NoPort)
               /\ (~Touches(cmd, q) \/ cmd.op = "restart")
                 => running'[q] = NoPort /\ (behind' \/ file'[q] = NoPort)
  BY <1>1, <1>2, <1>4, <1>6, <1>7, HandleEffect
<1>12. AgentTypeOK'
  BY <1>1, <1>2, <1>4, <1>8, <1>11 DEF AgentTypeOK
<1>13. NothingKept'
  BY <1>1 DEF NothingKept
<1>14. FileHolds'
  BY <1>11 DEF AgentInv
<1> SUFFICES ASSUME NEW r \in Rule PROVE LastDecides(r)' /\ ReconcileFirst(r)' /\ Told(r)'
  BY <1>12, <1>13, <1>14 DEF AgentInv
<1>15. LastDecides(r) /\ ReconcileFirst(r) /\ Told(r)
  BY DEF AgentInv
<1>16. LastDecides(r)'
  <2> SUFFICES ASSUME NEW i \in 1..Len(inbox'), Decides(inbox'[i], r),
                      \A j \in 1..Len(inbox') : j > i => ~Decides(inbox'[j], r)
               PROVE  Says(inbox'[i], r)
    BY <1>1 DEF LastDecides, Decides, Says
  <2>1. i + 1 \in 1..Len(inbox) /\ Decides(inbox[i + 1], r)
    BY <1>4
  <2>2. ASSUME NEW j \in 1..Len(inbox), j > i + 1
        PROVE  ~Decides(inbox[j], r)
    <3>1. j \in 2..Len(inbox) /\ j - 1 > i
      BY <1>4, <2>2
    <3> QED
      BY <1>4, <3>1
  <2>3. Says(inbox[i + 1], r)
    BY <1>15, <2>1, <2>2 DEF LastDecides
  <2> QED
    BY <1>4, <2>3
<1>17. ReconcileFirst(r)'
  <2> SUFFICES ASSUME NEW i \in 1..Len(inbox'), inbox'[i].op = "reconcile", r \notin inbox'[i].keep
               PROVE  /\ latest'[r] = None
                      /\ \A j \in 1..(i - 1) : inbox'[j].op # "reconcile" /\ inbox'[j].rule # r
    BY DEF ReconcileFirst
  <2>1. i + 1 \in 1..Len(inbox) /\ inbox[i + 1] = inbox'[i]
    BY <1>4
  <2>2. /\ latest[r] = None
        /\ \A j \in 1..i : inbox[j].op # "reconcile" /\ inbox[j].rule # r
    BY <1>4, <1>15, <2>1 DEF ReconcileFirst
  <2>3. ~Touches(cmd, r)
    BY <1>4, <2>2 DEF Touches
  <2>4. ASSUME NEW j \in 1..(i - 1)
        PROVE  inbox'[j].op # "reconcile" /\ inbox'[j].rule # r
    BY <1>4, <2>2
  <2> QED
    BY <1>9, <2>2, <2>3, <2>4
<1>18. Told(r)'
  <2> SUFFICES ASSUME Undecided(r)'
               PROVE  /\ latest'[r] # None /\ latest'[r].op # "restart" => Says(latest'[r], r)
                      /\ \/ latest'[r] # None /\ latest'[r].op = "restart"
                         \/ running'[r] = Wanted(r) \/ pending'[r] # None \/ r \in gaveUp'
                      /\ Wanted(r) = NoPort =>
                           running'[r] = NoPort /\ (behind' \/ file'[r] = NoPort)
    BY <1>1 DEF Told, Restarted, RunsOrRetries, Says, Wanted
  <2>1. \A i \in 2..Len(inbox) : ~Decides(inbox[i], r)
    BY <1>4 DEF Undecided
  <2>2. CASE Decides(cmd, r)
    <3>1. Says(cmd, r)
      BY <1>4, <1>15, <2>1, <2>2 DEF LastDecides
    <3>2. /\ running'[r] = Wanted(r) \/ pending'[r] # None \/ r \in gaveUp'
          /\ Wanted(r) = NoPort => running'[r] = NoPort /\ (behind' \/ file'[r] = NoPort)
      BY <1>1, <1>2, <1>4, <1>6, <1>7, <2>2, <3>1, SaidIsDone
    <3>3. latest'[r] # None => latest'[r] = cmd
      <4>1. CASE cmd.op = "reconcile"
        BY <1>1, <1>4, <1>15, <2>2, <4>1 DEF ReconcileFirst, Decides
      <4>2. CASE cmd.op # "reconcile"
        BY <1>10, <2>2, <4>2 DEF Decides
      <4> QED
        BY <4>1, <4>2
    <3> QED
      BY <3>1, <3>2, <3>3
  <2>3. CASE ~Decides(cmd, r)
    <3>1. Undecided(r)
      <4>1. ASSUME NEW i \in 1..Len(inbox) PROVE ~Decides(inbox[i], r)
        BY <1>4, <2>1, <2>3
      <4> QED
        BY <4>1 DEF Undecided
    <3>2. /\ latest[r] # None /\ latest[r].op # "restart" => Says(latest[r], r)
          /\ Restarted(r) \/ RunsOrRetries(r)
          /\ Wanted(r) = NoPort => running[r] = NoPort /\ (behind \/ file[r] = NoPort)
      BY <1>1, <1>15, <3>1 DEF Told
    <3>3. CASE Touches(cmd, r)
      <4>1. cmd.op = "restart" /\ cmd.rule = r
        BY <2>3, <3>3 DEF Touches, Decides
      <4>2. latest'[r] = cmd /\ cmd # None
        BY <1>5, <1>10, <4>1, NoneIsNothing
      <4> QED
        BY <1>11, <3>2, <4>1, <4>2
    <3>4. CASE ~Touches(cmd, r)
      BY <1>9, <1>11, <3>2, <3>4 DEF Restarted, RunsOrRetries
    <3> QED
      BY <3>3, <3>4
  <2> QED
    BY <2>2, <2>3
<1> QED
  BY <1>16, <1>17, <1>18

\* Neither the stream, nor what the panel wants, nor the history of commands changes.
LEMMA StreamKept ==
  ASSUME NEW r \in Rule, UNCHANGED <<want, inbox, latest>>
  PROVE  /\ LastDecides(r) => LastDecides(r)'
         /\ ReconcileFirst(r) => ReconcileFirst(r)'
         /\ Undecided(r)' => Undecided(r)
  BY DEF LastDecides, ReconcileFirst, Undecided, Decides, Says

\* A retry repeats the newest command of its rule, which asks for what the panel wants.
LEMMA AgentRetry == ASSUME NEW q \in Rule PROVE RetryInv /\ AgentInv /\ RetryDue(q) => AgentInv'
<1> SUFFICES ASSUME RetryInv, AgentInv, RetryDue(q) PROVE AgentInv'
  OBVIOUS
<1> DEFINE cmd == pending[q].cmd
           n == pending[q].attempts + 1
           queue == [pending EXCEPT ![q] = None]
<1>1. /\ session = "online" /\ pending[q] # None
      /\ UNCHANGED <<want, inbox, session, latest>>
      /\ HandleCommand(cmd, queue, n)
  BY DEF RetryDue
<1>2. AgentTypeOK
  BY DEF AgentInv
<1>3. pending \in [Rule -> Retry \cup {None}] /\ pending[q] \in Retry
  BY <1>1, <1>2 DEF AgentTypeOK
<1>4. cmd \in RuleCommand /\ n \in 1..MaxAttempts /\ queue \in [Rule -> Retry \cup {None}]
  BY <1>3, AgentAssumption DEF Retry
<1>5. cmd = latest[q] /\ cmd.rule = q /\ cmd # None
  BY <1>1, <1>4, NoneIsNothing DEF RetryInv
<1>6. \A r \in Rule : r # q => queue[r] = pending[r]
  BY <1>3
<1> HIDE DEF cmd, n, queue
<1>7. cmd \in Command /\ cmd.op \in {"apply", "remove", "restart"}
  BY <1>4, RuleCommands
<1>8. /\ running' \in [Rule -> Port \cup {NoPort}]
      /\ file' \in [Rule -> Port \cup {NoPort}]
      /\ pending' \in [Rule -> Retry \cup {None}]
      /\ gaveUp' \subseteq Rule /\ behind' \in BOOLEAN
      /\ FileHolds => FileHolds'
      /\ \A r \in Rule :
           /\ ~Touches(cmd, r) =>
                /\ running'[r] = running[r] /\ pending'[r] = queue[r]
                /\ r \in gaveUp => r \in gaveUp'
           /\ running[r] = NoPort /\ (behind \/ file[r] = NoPort)
              /\ (~Touches(cmd, r) \/ cmd.op = "restart")
                => running'[r] = NoPort /\ (behind' \/ file'[r] = NoPort)
  BY <1>1, <1>2, <1>4, <1>7, HandleEffect
<1>9. AgentTypeOK'
  BY <1>1, <1>2, <1>8 DEF AgentTypeOK
<1>10. NothingKept'
  BY <1>1 DEF NothingKept
<1>11. FileHolds'
  BY <1>8 DEF AgentInv
<1> SUFFICES ASSUME NEW r \in Rule PROVE LastDecides(r)' /\ ReconcileFirst(r)' /\ Told(r)'
  BY <1>9, <1>10, <1>11 DEF AgentInv
<1>12. LastDecides(r) /\ ReconcileFirst(r) /\ Told(r)
  BY DEF AgentInv
<1>13. LastDecides(r)' /\ ReconcileFirst(r)'
  BY <1>1, <1>12, StreamKept
<1>14. Told(r)'
  <2> SUFFICES ASSUME Undecided(r)
               PROVE  /\ latest[r] # None /\ latest[r].op # "restart" => Says(latest[r], r)
                      /\ \/ Restarted(r)
                         \/ running'[r] = Wanted(r) \/ pending'[r] # None \/ r \in gaveUp'
                      /\ Wanted(r) = NoPort =>
                           running'[r] = NoPort /\ (behind' \/ file'[r] = NoPort)
    <3>1. Undecided(r)' => Undecided(r)
      BY <1>1, StreamKept
    <3> QED
      BY <1>1, <3>1 DEF Told, Restarted, RunsOrRetries, Says, Wanted
  <2>1. /\ latest[r] # None /\ latest[r].op # "restart" => Says(latest[r], r)
        /\ Restarted(r) \/ RunsOrRetries(r)
        /\ Wanted(r) = NoPort => running[r] = NoPort /\ (behind \/ file[r] = NoPort)
    BY <1>1, <1>12 DEF Told
  <2>2. CASE r # q
    <3>1. ~Touches(cmd, r)
      BY <1>5, <1>7, <2>2 DEF Touches
    <3> QED
      BY <1>6, <1>8, <2>1, <2>2, <3>1 DEF RunsOrRetries
  <2>3. CASE r = q /\ cmd.op = "restart"
    BY <1>5, <1>8, <2>1, <2>3 DEF Restarted
  <2>4. CASE r = q /\ cmd.op # "restart"
    <3>1. Decides(cmd, r) /\ Says(cmd, r)
      BY <1>5, <1>7, <2>1, <2>4 DEF Decides
    <3> QED
      BY <1>1, <1>2, <1>4, <1>7, <2>1, <3>1, SaidIsDone
  <2> QED
    BY <2>2, <2>3, <2>4
<1> QED
  BY <1>13, <1>14

\* A command of the panel goes to the end of the stream, and asks for what it wants.
LEMMA Pushed ==
  ASSUME NEW cmd \in RuleCommand, Push(cmd), AgentTypeOK, NothingKept,
         UNCHANGED <<session, latest>>, NEW r \in Rule,
         LastDecides(r), ReconcileFirst(r), cmd.rule = r => Says(cmd, r)' \/ cmd.op = "restart",
         want'[r] = want[r] \/ (cmd.rule = r /\ cmd.op # "restart")
  PROVE  /\ inbox' \in Seq(Command)
         /\ LastDecides(r)' /\ ReconcileFirst(r)'
         /\ session = "online" /\ Undecided(r)' =>
              Undecided(r) /\ (cmd.rule # r \/ cmd.op = "restart")
<1>1. inbox \in Seq(Command) /\ cmd \in Command /\ cmd.op \in {"apply", "remove", "restart"}
  BY RuleCommands DEF AgentTypeOK
<1>2. CASE session = "online"
  <2>1. /\ inbox' = Append(inbox, cmd) /\ inbox' \in Seq(Command)
        /\ Len(inbox') = Len(inbox) + 1 /\ Len(inbox) \in Nat
        /\ inbox'[Len(inbox) + 1] = cmd
        /\ \A i \in 1..Len(inbox) : inbox'[i] = inbox[i]
    BY <1>1, <1>2 DEF Push
  <2>2. LastDecides(r)'
    <3> SUFFICES ASSUME NEW i \in 1..Len(inbox'), Decides(inbox'[i], r),
                        \A j \in 1..Len(inbox') : j > i => ~Decides(inbox'[j], r)
                 PROVE  IF inbox'[i].op = "apply" THEN want'[r] = inbox'[i].config
                                                  ELSE want'[r] = Gone
      BY DEF LastDecides, Decides, Says
    <3>1. CASE i = Len(inbox) + 1
      BY <1>1, <2>1, <3>1 DEF Decides, Says
    <3>2. CASE i \in 1..Len(inbox)
      <4>1. Len(inbox) + 1 \in 1..Len(inbox') /\ Len(inbox) + 1 > i
        BY <2>1, <3>2
      <4>2. ~Decides(cmd, r)
        BY <2>1, <4>1
      <4>3. want'[r] = want[r]
        BY <1>1, <4>2 DEF Decides
      <4>4. ASSUME NEW j \in 1..Len(inbox), j > i
            PROVE  ~Decides(inbox[j], r)
        BY <2>1, <4>4
      <4>5. Says(inbox[i], r)
        BY <2>1, <3>2, <4>4 DEF LastDecides
      <4> QED
        BY <2>1, <3>2, <4>3, <4>5 DEF Says
    <3> QED
      BY <2>1, <3>1, <3>2
  <2>3. ReconcileFirst(r)'
    <3> SUFFICES ASSUME NEW i \in 1..Len(inbox'),
                        inbox'[i].op = "reconcile", r \notin inbox'[i].keep
                 PROVE  /\ latest[r] = None
                        /\ \A j \in 1..(i - 1) : inbox'[j].op # "reconcile" /\ inbox'[j].rule # r
      BY DEF ReconcileFirst
    <3>1. i \in 1..Len(inbox)
      BY <1>1, <2>1
    <3>2. /\ latest[r] = None
          /\ \A j \in 1..(i - 1) : inbox[j].op # "reconcile" /\ inbox[j].rule # r
      BY <2>1, <3>1 DEF ReconcileFirst
    <3> QED
      BY <2>1, <3>1, <3>2
  <2>4. ASSUME Undecided(r)'
        PROVE  Undecided(r) /\ (cmd.rule # r \/ cmd.op = "restart")
    <3>1. \A i \in 1..Len(inbox') : ~Decides(inbox'[i], r)
      BY <2>4 DEF Undecided, Decides
    <3>2. ~Decides(cmd, r)
      BY <2>1, <3>1
    <3>3. ASSUME NEW i \in 1..Len(inbox) PROVE ~Decides(inbox[i], r)
      BY <2>1, <3>1
    <3> QED
      BY <1>1, <3>2, <3>3 DEF Undecided, Decides
  <2> QED
    BY <2>1, <2>2, <2>3, <2>4
<1>3. CASE session # "online"
  <2>1. inbox' = <<>> /\ inbox = <<>>
    BY <1>3 DEF Push, NothingKept
  <2> QED
    BY <1>1, <1>3, <2>1 DEF LastDecides, ReconcileFirst
<1> QED
  BY <1>2, <1>3

\* A change of the panel: only the row of the command's rule changes, and the command
\* asks for the new row; or nothing changes and the command is a restart.
LEMMA AgentPanel ==
  ASSUME NEW cmd \in RuleCommand, Push(cmd), AgentInv,
         UNCHANGED <<session, agentState>>,
         want' \in [Rule -> Config \cup {Gone}],
         \A r \in Rule : \/ want'[r] = want[r]
                         \/ cmd.rule = r /\ cmd.op # "restart",
         \A r \in Rule : cmd.rule = r => Says(cmd, r)' \/ cmd.op = "restart"
  PROVE  AgentInv'
<1>1. UNCHANGED <<session, running, file, pending, gaveUp, behind, latest>>
  BY DEF agentState
<1>2. AgentTypeOK /\ NothingKept /\ FileHolds
  BY DEF AgentInv
<1>3. \A r \in Rule : LastDecides(r) /\ ReconcileFirst(r) /\ Told(r)
  BY DEF AgentInv
<1>4. ASSUME NEW r \in Rule
      PROVE  /\ inbox' \in Seq(Command)
             /\ LastDecides(r)' /\ ReconcileFirst(r)'
             /\ session = "online" /\ Undecided(r)' =>
                  Undecided(r) /\ (cmd.rule # r \/ cmd.op = "restart")
  BY <1>1, <1>2, <1>3, Pushed
<1>5. inbox' \in Seq(Command)
  <2>1. cmd.rule \in Rule
    BY RuleCommands, CommandFields
  <2> QED
    BY <1>4, <2>1
<1>6. AgentTypeOK'
  BY <1>1, <1>2, <1>5 DEF AgentTypeOK
<1>7. NothingKept'
  BY <1>1, <1>2 DEF NothingKept, Push
<1>8. FileHolds'
  BY <1>1, <1>2 DEF FileHolds
<1>9. ASSUME NEW r \in Rule PROVE Told(r)'
  <2> SUFFICES ASSUME session = "online", Undecided(r)'
               PROVE  /\ latest[r] # None /\ latest[r].op # "restart" => Says(latest[r], r)'
                      /\ (Restarted(r) \/ RunsOrRetries(r))'
                      /\ Wanted(r)' = NoPort => running[r] = NoPort /\ (behind \/ file[r] = NoPort)
    BY <1>1 DEF Told, Says
  <2>1. Undecided(r) /\ want'[r] = want[r]
    BY <1>4
  <2>2. Told(r)
    BY <1>3
  <2> QED
    BY <1>1, <2>1, <2>2 DEF Told, Says, Restarted, RunsOrRetries, Wanted
<1> QED
  BY <1>4, <1>6, <1>7, <1>8, <1>9 DEF AgentInv

LEMMA AgentPanelSteps ==
  ASSUME NEW r \in Rule, AgentInv,
         (\E c \in Config : PanelApply(r, c)) \/ PanelDelete(r) \/ PanelRestart(r)
  PROVE  AgentInv'
<1>1. want \in [Rule -> Config \cup {Gone}]
  BY DEF AgentInv, AgentTypeOK
<1>2. ASSUME NEW c \in Config, PanelApply(r, c) PROVE AgentInv'
  <2> DEFINE cmd == ApplyRule(r, c)
  <2>1. /\ Push(cmd) /\ UNCHANGED <<session, agentState>>
        /\ want' = [want EXCEPT ![r] = c]
    BY <1>2 DEF PanelApply, Change
  <2>2. cmd \in RuleCommand /\ cmd.rule = r /\ cmd.op = "apply" /\ cmd.config = c
    BY DEF RuleCommand, ApplyRule
  <2> HIDE DEF cmd
  <2>3. want' \in [Rule -> Config \cup {Gone}] /\ want'[r] = c
        /\ \A q \in Rule : q # r => want'[q] = want[q]
    BY <1>1, <2>1
  <2>4. Says(cmd, r)'
    BY <2>2, <2>3 DEF Says
  <2> QED
    BY <2>1, <2>2, <2>3, <2>4, AgentPanel
<1>3. ASSUME PanelDelete(r) PROVE AgentInv'
  <2> DEFINE cmd == RemoveRule(r)
  <2>1. /\ Push(cmd) /\ UNCHANGED <<session, agentState>>
        /\ want' = [want EXCEPT ![r] = Gone]
    BY <1>3 DEF PanelDelete, Change
  <2>2. cmd \in RuleCommand /\ cmd.rule = r /\ cmd.op = "remove"
    BY DEF RuleCommand, RemoveRule
  <2> HIDE DEF cmd
  <2>3. want' \in [Rule -> Config \cup {Gone}] /\ want'[r] = Gone
        /\ \A q \in Rule : q # r => want'[q] = want[q]
    BY <1>1, <2>1
  <2>4. Says(cmd, r)'
    BY <2>2, <2>3 DEF Says
  <2> QED
    BY <2>1, <2>2, <2>3, <2>4, AgentPanel
<1>4. ASSUME PanelRestart(r) PROVE AgentInv'
  <2> DEFINE cmd == RestartRule(r)
  <2>1. Push(cmd) /\ UNCHANGED <<session, agentState, want>>
    BY <1>4 DEF PanelRestart, Change
  <2>2. cmd \in RuleCommand /\ cmd.op = "restart"
    BY DEF RuleCommand, RestartRule
  <2> HIDE DEF cmd
  <2> QED
    BY <1>1, <2>1, <2>2, AgentPanel
<1> QED
  BY <1>2, <1>3, <1>4

\* The replay lists every live rule once, as the panel wants it, and stops the others.
LEMMA AgentConnect == AgentInv /\ Connect => AgentInv'
<1> SUFFICES ASSUME AgentInv, Connect PROVE AgentInv'
  OBVIOUS
<1>1. /\ session = "offline" /\ session' = "online"
      /\ UNCHANGED <<want, running, file, pending, gaveUp, behind, latest>>
  BY DEF Connect, agentState
<1>2. PICK ids \in ById(Live) : inbox' = Replay(ids)
  BY DEF Connect
<1>3. AgentTypeOK /\ NothingKept /\ FileHolds
  BY DEF AgentInv
<1> DEFINE n == Cardinality(Live)
           applies == [i \in 1..n |-> ApplyRule(ids[i], want[ids[i]])]
           last == ReconcileRules(Live)
<1>4. n \in Nat
  <2>1. IsFiniteSet(Live)
    BY AgentAssumption, FS_Subset DEF Live
  <2> QED
    BY <2>1, FS_CardinalityType
<1>5. /\ \A i \in 1..n : ids[i] \in Live
      /\ \A r \in Live : \E i \in 1..n : ids[i] = r
      /\ \A i, j \in 1..n : i < j => ids[i] < ids[j]
  BY DEF ById
<1>6. Live \subseteq Rule /\ \A r \in Live : want[r] \in Config
  BY <1>3 DEF Live, AgentTypeOK
<1>7. \A i \in 1..n : ApplyRule(ids[i], want[ids[i]]) \in Command
  BY <1>5, <1>6 DEF Command, RuleCommand
<1>8. last \in Command
  BY <1>6 DEF Command
<1>9. applies \in Seq(Command) /\ Len(applies) = n
  BY <1>4, <1>7
<1>10. inbox' = Append(applies, last)
  BY <1>2 DEF Replay
<1>11. /\ inbox' \in Seq(Command) /\ Len(inbox') = n + 1
       /\ \A i \in 1..n : inbox'[i] = applies[i]
       /\ inbox'[n + 1] = last
  <2> HIDE DEF applies, last, n
  <2> QED
    BY <1>4, <1>8, <1>9, <1>10
<1>12. \A i \in 1..n : /\ inbox'[i].op = "apply" /\ inbox'[i].rule = ids[i]
                       /\ inbox'[i].config = want[ids[i]]
  <2> SUFFICES ASSUME NEW i \in 1..n
               PROVE  /\ inbox'[i].op = "apply" /\ inbox'[i].rule = ids[i]
                      /\ inbox'[i].config = want[ids[i]]
    OBVIOUS
  <2>1. inbox'[i] = ApplyRule(ids[i], want[ids[i]])
    BY <1>11
  <2> QED
    BY <2>1 DEF ApplyRule
<1>13. inbox'[n + 1].op = "reconcile" /\ inbox'[n + 1].keep = Live
  BY <1>11 DEF ReconcileRules
<1> HIDE DEF applies, last, n
<1>14. AgentTypeOK'
  BY <1>1, <1>3, <1>11 DEF AgentTypeOK
<1>15. NothingKept' /\ FileHolds'
  BY <1>1, <1>3 DEF NothingKept, FileHolds
<1>16. ASSUME NEW r \in Rule PROVE LastDecides(r)' /\ ReconcileFirst(r)' /\ Told(r)'
  <2>1. \A i \in 1..Len(inbox') : i \in 1..n \/ i = n + 1
    BY <1>4, <1>11
  <2>2. ASSUME NEW i \in 1..n, Decides(inbox'[i], r)
        PROVE  want[r] = inbox'[i].config /\ ids[i] = r /\ r \in Live
    BY <1>5, <1>12, <2>2 DEF Decides
  <2>3. Decides(inbox'[n + 1], r) <=> r \notin Live
    BY <1>13 DEF Decides
  <2>4. LastDecides(r)'
    <3> SUFFICES ASSUME NEW i \in 1..Len(inbox'), Decides(inbox'[i], r)
                 PROVE  Says(inbox'[i], r)
      BY <1>1 DEF LastDecides, Decides, Says
    <3> QED
      BY <1>12, <1>13, <2>1, <2>2, <2>3 DEF Says, Live
  <2>5. ReconcileFirst(r)'
    <3> SUFFICES ASSUME NEW i \in 1..Len(inbox'),
                        inbox'[i].op = "reconcile", r \notin inbox'[i].keep
                 PROVE  /\ latest[r] = None
                        /\ \A j \in 1..(i - 1) : inbox'[j].op # "reconcile" /\ inbox'[j].rule # r
      BY <1>1 DEF ReconcileFirst
    <3>1. i = n + 1 /\ r \notin Live
      BY <1>12, <1>13, <2>1
    <3>2. \A j \in 1..(i - 1) : j \in 1..n /\ ids[j] # r
      BY <1>4, <1>5, <3>1
    <3> QED
      BY <1>1, <1>3, <1>12, <3>2 DEF NothingKept
  <2>6. ~Undecided(r)'
    <3>1. CASE r \in Live
      <4>1. PICK i \in 1..n : ids[i] = r
        BY <1>5, <3>1
      <4>2. i \in 1..Len(inbox') /\ Decides(inbox'[i], r)
        BY <1>4, <1>11, <1>12, <4>1 DEF Decides
      <4> QED
        BY <4>2 DEF Undecided, Decides
    <3>2. CASE r \notin Live
      <4>1. n + 1 \in 1..Len(inbox')
        BY <1>4, <1>11
      <4> QED
        BY <2>3, <3>2, <4>1 DEF Undecided, Decides
    <3> QED
      BY <3>1, <3>2
  <2> QED
    BY <2>4, <2>5, <2>6 DEF Told
<1> QED
  BY <1>14, <1>15, <1>16 DEF AgentInv

\* Outside a session only the process, its listeners and the file can change.
LEMMA AgentOffline ==
  ASSUME AgentTypeOK', FileHolds', session' # "online", inbox' = <<>>,
         \A r \in Rule : latest'[r] = None /\ pending'[r] = None
  PROVE  AgentInv'
<1>1. NothingKept'
  BY DEF NothingKept
<1>2. ASSUME NEW r \in Rule PROVE LastDecides(r)' /\ ReconcileFirst(r)' /\ Told(r)'
  BY DEF LastDecides, ReconcileFirst, Told
<1> QED
  BY <1>1, <1>2 DEF AgentInv

LEMMA AgentInitInv == AgentInit => AgentInv
<1> SUFFICES ASSUME AgentInit PROVE AgentInv
  OBVIOUS
<1>1. AgentTypeOK
  <2>1. inbox \in Seq(Command)
    BY DEF AgentInit
  <2> QED
    BY <2>1 DEF AgentInit, AgentTypeOK
<1>2. NothingKept /\ FileHolds
  BY DEF AgentInit, NothingKept, FileHolds
<1>3. ASSUME NEW r \in Rule PROVE LastDecides(r) /\ ReconcileFirst(r) /\ Told(r)
  BY DEF AgentInit, LastDecides, ReconcileFirst, Told
<1> QED
  BY <1>1, <1>2, <1>3 DEF AgentInv

LEMMA AgentNextInv == RetryInv /\ AgentInv /\ [AgentNext]_agentVars => AgentInv'
<1> SUFFICES ASSUME RetryInv, AgentInv, [AgentNext]_agentVars PROVE AgentInv'
  OBVIOUS
<1>1. AgentTypeOK /\ FileHolds
  BY DEF AgentInv
<1>2. ASSUME NEW r \in Rule,
             (\E c \in Config : PanelApply(r, c)) \/ PanelDelete(r) \/ PanelRestart(r)
      PROVE  AgentInv'
  BY <1>2, AgentPanelSteps
<1>3. ASSUME NEW r \in Rule, RetryDue(r) PROVE AgentInv'
  BY <1>3, AgentRetry
<1>4. CASE Receive
  BY <1>4, AgentReceive
<1>5. CASE Connect
  BY <1>5, AgentConnect
<1>6. CASE Startup
  <2>1. /\ session = "off" /\ session' = "offline"
        /\ UNCHANGED <<want, inbox, file, pending, gaveUp, behind, latest>>
        /\ \A r \in Rule : running'[r] = NoPort \/ running'[r] = file[r]
        /\ running' \in [Rule -> Port \cup {NoPort}]
    BY <1>1, <1>6 DEF Startup, AgentTypeOK
  <2>2. AgentTypeOK' /\ FileHolds'
    BY <1>1, <2>1 DEF AgentTypeOK, FileHolds
  <2>3. NothingKept
    BY DEF AgentInv
  <2> QED
    BY <2>1, <2>2, <2>3, AgentOffline DEF NothingKept
<1>7. CASE Disconnect \/ Crash
  <2>1. /\ session' \in {"off", "offline"} /\ inbox' = <<>> /\ gaveUp' = {}
        /\ pending' = [r \in Rule |-> None] /\ latest' = [r \in Rule |-> None]
        /\ UNCHANGED <<want, file, behind>>
        /\ running' = running \/ running' = [r \in Rule |-> NoPort]
    BY <1>7 DEF Disconnect, Crash, EndSession
  <2>2. AgentTypeOK' /\ FileHolds'
    BY <1>1, <2>1 DEF AgentTypeOK, FileHolds
  <2> QED
    BY <2>1, <2>2, AgentOffline
<1>8. CASE UNCHANGED agentVars
  <2>1. UNCHANGED <<want, inbox, session, running, file, pending, gaveUp, behind, latest>>
    BY <1>8 DEF agentVars
  <2>2. AgentTypeOK' /\ FileHolds' /\ NothingKept'
    BY <1>1, <2>1 DEF AgentInv, AgentTypeOK, FileHolds, NothingKept
  <2>3. ASSUME NEW r \in Rule PROVE LastDecides(r)' /\ ReconcileFirst(r)' /\ Told(r)'
    <3>1. LastDecides(r) /\ ReconcileFirst(r) /\ Told(r)
      BY DEF AgentInv
    <3>2. LastDecides(r)' /\ ReconcileFirst(r)'
      BY <2>1, <3>1, StreamKept
    <3> QED
      BY <2>1, <3>1, <3>2
        DEF Told, Undecided, Decides, Says, Restarted, RunsOrRetries, Wanted
  <2> QED
    BY <2>2, <2>3 DEF AgentInv
<1> QED
  BY <1>2, <1>3, <1>4, <1>5, <1>6, <1>7, <1>8 DEF AgentNext, AgentStep

LEMMA SettledUndecided == ASSUME AgentTypeOK, NEW r \in Rule, Settled(r) PROVE Undecided(r)
  BY DEF Settled, Undecided, Decides, AgentTypeOK

\* For any rules, ports and bounds: listeners, file, queue, stream and histories have
\* their types.
THEOREM AgentTypes == AgentSpec => []AgentTypeOK
<1>1. AgentInv => AgentTypeOK
  BY DEF AgentInv
<1> QED
  BY <1>1, RetryInit, RetryNext, AgentInitInv, AgentNextInv, PTL DEF AgentSpec

\* For any rules, ports and bounds: a rule no command is on its way about runs as the
\* panel wants it, or its newest command is retried or has failed MAX_ATTEMPTS times,
\* whatever failed before; unless that command was a restart.
THEOREM SettledRunsOrRetries == AgentSpec => []SettledOrRetrying
<1>1. AgentInv => SettledOrRetrying
  <2> SUFFICES ASSUME AgentInv, NEW r \in Rule, Settled(r), ~Restarted(r)
               PROVE  RunsOrRetries(r)
    BY DEF SettledOrRetrying
  <2>1. session = "online" /\ Undecided(r) /\ Told(r)
    BY SettledUndecided DEF AgentInv, Settled
  <2> QED
    BY <2>1 DEF Told
<1> QED
  BY <1>1, RetryInit, RetryNext, AgentInitInv, AgentNextInv, PTL DEF AgentSpec

\* For any rules, ports and bounds: the state file holds every settled rule that runs and
\* none the panel deleted or disabled, unless the last save failed.
THEOREM FileAgrees == AgentSpec => []DiskAgrees
<1>1. AgentInv => DiskAgrees
  <2> SUFFICES ASSUME AgentInv, NEW r \in Rule, Settled(r), ~behind
               PROVE  /\ running[r] # NoPort => file[r] = running[r]
                      /\ Wanted(r) = NoPort => file[r] = NoPort
    BY DEF DiskAgrees
  <2>1. session = "online" /\ Undecided(r) /\ Told(r) /\ FileHolds
    BY SettledUndecided DEF AgentInv, Settled
  <2> QED
    BY <2>1 DEF Told, FileHolds
<1> QED
  BY <1>1, RetryInit, RetryNext, AgentInitInv, AgentNextInv, PTL DEF AgentSpec
=============================================================================
