---------------------------- MODULE RuleSyncProofs ----------------------------
(***************************************************************************)
(* Theorems about RuleSync, for requests that do not overlap on one rule   *)
(* (Serial): a removal reported as sent is final, and, when the jobs take  *)
(* the node locks (no sweeps), a connected node that missed no push agrees *)
(* with the database.                                                      *)
(***************************************************************************)
EXTENDS RuleSync, FiniteSetTheorems, TLAPS

Tasks == Handler \cup Gen

\* Sections over one node are never shared.
SectionsApart == \A t, u \in Tasks : t # u => section[t] \cap section[u] = {}

\* The steps a task makes inside its section.
Inside(h) ==
  \/ job[h].step = "push" /\ job[h].op # "sweep"
  \/ job[h].step \in {"write", "push"} /\ job[h].op = "delete"

Replaying(g) == replay[g].step \in {"read", "send"}

SectionsHeld ==
  /\ \A h \in Handler : Inside(h) => section[h] = NodesOf[job[h].rule]
  /\ \A g \in Gen : Replaying(g) => replay[g].node \in Node /\ section[g] = {replay[g].node}

Active(h) == job[h].step # "idle"

OneJobPerRule ==
  \A h, k \in Handler : Active(h) /\ Active(k) /\ job[h].rule = job[k].rule => h = k

\* What a job knows of its row, at each of its steps.
JobFits(h) ==
  Active(h) =>
    /\ job[h].rule \in issued /\ job[h].op \in Ops
    /\ job[h].left \subseteq NodesOf[job[h].rule]
    /\ job[h].step \in {"write", "reread", "lock"} => job[h].left = NodesOf[job[h].rule]
    /\ job[h].step = "reread" => job[h].op # "delete"
    /\ job[h].op # "delete" /\ job[h].step \in {"reread", "lock", "push"} => row[job[h].rule] # NoRow
    /\ job[h].op # "delete" /\ job[h].step \in {"lock", "push"} => job[h].seen = row[job[h].rule]
    /\ job[h].op = "delete" /\ job[h].step = "push" => row[job[h].rule] = NoRow
    /\ job[h].step # "done" => job[h].version # NoRow

JobsFit == \A h \in Handler : JobFits(h)

RowsIssued == \A r \in Rule : row[r] # NoRow => r \in issued

SubsFit ==
  /\ \A g \in Gen :
       /\ replay[g].step # "send" => replay[g].left = <<>>
       /\ replay[g].step # "none" => replay[g].node \in Node
  /\ \A n \in Node : sub[n] # NoGen => sub[n] <= opened /\ replay[sub[n]].node = n
  /\ \A n \in synced : sub[n] # NoGen /\ replay[sub[n]].step = "done"

Applies(cmd, r) == cmd.op = "apply" /\ cmd.rule = r
NoApply(cmds, r) == \A i \in 1..Len(cmds) : ~Applies(cmds[i], r)

\* A rule stays on its own nodes.
RulesStayHome ==
  \A n \in Node, r \in Rule : n \notin NodesOf[r] =>
     /\ applied[n][r] = NoRow /\ NoApply(queue[n], r)
     /\ \A g \in Gen : replay[g].node = n => NoApply(replay[g].left, r)

\* A removal that was told stays: the row is gone, nothing in the channel or
\* still to be replayed brings the rule back, and only deletes are at work.
ToldIsGone ==
  \A r \in Rule : \A n \in told[r] :
     /\ row[r] = NoRow /\ r \in issued
     /\ DrainsTo(queue[n], applied[n][r], r, NoRow)
     /\ \A h \in Handler : Active(h) /\ job[h].rule = r => job[h].op = "delete"
     /\ sub[n] # NoGen => NoApply(replay[sub[n]].left, r)

\* A job has the row of r still to push to n.
Owes(h, n, r) ==
  /\ job[h].rule = r /\ n \in job[h].left
  /\ \/ job[h].op # "delete" /\ job[h].step \in {"reread", "lock", "push"}
     \/ job[h].op = "delete" /\ job[h].step = "push"

Owed(n, r) == \E h \in Handler : Owes(h, n, r)

\* What is in the channel, and then in the replay, makes n run the row of r.
Agrees(n, r) == DrainsTo(queue[n], applied[n][r], r, row[r])
WillAgree(n, r) ==
  LET left == replay[sub[n]].left IN
  MakeIt(left, r, row[r]) \/ (Untouched(left, r) /\ Agrees(n, r))

NodeAgrees(n, r) ==
  sub[n] # NoGen /\ n \notin missed /\ n \in NodesOf[r] /\ ~Owed(n, r) =>
     /\ replay[sub[n]].step = "send" => WillAgree(n, r)
     /\ n \in synced => Agrees(n, r)

NodesAgree == "sweep" \notin Ops => \A n \in Node, r \in Rule : NodeAgrees(n, r)

SyncInv ==
  /\ SyncTypeOK /\ SectionsApart /\ SectionsHeld /\ OneJobPerRule /\ JobsFit /\ RowsIssued
  /\ SubsFit /\ RulesStayHome /\ ToldIsGone /\ NodesAgree
-----------------------------------------------------------------------------
(* What commands make of a rule. *)

LEMMA EffectOf ==
    ASSUME NEW c \in Command, NEW r, NEW w
    PROVE  /\ Touches(c, r) => Effect(c, r, w) = Effect(c, r, NoRow)
           /\ ~Touches(c, r) => Effect(c, r, w) = w
           /\ Touches(c, r) /\ ~Applies(c, r) => Effect(c, r, w) = NoRow
           /\ Applies(c, r) => Touches(c, r) /\ Effect(c, r, w) = c.version
BY DEF Command, Touches, Effect, Applies, NoRow

LEMMA CommandTypes ==
    /\ \A r \in Rule, v \in Version : ApplyRule(r, v) \in Command
    /\ \A r \in Rule : RemoveRule(r) \in Command
    /\ \A keep \in SUBSET Rule : ReconcileRules(keep) \in Command
BY DEF ApplyRule, RemoveRule, ReconcileRules, Command

LEMMA ApplyTouches ==
    ASSUME NEW r, NEW v, NEW x
    PROVE  /\ Applies(ApplyRule(r, v), x) <=> x = r
           /\ Touches(ApplyRule(r, v), x) <=> x = r
           /\ Effect(ApplyRule(r, v), r, NoRow) = v
BY DEF ApplyRule, Applies, Touches, Effect

LEMMA HeadHandled ==
    ASSUME NEW s \in Seq(Command), s # <<>>, NEW was, NEW r, NEW v, DrainsTo(s, was, r, v)
    PROVE  DrainsTo(Tail(s), Effect(Head(s), r, was), r, v)
<1>1. /\ Len(s) \in Nat /\ Len(s) > 0 /\ Len(Tail(s)) = Len(s) - 1 /\ Head(s) = s[1]
      /\ \A j \in 1..Len(Tail(s)) : Tail(s)[j] = s[j + 1]
      /\ s[1] \in Command
  OBVIOUS
<1>2. CASE Untouched(s, r) /\ was = v
  <2>1. Untouched(Tail(s), r)
    BY <1>1, <1>2 DEF Untouched
  <2>2. Effect(Head(s), r, was) = v
    BY <1>1, <1>2, EffectOf DEF Untouched
  <2> QED
    BY <2>1, <2>2 DEF DrainsTo
<1>3. CASE MakeIt(s, r, v)
  <2>1. PICK k \in 1..Len(s) :
            /\ Touches(s[k], r) /\ Effect(s[k], r, NoRow) = v
            /\ \A j \in (k + 1)..Len(s) : ~Touches(s[j], r)
    BY <1>3 DEF MakeIt
  <2>2. CASE k = 1
    <3>1. Untouched(Tail(s), r)
      BY <1>1, <2>1, <2>2 DEF Untouched
    <3>2. Effect(Head(s), r, was) = v
      BY <1>1, <2>1, <2>2, EffectOf
    <3> QED
      BY <3>1, <3>2 DEF DrainsTo
  <2>3. CASE k # 1
    <3>1. /\ k - 1 \in 1..Len(Tail(s))
          /\ Tail(s)[k - 1] = s[k]
          /\ \A j \in ((k - 1) + 1)..Len(Tail(s)) : ~Touches(Tail(s)[j], r)
      BY <1>1, <2>1, <2>3
    <3> QED
      BY <2>1, <3>1 DEF DrainsTo, MakeIt
  <2> QED
    BY <2>2, <2>3
<1> QED
  BY <1>2, <1>3 DEF DrainsTo

LEMMA OtherAppended ==
    ASSUME NEW s \in Seq(Command), NEW c \in Command, NEW was, NEW r, NEW v, ~Touches(c, r)
    PROVE  /\ DrainsTo(s, was, r, v) => DrainsTo(Append(s, c), was, r, v)
           /\ MakeIt(s, r, v) => MakeIt(Append(s, c), r, v)
           /\ Untouched(s, r) => Untouched(Append(s, c), r)
<1>1. /\ Len(s) \in Nat /\ Len(Append(s, c)) = Len(s) + 1
      /\ \A j \in 1..Len(s) : Append(s, c)[j] = s[j]
      /\ Append(s, c)[Len(s) + 1] = c
  OBVIOUS
<1>2. Untouched(s, r) => Untouched(Append(s, c), r)
  BY <1>1 DEF Untouched
<1>3. ASSUME MakeIt(s, r, v) PROVE MakeIt(Append(s, c), r, v)
  <2>1. PICK k \in 1..Len(s) :
            /\ Touches(s[k], r) /\ Effect(s[k], r, NoRow) = v
            /\ \A j \in (k + 1)..Len(s) : ~Touches(s[j], r)
    BY <1>3 DEF MakeIt
  <2>2. k \in 1..Len(Append(s, c)) /\ Append(s, c)[k] = s[k]
    BY <1>1
  <2>3. ASSUME NEW j \in (k + 1)..Len(Append(s, c)) PROVE ~Touches(Append(s, c)[j], r)
    BY <1>1, <2>1
  <2> QED
    BY <2>1, <2>2, <2>3 DEF MakeIt
<1> QED
  BY <1>2, <1>3 DEF DrainsTo

LEMMA LastAppended ==
    ASSUME NEW s \in Seq(Command), NEW c \in Command, NEW r, Touches(c, r)
    PROVE  MakeIt(Append(s, c), r, Effect(c, r, NoRow))
<1>1. Len(Append(s, c)) \in Nat /\ Len(Append(s, c)) > 0 /\ Append(s, c)[Len(Append(s, c))] = c
  OBVIOUS
<1> QED
  BY <1>1 DEF MakeIt

\* The first command of a replay moves to the channel.
LEMMA HeadMoves ==
    ASSUME NEW q \in Seq(Command), NEW s \in Seq(Command), s # <<>>, NEW was, NEW r, NEW v,
           MakeIt(s, r, v) \/ (Untouched(s, r) /\ DrainsTo(q, was, r, v))
    PROVE  \/ MakeIt(Tail(s), r, v)
           \/ Untouched(Tail(s), r) /\ DrainsTo(Append(q, Head(s)), was, r, v)
<1>1. /\ Len(s) \in Nat /\ Len(s) > 0 /\ Len(Tail(s)) = Len(s) - 1 /\ Head(s) = s[1]
      /\ \A j \in 1..Len(Tail(s)) : Tail(s)[j] = s[j + 1]
      /\ s[1] \in Command
  OBVIOUS
<1>2. CASE Untouched(s, r) /\ DrainsTo(q, was, r, v)
  <2>1. Untouched(Tail(s), r) /\ ~Touches(Head(s), r)
    BY <1>1, <1>2 DEF Untouched
  <2> QED
    BY <1>1, <1>2, <2>1, OtherAppended
<1>3. CASE MakeIt(s, r, v)
  <2>1. PICK k \in 1..Len(s) :
            /\ Touches(s[k], r) /\ Effect(s[k], r, NoRow) = v
            /\ \A j \in (k + 1)..Len(s) : ~Touches(s[j], r)
    BY <1>3 DEF MakeIt
  <2>2. CASE k = 1
    <3>1. Untouched(Tail(s), r)
      BY <1>1, <2>1, <2>2 DEF Untouched
    <3>2. MakeIt(Append(q, Head(s)), r, v)
      BY <1>1, <2>1, <2>2, LastAppended
    <3> QED
      BY <3>1, <3>2 DEF DrainsTo
  <2>3. CASE k # 1
    <3>1. /\ k - 1 \in 1..Len(Tail(s))
          /\ Tail(s)[k - 1] = s[k]
          /\ \A j \in ((k - 1) + 1)..Len(Tail(s)) : ~Touches(Tail(s)[j], r)
      BY <1>1, <2>1, <2>3
    <3> QED
      BY <2>1, <3>1 DEF MakeIt
  <2> QED
    BY <2>2, <2>3
<1> QED
  BY <1>2, <1>3

\* A command that does not apply r leaves a removed rule removed.
LEMMA RemovedStays ==
    ASSUME NEW s \in Seq(Command), NEW c \in Command, NEW was, NEW r, ~Applies(c, r),
           DrainsTo(s, was, r, NoRow)
    PROVE  DrainsTo(Append(s, c), was, r, NoRow)
<1>1. CASE Touches(c, r)
  BY <1>1, EffectOf, LastAppended DEF DrainsTo
<1>2. CASE ~Touches(c, r)
  BY <1>2, OtherAppended
<1> QED
  BY <1>1, <1>2

LEMMA ApplyFreeAppended ==
    ASSUME NEW s \in Seq(Command), NEW c \in Command, NEW r, ~Applies(c, r), NoApply(s, r)
    PROVE  NoApply(Append(s, c), r)
<1>1. /\ Len(Append(s, c)) = Len(s) + 1 /\ Len(s) \in Nat /\ Append(s, c)[Len(s) + 1] = c
      /\ \A j \in 1..Len(s) : Append(s, c)[j] = s[j]
  OBVIOUS
<1> QED
  BY <1>1 DEF NoApply

LEMMA SnapshotIs ==
    ASSUME SyncTypeOK, NEW n, NEW ids \in Listings(RulesOf(n))
    PROVE  /\ Snapshot(n, ids) \in Seq(Command)
           /\ \A r \in Rule : row[r] = NoRow \/ n \notin NodesOf[r] => NoApply(Snapshot(n, ids), r)
           /\ \A r \in Rule : n \in NodesOf[r] => MakeIt(Snapshot(n, ids), r, row[r])
<1> DEFINE S == RulesOf(n)
           N == Cardinality(S)
           last == ReconcileRules(S)
           all == ApplyAll(ids)
           snap == Snapshot(n, ids)
<1>1. S \subseteq Rule /\ IsFiniteSet(S) /\ N \in Nat
  <2>1. S \subseteq Rule
    BY DEF RulesOf
  <2>2. IsFiniteSet(S)
    BY <2>1, SyncAssumption, FS_Subset
  <2> QED
    BY <2>1, <2>2, FS_CardinalityType
<1>2. /\ ids \in [1..N -> S]
      /\ \A r \in S : \E i \in 1..N : ids[i] = r
      /\ \A i, j \in 1..N : ids[i] = ids[j] => i = j
  BY DEF Listings, Bijection, Injection, Surjection, IsInjective
<1> HIDE DEF S, N
<1>3. \A i \in 1..N : ids[i] \in Rule /\ row[ids[i]] \in Version
  BY <1>1, <1>2 DEF SyncTypeOK
<1>4. /\ all \in Seq(Command) /\ Len(all) = N
      /\ \A i \in 1..N : all[i] = ApplyRule(ids[i], row[ids[i]])
  <2>1. all = [i \in 1..N |-> ApplyRule(ids[i], row[ids[i]])]
    BY <1>2 DEF ApplyAll
  <2>2. \A i \in 1..N : ApplyRule(ids[i], row[ids[i]]) \in Command
    BY <1>3, CommandTypes
  <2> HIDE DEF all
  <2> QED
    BY <1>1, <2>1, <2>2
<1>5. last \in Command
  BY <1>1, CommandTypes
<1>6. snap = Append(all, last)
  BY DEF Snapshot, S
<1> HIDE DEF all, last, snap
<1>7. /\ snap \in Seq(Command) /\ Len(snap) = N + 1 /\ snap[N + 1] = last
      /\ \A i \in 1..N : snap[i] = ApplyRule(ids[i], row[ids[i]])
  BY <1>1, <1>4, <1>5, <1>6
<1>8. ASSUME NEW r \in Rule, r \notin S PROVE NoApply(snap, r)
  <2>1. ASSUME NEW i \in 1..N PROVE ~Applies(snap[i], r)
    BY <1>2, <1>7, <1>8, ApplyTouches
  <2>2. ~Applies(snap[N + 1], r)
    BY <1>7 DEF Applies, last, ReconcileRules
  <2> QED
    BY <1>1, <1>7, <2>1, <2>2 DEF NoApply
<1>9. ASSUME NEW r \in Rule, r \notin S PROVE MakeIt(snap, r, NoRow)
  <2>1. Touches(last, r) /\ Effect(last, r, NoRow) = NoRow
    BY <1>9 DEF last, ReconcileRules, Touches, Effect
  <2> QED
    BY <1>4, <1>5, <1>6, <2>1, LastAppended
<1>10. ASSUME NEW r \in S PROVE MakeIt(snap, r, row[r])
  <2>1. PICK k \in 1..N : ids[k] = r
    BY <1>2
  <2>2. Touches(snap[k], r) /\ Effect(snap[k], r, NoRow) = row[r]
    BY <1>7, <2>1, ApplyTouches
  <2>3. ASSUME NEW j \in (k + 1)..Len(snap) PROVE ~Touches(snap[j], r)
    <3>1. CASE j \in 1..N
      <4>1. ids[j] # r
        BY <1>1, <1>2, <2>1, <2>3, <3>1
      <4> QED
        BY <1>7, <3>1, <4>1, ApplyTouches
    <3>2. CASE j = N + 1
      BY <1>7, <1>10, <3>2 DEF Touches, last, ReconcileRules
    <3> QED
      BY <1>1, <1>7, <2>1, <2>3, <3>1, <3>2
  <2> QED
    BY <1>1, <1>7, <2>1, <2>2, <2>3 DEF MakeIt
<1>11. \A r \in Rule : r \in S <=> n \in NodesOf[r] /\ row[r] # NoRow
  BY DEF S, RulesOf
<1> QED
  BY <1>7, <1>8, <1>9, <1>10, <1>11 DEF snap

-----------------------------------------------------------------------------
LEMMA InitSync == SyncInit => SyncInv
<1> SUFFICES ASSUME SyncInit PROVE SyncInv
  OBVIOUS
<1>1. NoJob \in Job /\ NoReplay \in Replay /\ 0 \in Version /\ 0 \in 0..MaxSubscriptions
  BY SyncAssumption DEF NoJob, NoReplay, Job, Replay, Version, NoRow, Steps
<1>2. SyncTypeOK
  <2>1. \A n \in Node : Len(queue[n]) <= Capacity
    BY SyncAssumption DEF SyncInit
  <2> QED
    BY <1>1, <2>1 DEF SyncInit, SyncTypeOK, NoRow, NoGen, Sections!SectionsInit
<1>3. \A h \in Handler : ~Active(h) /\ ~Inside(h)
  BY DEF SyncInit, Active, Inside, NoJob
<1>4. \A g \in Gen : ~Replaying(g) /\ replay[g].left = <<>> /\ replay[g].step = "none"
  BY DEF SyncInit, Replaying, NoReplay
<1>5. SectionsApart /\ SectionsHeld
  BY <1>3, <1>4 DEF SyncInit, SectionsApart, SectionsHeld, Sections!SectionsInit, Tasks
<1>6. OneJobPerRule /\ JobsFit /\ RowsIssued
  BY <1>3 DEF SyncInit, OneJobPerRule, JobsFit, JobFits, RowsIssued
<1>7. SubsFit /\ ToldIsGone
  BY <1>4 DEF SyncInit, SubsFit, ToldIsGone
<1>8. RulesStayHome
  BY <1>4 DEF SyncInit, RulesStayHome, NoApply
<1>9. NodesAgree
  BY DEF SyncInit, NodesAgree, NodeAgrees
<1> QED
  BY <1>2, <1>5, <1>6, <1>7, <1>8, <1>9 DEF SyncInv

-----------------------------------------------------------------------------
(* Jobs. *)

\* A step of one handler that leaves the channels, the replays and the agents
\* alone, and changes at most the row of its own rule.
LEMMA JobKeeps ==
    ASSUME SyncInv, NEW h \in Handler, NEW next \in Job,
           job' = [job EXCEPT ![h] = next],
           jobs' \in Version, row' \in [Rule -> Version],
           issued \subseteq issued', issued' \subseteq Rule,
           \A r \in Rule : row'[r] = row[r] \/ (next.step # "idle" /\ next.rule = r),
           RowsIssued',
           next.step # "idle" => \A k \in Handler : k # h /\ Active(k) => job[k].rule # next.rule,
           JobFits(h)',
           section' \in [Tasks -> SUBSET Node], SectionsApart', SectionsHeld',
           missed \subseteq missed', missed' \subseteq Node,
           \A r \in Rule : told[r] # {} =>
               row'[r] = NoRow /\ (next.step # "idle" /\ next.rule = r => next.op = "delete"),
           "sweep" \notin Ops => \A n \in Node, r \in Rule :
               n \in NodesOf[r] =>
                  n \in missed' \/ Owes(h, n, r)' \/ (row'[r] = row[r] /\ ~Owes(h, n, r)),
           UNCHANGED <<sub, queue, opened, replay, applied, synced, told>>
    PROVE  SyncInv'
<1>1. /\ job' \in [Handler -> Job] /\ job'[h] = next
      /\ \A k \in Handler : k # h => job'[k] = job[k]
  BY DEF SyncInv, SyncTypeOK
<1>2. SyncTypeOK'
  BY <1>1 DEF SyncInv, SyncTypeOK, Tasks
<1>3. OneJobPerRule'
  BY <1>1 DEF SyncInv, OneJobPerRule, Active
<1>4. JobsFit'
  <2> SUFFICES ASSUME NEW k \in Handler PROVE JobFits(k)'
    BY DEF JobsFit
  <2>1. CASE k = h
    BY <2>1
  <2>2. CASE k # h /\ Active(k)
    <3>1. job'[k] = job[k] /\ JobFits(k)
      BY <1>1, <2>2 DEF SyncInv, JobsFit
    <3>2. job[k].rule \in Rule
      BY <2>2, <3>1 DEF JobFits, SyncInv, SyncTypeOK
    <3>3. row'[job[k].rule] = row[job[k].rule]
      BY <2>2, <3>2
    <3> QED
      BY <3>1, <3>3 DEF JobFits, Active
  <2>3. CASE k # h /\ ~Active(k)
    BY <1>1, <2>3 DEF JobFits, Active
  <2> QED
    BY <2>1, <2>2, <2>3
<1>5. SubsFit' /\ RulesStayHome'
  <2>1. SubsFit'
    BY DEF SyncInv, SubsFit
  <2>2. RulesStayHome'
    BY DEF SyncInv, RulesStayHome
  <2> QED
    BY <2>1, <2>2
<1>6. ToldIsGone'
  <2> SUFFICES ASSUME NEW r \in Rule, NEW n \in told[r]
               PROVE  /\ row'[r] = NoRow /\ r \in issued'
                      /\ DrainsTo(queue[n], applied[n][r], r, NoRow)
                      /\ \A k \in Handler : Active(k)' /\ job'[k].rule = r => job'[k].op = "delete"
                      /\ sub[n] # NoGen => NoApply(replay[sub[n]].left, r)
    BY DEF ToldIsGone
  <2>1. /\ r \in issued /\ DrainsTo(queue[n], applied[n][r], r, NoRow)
        /\ \A k \in Handler : Active(k) /\ job[k].rule = r => job[k].op = "delete"
        /\ sub[n] # NoGen => NoApply(replay[sub[n]].left, r)
    BY DEF SyncInv, ToldIsGone
  <2>2. row'[r] = NoRow /\ (next.step # "idle" /\ next.rule = r => next.op = "delete")
    OBVIOUS
  <2>3. ASSUME NEW k \in Handler, Active(k)', job'[k].rule = r PROVE job'[k].op = "delete"
    <3>1. CASE k = h
      BY <1>1, <2>2, <2>3, <3>1 DEF Active
    <3>2. CASE k # h
      BY <1>1, <2>1, <2>3, <3>2 DEF Active
    <3> QED
      BY <3>1, <3>2
  <2> QED
    BY <2>1, <2>2, <2>3
<1>7. NodesAgree'
  <2> SUFFICES ASSUME "sweep" \notin Ops, NEW n \in Node, NEW r \in Rule PROVE NodeAgrees(n, r)'
    BY DEF NodesAgree
  <2>1. NodeAgrees(n, r)
    BY DEF SyncInv, NodesAgree
  <2> SUFFICES ASSUME sub[n] # NoGen, n \notin missed', n \in NodesOf[r], ~Owed(n, r)'
               PROVE  NodeAgrees(n, r)'
    BY DEF NodeAgrees
  <2>2. row'[r] = row[r] /\ ~Owes(h, n, r)
    BY DEF Owed
  <2>3. ~Owed(n, r)
    BY <1>1, <2>2 DEF Owed, Owes
  <2>4. n \notin missed
    OBVIOUS
  <2> QED
    BY <2>1, <2>2, <2>3, <2>4 DEF NodeAgrees, WillAgree, Agrees
<1> QED
  BY <1>2, <1>3, <1>4, <1>5, <1>6, <1>7 DEF SyncInv

\* The sections are as they were, and the job stays inside its own or leaves it.
LEMMA SectionsStay ==
    ASSUME SyncInv, NEW h \in Handler, NEW next \in Job, job' = [job EXCEPT ![h] = next],
           Inside(h)' => Inside(h) /\ next.rule = job[h].rule,
           UNCHANGED <<section, replay>>
    PROVE  section' \in [Tasks -> SUBSET Node] /\ SectionsApart' /\ SectionsHeld'
<1>1. /\ job'[h] = next
      /\ \A k \in Handler : k # h => job'[k] = job[k]
  BY DEF SyncInv, SyncTypeOK
<1>2. section' \in [Tasks -> SUBSET Node] /\ SectionsApart'
  BY DEF SyncInv, SyncTypeOK, SectionsApart, Tasks
<1>3. SectionsHeld'
  <2>1. ASSUME NEW k \in Handler, Inside(k)' PROVE section'[k] = NodesOf[job'[k].rule]
    BY <1>1, <2>1 DEF SyncInv, SectionsHeld, Inside
  <2>2. ASSUME NEW g \in Gen, Replaying(g)'
        PROVE  replay'[g].node \in Node /\ section'[g] = {replay'[g].node}
    BY <2>2 DEF SyncInv, SectionsHeld, Replaying
  <2> QED
    BY <2>1, <2>2 DEF SectionsHeld
<1> QED
  BY <1>2, <1>3

\* A job leaves its section and ends.
LEMMA JobEnds ==
    ASSUME SyncInv, NEW h \in Handler, job' = [job EXCEPT ![h] = NoJob], Sections!Exit(h),
           UNCHANGED replay
    PROVE  section' \in [Tasks -> SUBSET Node] /\ SectionsApart' /\ SectionsHeld'
<1>1. /\ job'[h] = NoJob
      /\ \A k \in Handler : k # h => job'[k] = job[k]
  BY DEF SyncInv, SyncTypeOK
<1>2. /\ section' \in [Tasks -> SUBSET Node] /\ section'[h] = {}
      /\ \A t \in Tasks : t # h => section'[t] = section[t]
  BY DEF Sections!Exit, SyncInv, SyncTypeOK, Tasks
<1>3. SectionsApart'
  BY <1>2 DEF SyncInv, SectionsApart
<1>4. SectionsHeld'
  <2>1. ASSUME NEW k \in Handler, Inside(k)' PROVE section'[k] = NodesOf[job'[k].rule]
    <3>1. k # h
      BY <1>1, <2>1 DEF Inside, NoJob
    <3> QED
      BY <1>1, <1>2, <2>1, <3>1 DEF SyncInv, SectionsHeld, Inside, Tasks
  <2>2. ASSUME NEW g \in Gen, Replaying(g)'
        PROVE  replay'[g].node \in Node /\ section'[g] = {replay'[g].node}
    <3>1. g # h
      BY SyncAssumption DEF Gen
    <3> QED
      BY <1>2, <2>2, <3>1 DEF SyncInv, SectionsHeld, Replaying, Tasks
  <2> QED
    BY <2>1, <2>2 DEF SectionsHeld
<1> QED
  BY <1>2, <1>3, <1>4

LEMMA GotoIs ==
    ASSUME SyncInv, NEW h \in Handler, NEW s \in Steps
    PROVE  LET next == [job[h] EXCEPT !.step = s] IN
           /\ next \in Job /\ next.step = s /\ next.op = job[h].op /\ next.rule = job[h].rule
           /\ next.version = job[h].version /\ next.seen = job[h].seen /\ next.left = job[h].left
           /\ Goto(h, s) => job' = [job EXCEPT ![h] = next]
<1>1. job \in [Handler -> Job] /\ job[h] \in Job
  BY DEF SyncInv, SyncTypeOK
<1>2. Goto(h, s) => job' = [job EXCEPT ![h] = [job[h] EXCEPT !.step = s]]
  BY DEF Goto
<1> QED
  BY <1>1, <1>2 DEF Job

LEMMA ToldRows == SyncInv => \A r \in Rule : told[r] # {} => row[r] = NoRow /\ r \in issued
BY DEF SyncInv, ToldIsGone

LEMMA ToldJobs ==
    SyncInv => \A r \in Rule, k \in Handler :
                   told[r] # {} /\ Active(k) /\ job[k].rule = r => job[k].op = "delete"
BY DEF SyncInv, ToldIsGone

LEMMA OthersElsewhere ==
    ASSUME SyncInv, NEW h \in Handler, Active(h)
    PROVE  /\ job[h].rule \in Rule
           /\ \A k \in Handler : k # h /\ Active(k) => job[k].rule # job[h].rule
BY DEF SyncInv, OneJobPerRule, JobsFit, JobFits, SyncTypeOK

\* A job is started; with or without its row being written at once.
LEMMA StartKeeps ==
    ASSUME SyncInv, Serial, NEW h \in Handler, NEW o \in Ops, NEW r \in Rule,
           NEW step \in {"reread", "lock", "write"}, StartJob(h, o, r, step),
           UNCHANGED <<section, chanVars, replay, applied, synced, missed, told>>,
           told[r] = {},
           \/ /\ o = "create" /\ step = "reread"
              /\ row' = [row EXCEPT ![r] = jobs'] /\ issued' = issued \cup {r}
           \/ /\ o # "create" /\ step = (IF o = "delete" THEN "lock" ELSE "write")
              /\ row[r] # NoRow /\ UNCHANGED dbVars
    PROVE  SyncInv'
<1> DEFINE next == [op |-> o, rule |-> r, step |-> step, version |-> jobs',
                    seen |-> NoRow, left |-> NodesOf[r]]
<1>1. jobs' \in Version /\ jobs' # NoRow
  BY SyncAssumption DEF StartJob, SyncInv, SyncTypeOK, Version, NoRow
<1>2. next \in Job /\ job' = [job EXCEPT ![h] = next] /\ ~Active(h)
  BY <1>1, SyncAssumption DEF StartJob, Job, Steps, Version, NoRow, Active
<1>3. /\ next.op = o /\ next.rule = r /\ next.step = step /\ next.left = NodesOf[r]
      /\ next.version = jobs' /\ next.seen = NoRow
  OBVIOUS
<1> HIDE DEF next
<1>4. job'[h] = next
  BY <1>2 DEF SyncInv, SyncTypeOK
<1>5. \A k \in Handler : k # h /\ Active(k) => job[k].rule # next.rule
  BY <1>3 DEF StartJob, Busy, Active
<1>6. /\ row' \in [Rule -> Version] /\ issued \subseteq issued' /\ issued' \subseteq Rule
      /\ r \in issued' /\ row'[r] # NoRow
      /\ \A x \in Rule : x # r => row'[x] = row[x]
      /\ o # "create" => row'[r] = row[r]
  BY <1>1 DEF SyncInv, SyncTypeOK, RowsIssued, dbVars
<1>7. RowsIssued'
  BY <1>6 DEF SyncInv, RowsIssued
<1>8. JobFits(h)'
  <2>1. o \in AllOps
    BY SyncAssumption
  <2> QED
    BY <1>1, <1>3, <1>4, <1>6, <2>1 DEF JobFits, AllOps
<1>9. section' \in [Tasks -> SUBSET Node] /\ SectionsApart' /\ SectionsHeld'
  <2>1. ~Inside(h)'
    BY <1>3, <1>4 DEF Inside
  <2> QED
    BY <1>2, <2>1, SectionsStay
<1>10. \A x \in Rule : told[x] # {} =>
           row'[x] = NoRow /\ (next.step # "idle" /\ next.rule = x => next.op = "delete")
  BY <1>3, <1>6, ToldRows
<1>11. \A n \in Node, x \in Rule :
           n \in NodesOf[x] => Owes(h, n, x)' \/ (row'[x] = row[x] /\ ~Owes(h, n, x))
  <2>1. \A n \in Node, x \in Rule : ~Owes(h, n, x)
    BY <1>2 DEF Owes, Active
  <2>2. o = "create" => \A n \in NodesOf[r] : Owes(h, n, r)'
    BY <1>3, <1>4 DEF Owes
  <2> QED
    BY <1>6, <2>1, <2>2
<1>12. missed' = missed /\ missed' \subseteq Node
       /\ UNCHANGED <<sub, queue, opened, replay, applied, synced, told>>
  BY DEF SyncInv, SyncTypeOK, chanVars
<1> QED
  BY <1>1, <1>2, <1>3, <1>5, <1>6, <1>7, <1>8, <1>9, <1>10, <1>11, <1>12, JobKeeps

LEMMA BeginCreateKeeps ==
    ASSUME SyncInv, Serial, NEW h \in Handler, NEW r \in Rule, BeginCreate(h, r) PROVE SyncInv'
<1>1. told[r] = {} /\ "create" \in Ops
  BY ToldRows DEF BeginCreate, StartJob
<1> QED
  BY <1>1, StartKeeps DEF BeginCreate

LEMMA BeginChangeKeeps ==
    ASSUME SyncInv, Serial, NEW h \in Handler, NEW o \in Ops, NEW r \in Rule, BeginChange(h, o, r)
    PROVE  SyncInv'
<1>1. told[r] = {}
  BY ToldRows DEF BeginChange
<1> QED
  BY <1>1, StartKeeps DEF BeginChange

\* A job goes on to its next step and leaves its section as it is.
LEMMA GoesOn ==
    ASSUME SyncInv, NEW h \in Handler, Active(h), NEW next \in Job,
           job' = [job EXCEPT ![h] = next], next.step # "idle",
           next.op = job[h].op, next.rule = job[h].rule,
           Inside(h)' => Inside(h),
           row' \in [Rule -> Version],
           \A r \in Rule : r # job[h].rule => row'[r] = row[r],
           told[job[h].rule] # {} => row'[job[h].rule] = NoRow,
           JobFits(h)',
           \A n \in NodesOf[job[h].rule] :
               \/ Owes(h, n, job[h].rule)'
               \/ row' = row /\ ~Owes(h, n, job[h].rule),
           UNCHANGED <<issued, jobs, section, chanVars, replay, applied, synced, missed, told>>
    PROVE  SyncInv'
<1>1. /\ job[h].rule \in Rule /\ job[h].rule \in issued
      /\ \A k \in Handler : k # h /\ Active(k) => job[k].rule # next.rule
  BY OthersElsewhere DEF SyncInv, JobsFit, JobFits
<1>2. /\ jobs' \in Version /\ issued \subseteq issued' /\ issued' \subseteq Rule
      /\ missed' = missed /\ missed' \subseteq Node
      /\ UNCHANGED <<sub, queue, opened, replay, applied, synced, told>>
  BY DEF SyncInv, SyncTypeOK, chanVars
<1>3. RowsIssued'
  BY <1>1 DEF SyncInv, RowsIssued
<1>4. section' \in [Tasks -> SUBSET Node] /\ SectionsApart' /\ SectionsHeld'
  BY <1>2, SectionsStay
<1>5. \A r \in Rule : told[r] # {} =>
          row'[r] = NoRow /\ (next.step # "idle" /\ next.rule = r => next.op = "delete")
  BY ToldRows, ToldJobs
<1>6. \A n \in Node, r \in Rule : n \in NodesOf[r] =>
          Owes(h, n, r)' \/ (row'[r] = row[r] /\ ~Owes(h, n, r))
  <2>1. \A n \in Node, r \in Rule : r # job[h].rule => ~Owes(h, n, r)
    BY DEF Owes
  <2> QED
    BY <1>1, <2>1
<1>7. \A r \in Rule : row'[r] = row[r] \/ (next.step # "idle" /\ next.rule = r)
  OBVIOUS
<1>8. missed \subseteq missed' /\ missed' \subseteq Node
  BY <1>2
<1>9. "sweep" \notin Ops => \A n \in Node, r \in Rule :
          n \in NodesOf[r] =>
             n \in missed' \/ Owes(h, n, r)' \/ (row'[r] = row[r] /\ ~Owes(h, n, r))
  BY <1>6
<1>10. next.step # "idle" => \A k \in Handler : k # h /\ Active(k) => job[k].rule # next.rule
  BY <1>1
<1>11. UNCHANGED <<sub, queue, opened, replay, applied, synced, told>>
  BY <1>2
<1>12. jobs' \in Version /\ row' \in [Rule -> Version] /\ issued \subseteq issued' /\ issued' \subseteq Rule
  BY <1>2
<1> QED
  BY <1>3, <1>4, <1>5, <1>7, <1>8, <1>9, <1>10, <1>11, <1>12, JobKeeps

LEMMA WriteKeeps == ASSUME SyncInv, NEW h \in Handler, Write(h) PROVE SyncInv'
<1> DEFINE r == job[h].rule
           s == IF row[r] = NoRow THEN "done" ELSE "reread"
           next == [job[h] EXCEPT !.step = s]
<1>1. /\ Active(h) /\ JobFits(h) /\ job[h] \in Job /\ r \in Rule
      /\ job[h].step = "write" /\ job[h].op # "delete"
  BY OthersElsewhere DEF Write, Active, SyncInv, SyncTypeOK, JobsFit
<1>2. s \in Steps /\ s # "idle"
  BY DEF Steps
<1>3. Goto(h, s)
  BY DEF Write
<1>4. row' = (IF row[r] = NoRow THEN row ELSE [row EXCEPT ![r] = job[h].version])
  BY DEF Write
<1> HIDE DEF s
<1>5. /\ next \in Job /\ next.step = s /\ next.op = job[h].op /\ next.rule = r
      /\ next.version = job[h].version /\ next.left = job[h].left
      /\ job' = [job EXCEPT ![h] = next]
  BY <1>2, <1>3, GotoIs
<1> HIDE DEF next
<1>6. job'[h] = next
  BY <1>5 DEF SyncInv, SyncTypeOK
<1>7. /\ row' \in [Rule -> Version]
      /\ \A x \in Rule : x # r => row'[x] = row[x]
      /\ row[r] # NoRow => row'[r] = job[h].version
  BY <1>1, <1>4 DEF SyncInv, SyncTypeOK, Job
<1>8. job[h].version # NoRow /\ job[h].left = NodesOf[r] /\ r \in issued /\ issued' = issued
  BY <1>1 DEF JobFits, Write
<1>9. JobFits(h)'
  BY <1>1, <1>5, <1>6, <1>7, <1>8 DEF JobFits, s
<1>10. \A n \in NodesOf[r] : Owes(h, n, r)' \/ (row' = row /\ ~Owes(h, n, r))
  BY <1>1, <1>4, <1>5, <1>6, <1>8 DEF Owes, s
<1>11. told[r] = {}
  BY <1>1, ToldJobs
<1>12. Inside(h)' => Inside(h)
  BY <1>1, <1>5, <1>6 DEF Inside, s
<1>13. UNCHANGED <<issued, jobs, section, chanVars, replay, applied, synced, missed, told>>
  BY DEF Write
<1> QED
  BY <1>1, <1>2, <1>5, <1>7, <1>9, <1>10, <1>11, <1>12, <1>13, GoesOn

LEMMA RereadKeeps == ASSUME SyncInv, NEW h \in Handler, Reread(h) PROVE SyncInv'
<1> DEFINE r == job[h].rule
           s == IF row[r] = NoRow THEN "done" ELSE IF job[h].op = "sweep" THEN "push" ELSE "lock"
           next == [job[h] EXCEPT !.seen = row[r], !.step = s]
<1>1. /\ Active(h) /\ JobFits(h) /\ job[h] \in Job /\ r \in Rule /\ row[r] \in Version
      /\ job[h].step = "reread" /\ job[h].op # "delete" /\ row[r] # NoRow
  <2>1. Active(h) /\ JobFits(h) /\ job[h] \in Job /\ r \in Rule
    BY OthersElsewhere DEF Reread, Active, SyncInv, SyncTypeOK, JobsFit
  <2> QED
    BY <2>1 DEF Reread, JobFits, SyncInv, SyncTypeOK
<1>2. s \in {"push", "lock"} /\ (s = "push" <=> job[h].op = "sweep") /\ s \in Steps
  BY <1>1 DEF Steps
<1>3. job' = [job EXCEPT ![h] = next]
  BY <1>1 DEF Reread, SyncInv, SyncTypeOK, Job
<1> HIDE DEF s
<1>4. /\ next \in Job /\ next.step = s /\ next.op = job[h].op /\ next.rule = r
      /\ next.version = job[h].version /\ next.left = job[h].left /\ next.seen = row[r]
  BY <1>1, <1>2 DEF Job
<1> HIDE DEF next
<1>5. job'[h] = next
  BY <1>3 DEF SyncInv, SyncTypeOK
<1>6. UNCHANGED <<row, issued, jobs, section, chanVars, replay, applied, synced, missed, told>>
  BY DEF Reread, dbVars
<1>7. job[h].version # NoRow /\ job[h].left = NodesOf[r] /\ r \in issued
  BY <1>1 DEF JobFits
<1>8. JobFits(h)'
  BY <1>1, <1>2, <1>4, <1>5, <1>6, <1>7 DEF JobFits
<1>9. \A n \in NodesOf[r] : Owes(h, n, r)'
  BY <1>1, <1>2, <1>4, <1>5, <1>7 DEF Owes
<1>10. told[r] = {}
  BY <1>1, ToldJobs
<1>11. ~Inside(h)'
  BY <1>1, <1>2, <1>4, <1>5 DEF Inside
<1>12. row' \in [Rule -> Version] /\ next.step # "idle"
  BY <1>2, <1>4, <1>6 DEF SyncInv, SyncTypeOK
<1> QED
  BY <1>1, <1>3, <1>4, <1>6, <1>8, <1>9, <1>10, <1>11, <1>12, GoesOn

LEMMA SoftDeleteKeeps == ASSUME SyncInv, NEW h \in Handler, SoftDelete(h) PROVE SyncInv'
<1> DEFINE r == job[h].rule
           s == IF row[r] = NoRow THEN "done" ELSE "push"
           next == [job[h] EXCEPT !.step = s]
<1>1. /\ Active(h) /\ JobFits(h) /\ job[h] \in Job /\ r \in Rule
      /\ job[h].step = "write" /\ job[h].op = "delete"
  BY OthersElsewhere DEF SoftDelete, Active, SyncInv, SyncTypeOK, JobsFit
<1>2. s \in Steps /\ s # "idle"
  BY DEF Steps
<1>3. Goto(h, s) /\ row' = [row EXCEPT ![r] = NoRow]
  BY DEF SoftDelete
<1> HIDE DEF s
<1>4. /\ next \in Job /\ next.step = s /\ next.op = job[h].op /\ next.rule = r
      /\ next.version = job[h].version /\ next.left = job[h].left
      /\ job' = [job EXCEPT ![h] = next]
  BY <1>2, <1>3, GotoIs
<1> HIDE DEF next
<1>5. job'[h] = next
  BY <1>4 DEF SyncInv, SyncTypeOK
<1>6. /\ row' \in [Rule -> Version] /\ row'[r] = NoRow
      /\ \A x \in Rule : x # r => row'[x] = row[x]
      /\ row[r] = NoRow => row' = row
  BY <1>1, <1>3, SyncAssumption DEF SyncInv, SyncTypeOK, Version, NoRow
<1>7. job[h].version # NoRow /\ job[h].left = NodesOf[r] /\ r \in issued /\ issued' = issued
  BY <1>1 DEF JobFits, SoftDelete
<1>8. JobFits(h)'
  BY <1>1, <1>4, <1>5, <1>6, <1>7 DEF JobFits, s
<1>9. \A n \in NodesOf[r] : Owes(h, n, r)' \/ (row' = row /\ ~Owes(h, n, r))
  BY <1>1, <1>4, <1>5, <1>6, <1>7 DEF Owes, s
<1>10. Inside(h)
  BY <1>1 DEF Inside
<1>11. UNCHANGED <<issued, jobs, section, chanVars, replay, applied, synced, missed, told>>
  BY DEF SoftDelete
<1> QED
  BY <1>1, <1>2, <1>4, <1>6, <1>8, <1>9, <1>10, <1>11, GoesOn

LEMMA LockKeeps == ASSUME SyncInv, NEW h \in Handler, Lock(h) PROVE SyncInv'
<1> DEFINE r == job[h].rule
           s == IF job[h].op = "delete" THEN "write" ELSE "push"
           next == [job[h] EXCEPT !.step = s]
<1>1. /\ Active(h) /\ JobFits(h) /\ job[h] \in Job /\ r \in Rule /\ job[h].step = "lock"
      /\ \A k \in Handler : k # h /\ Active(k) => job[k].rule # r
  BY OthersElsewhere DEF Lock, Active, SyncInv, SyncTypeOK, JobsFit
<1>2. s \in Steps /\ s # "idle" /\ Goto(h, s)
  BY DEF Steps, Lock
<1> HIDE DEF s
<1>3. /\ next \in Job /\ next.step = s /\ next.op = job[h].op /\ next.rule = r
      /\ next.version = job[h].version /\ next.left = job[h].left /\ next.seen = job[h].seen
      /\ job' = [job EXCEPT ![h] = next]
  BY <1>2, GotoIs
<1> HIDE DEF next
<1>4. /\ job'[h] = next
      /\ \A k \in Handler : k # h => job'[k] = job[k]
  BY <1>3 DEF SyncInv, SyncTypeOK
<1>5. /\ UNCHANGED <<row, issued, jobs, sub, queue, opened, replay, applied, synced, missed, told>>
      /\ row' \in [Rule -> Version] /\ issued' \subseteq Rule /\ jobs' \in Version
      /\ missed' \subseteq Node /\ RowsIssued'
  BY DEF Lock, dbVars, chanVars, SyncInv, SyncTypeOK, RowsIssued
<1>6. NodesOf[r] \subseteq Node
  BY <1>1, SyncAssumption
<1>7. /\ section' \in [Tasks -> SUBSET Node] /\ section'[h] = NodesOf[r]
      /\ \A t \in Tasks : t # h => section'[t] = section[t] /\ section[t] \cap NodesOf[r] = {}
  BY <1>6 DEF Lock, Sections!Enter, Sections!Unlocked, SyncInv, SyncTypeOK, Tasks
<1>8. SectionsApart'
  BY <1>7 DEF SyncInv, SectionsApart
<1>9. SectionsHeld'
  <2>1. ASSUME NEW k \in Handler, Inside(k)' PROVE section'[k] = NodesOf[job'[k].rule]
    <3>1. CASE k = h
      BY <1>3, <1>4, <1>7, <3>1
    <3>2. CASE k # h
      BY <1>4, <1>7, <2>1, <3>2 DEF SyncInv, SectionsHeld, Inside, Tasks
    <3> QED
      BY <3>1, <3>2
  <2>2. ASSUME NEW g \in Gen, Replaying(g)'
        PROVE  replay'[g].node \in Node /\ section'[g] = {replay'[g].node}
    <3>1. g # h
      BY SyncAssumption DEF Gen
    <3> QED
      BY <1>5, <1>7, <2>2, <3>1 DEF SyncInv, SectionsHeld, Replaying, Tasks
  <2> QED
    BY <2>1, <2>2 DEF SectionsHeld
<1>10. JobFits(h)'
  BY <1>1, <1>3, <1>4, <1>5 DEF JobFits, s
<1>11. \A n \in Node, x \in Rule : Owes(h, n, x) => Owes(h, n, x)'
  BY <1>1, <1>3, <1>4 DEF Owes, s
<1>12. \A x \in Rule : told[x] # {} =>
           row'[x] = NoRow /\ (next.step # "idle" /\ next.rule = x => next.op = "delete")
  BY <1>1, <1>3, <1>5, ToldRows, ToldJobs
<1> QED
  BY <1>1, <1>3, <1>5, <1>7, <1>8, <1>9, <1>10, <1>11, <1>12, JobKeeps

\* The job of h ends; n is told of its row or has missed it.
LEMMA JobEndKeeps ==
    ASSUME SyncInv, NEW h \in Handler, job' = [job EXCEPT ![h] = NoJob], Sections!Exit(h),
           missed \subseteq missed', missed' \subseteq Node,
           \A n \in Node, r \in Rule : n \in NodesOf[r] /\ Owes(h, n, r) => n \in missed',
           UNCHANGED <<dbVars, jobs, chanVars, replay, applied, synced, told>>
    PROVE  SyncInv'
<1>1. /\ UNCHANGED <<row, issued, jobs, sub, queue, opened, replay, applied, synced, told>>
      /\ row' \in [Rule -> Version] /\ issued' \subseteq Rule /\ jobs' \in Version /\ RowsIssued'
  BY DEF dbVars, chanVars, SyncInv, SyncTypeOK, RowsIssued
<1>2. NoJob \in Job /\ NoJob.step = "idle"
  BY SyncAssumption DEF NoJob, Job, Steps, Version, NoRow
<1>3. section' \in [Tasks -> SUBSET Node] /\ SectionsApart' /\ SectionsHeld'
  BY <1>1, JobEnds
<1>4. JobFits(h)'
  BY <1>2 DEF JobFits, Active, SyncInv, SyncTypeOK
<1>5. \A r \in Rule : told[r] # {} => row'[r] = NoRow
  BY <1>1, ToldRows
<1> QED
  BY <1>1, <1>2, <1>3, <1>4, <1>5, JobKeeps

LEMMA FinishKeeps == ASSUME SyncInv, NEW h \in Handler, Finish(h) PROVE SyncInv'
<1>1. \A n \in Node, r \in Rule : ~Owes(h, n, r)
  BY DEF Finish, Owes
<1>2. missed' = missed /\ missed' \subseteq Node
  BY DEF Finish, SyncInv, SyncTypeOK
<1> QED
  BY <1>1, <1>2, JobEndKeeps DEF Finish

LEMMA AbandonKeeps == ASSUME SyncInv, NEW h \in Handler, Abandon(h) PROVE SyncInv'
<1>1. Active(h) /\ JobFits(h) /\ job[h].rule \in Rule /\ NodesOf[job[h].rule] \subseteq Node
  BY OthersElsewhere, SyncAssumption DEF Abandon, Active, SyncInv, JobsFit
<1>2. missed \subseteq missed' /\ missed' \subseteq Node
  BY <1>1 DEF Abandon, SyncInv, SyncTypeOK
<1>3. ASSUME NEW n \in Node, NEW r \in Rule, n \in NodesOf[r], Owes(h, n, r) PROVE n \in missed'
  BY <1>3 DEF Abandon, Owes
<1> QED
  BY <1>2, <1>3, JobEndKeeps DEF Abandon

\* No two tasks are inside the sections of one node.
LEMMA NoReplayInside ==
    ASSUME SyncInv, NEW h \in Handler, Inside(h), NEW n \in NodesOf[job[h].rule], n \in Node,
           sub[n] # NoGen
    PROVE  ~Replaying(sub[n]) /\ replay[sub[n]].step # "send" /\ replay[sub[n]].left = <<>>
<1> DEFINE g == sub[n]
<1>1. g \in Gen /\ replay[g].node = n
  BY DEF SyncInv, SyncTypeOK, SubsFit
<1>2. g # h /\ g \in Tasks /\ h \in Tasks
  BY <1>1, SyncAssumption DEF Gen, Tasks
<1>3. ~Replaying(g)
  BY <1>1, <1>2 DEF SyncInv, SectionsApart, SectionsHeld
<1> QED
  BY <1>1, <1>3 DEF Replaying, SyncInv, SubsFit

LEMMA PushKeeps == ASSUME SyncInv, NEW h \in Handler, NEW n \in Node, Push(h, n) PROVE SyncInv'
<1> DEFINE r == job[h].rule
           left == job[h].left \ {n}
           next == [job[h] EXCEPT !.left = left, !.step = IF left = {} THEN "done" ELSE @]
           c == CommandOf(h)
           took == Accepts(n)
<1>1. /\ Active(h) /\ JobFits(h) /\ job[h] \in Job /\ r \in Rule /\ job[h].step = "push"
      /\ n \in job[h].left /\ n \in NodesOf[r] /\ job[h].op \in Ops
      /\ \A k \in Handler : k # h /\ Active(k) => job[k].rule # r
  <2>1. /\ Active(h) /\ JobFits(h) /\ job[h] \in Job /\ r \in Rule /\ job[h].step = "push"
        /\ n \in job[h].left
    BY OthersElsewhere DEF Push, Active, SyncInv, SyncTypeOK, JobsFit
  <2> QED
    BY <2>1, OthersElsewhere DEF JobFits
<1>2. job' = [job EXCEPT ![h] = next]
  BY <1>1 DEF Push, SyncInv, SyncTypeOK, Job
<1>3. /\ next \in Job /\ next.step = (IF left = {} THEN "done" ELSE "push") /\ next.left = left
      /\ next.op = job[h].op /\ next.rule = r /\ next.version = job[h].version
      /\ next.seen = job[h].seen
  BY <1>1 DEF Job, Steps
<1> HIDE DEF next
<1>4. /\ job' \in [Handler -> Job] /\ job'[h] = next
      /\ \A k \in Handler : k # h => job'[k] = job[k]
  BY <1>2, <1>3 DEF SyncInv, SyncTypeOK
<1>5. UNCHANGED <<row, issued, jobs, section, sub, opened, replay, applied, synced>>
  BY DEF Push, dbVars
<1>6. /\ c \in Command
      /\ \A x \in Rule : x # r => ~Touches(c, x) /\ ~Applies(c, x)
      /\ Touches(c, r) /\ Effect(c, r, NoRow) = row[r]
      /\ job[h].op = "delete" => row[r] = NoRow /\ ~Applies(c, r)
  <2>1. CASE job[h].op = "delete"
    <3>1. c = RemoveRule(r) /\ row[r] = NoRow
      BY <1>1, <2>1 DEF CommandOf, JobFits
    <3> QED
      BY <1>1, <3>1, CommandTypes DEF RemoveRule, Touches, Applies, Effect
  <2>2. CASE job[h].op # "delete"
    <3>1. c = ApplyRule(r, row[r]) /\ row[r] \in Version
      BY <1>1, <2>2 DEF CommandOf, JobFits, SyncInv, SyncTypeOK
    <3> QED
      BY <1>1, <2>2, <3>1, CommandTypes, ApplyTouches
  <2> QED
    BY <2>1, <2>2
<1> HIDE DEF c, took
<1>7. /\ queue \in [Node -> Seq(Command)] /\ queue' \in [Node -> Seq(Command)]
      /\ \A m \in Node : Len(queue'[m]) <= Capacity
      /\ \A m \in Node : m # n \/ ~took => queue'[m] = queue[m]
      /\ took => queue'[n] = Append(queue[n], c)
      /\ missed' = (IF took THEN missed ELSE missed \cup {n})
      /\ told' \in [Rule -> SUBSET Node]
      /\ \A x \in Rule, m \in Node : m \in told'[x] =>
             m \in told[x] \/ (took /\ x = r /\ m = n /\ job[h].op = "delete")
  <2>1. queue \in [Node -> Seq(Command)] /\ told \in [Rule -> SUBSET Node]
        /\ \A m \in Node : Len(queue[m]) <= Capacity
    BY DEF SyncInv, SyncTypeOK
  <2>2. CASE took
    <3>1. /\ queue' = [queue EXCEPT ![n] = Append(@, c)] /\ missed' = missed
          /\ Len(queue[n]) < Capacity
          /\ told' = IF job[h].op = "delete" THEN [told EXCEPT ![r] = @ \cup {n}] ELSE told
      BY <2>2 DEF Push, took, c, Accepts
    <3>2. Append(queue[n], c) \in Seq(Command) /\ Len(Append(queue[n], c)) = Len(queue[n]) + 1
          /\ Len(queue[n]) \in Nat
      BY <1>6, <2>1
    <3>3. queue' \in [Node -> Seq(Command)] /\ queue'[n] = Append(queue[n], c)
          /\ \A m \in Node : m # n => queue'[m] = queue[m]
      BY <2>1, <3>1, <3>2
    <3>4. \A m \in Node : Len(queue'[m]) <= Capacity
      BY <2>1, <3>1, <3>2, <3>3, SyncAssumption
    <3> QED
      BY <1>1, <2>1, <2>2, <3>1, <3>3, <3>4
  <2>3. CASE ~took
    BY <2>1, <2>3 DEF Push, took
  <2> QED
    BY <2>2, <2>3
<1>8. SyncTypeOK'
  <2>1. missed' \subseteq Node
    BY <1>7 DEF SyncInv, SyncTypeOK
  <2> QED
    BY <1>4, <1>5, <1>7, <2>1 DEF SyncInv, SyncTypeOK
<1>9. SectionsApart' /\ SectionsHeld'
  <2>1. Inside(h)' => Inside(h) /\ next.rule = job[h].rule
    BY <1>1, <1>3, <1>4 DEF Inside
  <2> QED
    BY <1>2, <1>3, <1>5, <2>1, SectionsStay
<1>10. OneJobPerRule'
  BY <1>1, <1>3, <1>4 DEF SyncInv, OneJobPerRule, Active
<1>11. JobsFit'
  <2> SUFFICES ASSUME NEW k \in Handler PROVE JobFits(k)'
    BY DEF JobsFit
  <2>1. CASE k = h
    BY <1>1, <1>3, <1>4, <1>5, <2>1 DEF JobFits, Active
  <2>2. CASE k # h
    BY <1>4, <1>5, <2>2 DEF SyncInv, JobsFit, JobFits, Active
  <2> QED
    BY <2>1, <2>2
<1>12. RowsIssued' /\ SubsFit'
  BY <1>5 DEF SyncInv, RowsIssued, SubsFit
<1>13. RulesStayHome'
  <2> SUFFICES ASSUME NEW m \in Node, NEW x \in Rule, m \notin NodesOf[x]
               PROVE  NoApply(queue'[m], x)
    BY <1>5 DEF SyncInv, RulesStayHome
  <2>1. NoApply(queue[m], x)
    BY DEF SyncInv, RulesStayHome
  <2>2. CASE m = n /\ took
    <3>1. ~Applies(c, x)
      BY <1>1, <1>6, <2>2
    <3>2. queue'[m] = Append(queue[m], c) /\ queue[m] \in Seq(Command)
      BY <1>7, <2>2
    <3> QED
      BY <1>6, <2>1, <3>1, <3>2, ApplyFreeAppended
  <2>3. CASE ~(m = n /\ took)
    BY <1>7, <2>1, <2>3
  <2> QED
    BY <2>2, <2>3
<1>14. ToldIsGone'
  <2> SUFFICES ASSUME NEW x \in Rule, NEW m \in told'[x]
               PROVE  /\ row[x] = NoRow /\ x \in issued
                      /\ DrainsTo(queue'[m], applied[m][x], x, NoRow)
                      /\ \A k \in Handler : Active(k)' /\ job'[k].rule = x => job'[k].op = "delete"
                      /\ sub[m] # NoGen => NoApply(replay[sub[m]].left, x)
    BY <1>5 DEF ToldIsGone
  <2>0. m \in Node
    BY <1>7
  <2>1. CASE m \in told[x]
    <3>1. /\ row[x] = NoRow /\ x \in issued
          /\ DrainsTo(queue[m], applied[m][x], x, NoRow)
          /\ \A k \in Handler : Active(k) /\ job[k].rule = x => job[k].op = "delete"
          /\ sub[m] # NoGen => NoApply(replay[sub[m]].left, x)
      BY <2>1 DEF SyncInv, ToldIsGone
    <3>2. ~Applies(c, x)
      BY <1>1, <1>6, <3>1
    <3>3. DrainsTo(queue'[m], applied[m][x], x, NoRow)
      BY <1>6, <1>7, <2>0, <3>1, <3>2, RemovedStays
    <3>4. \A k \in Handler : Active(k)' /\ job'[k].rule = x => job'[k].op = "delete"
      BY <1>1, <1>3, <1>4, <3>1 DEF Active
    <3> QED
      BY <3>1, <3>3, <3>4
  <2>2. CASE took /\ x = r /\ m = n /\ job[h].op = "delete"
    <3>1. row[x] = NoRow /\ x \in issued
      BY <1>1, <1>6, <2>2 DEF JobFits
    <3>2. DrainsTo(queue'[m], applied[m][x], x, NoRow)
      <4>1. queue'[m] = Append(queue[m], c) /\ queue[m] \in Seq(Command)
        BY <1>7, <2>2
      <4>2. MakeIt(Append(queue[m], c), x, NoRow)
        BY <1>6, <2>2, <4>1, LastAppended
      <4> QED
        BY <4>1, <4>2 DEF DrainsTo
    <3>3. \A k \in Handler : Active(k)' /\ job'[k].rule = x => job'[k].op = "delete"
      BY <1>1, <1>3, <1>4, <2>2 DEF Active
    <3>4. sub[m] # NoGen => NoApply(replay[sub[m]].left, x)
      BY <1>1, <2>2, NoReplayInside DEF Inside, NoApply
    <3> QED
      BY <3>1, <3>2, <3>3, <3>4
  <2> QED
    BY <1>7, <2>0, <2>1, <2>2
<1>15. NodesAgree'
  <2> SUFFICES ASSUME "sweep" \notin Ops, NEW m \in Node, NEW x \in Rule,
                      sub[m] # NoGen, m \notin missed', m \in NodesOf[x], ~Owed(m, x)'
               PROVE  /\ replay[sub[m]].step = "send" => WillAgree(m, x)'
                      /\ m \in synced => Agrees(m, x)'
    BY <1>5 DEF NodesAgree, NodeAgrees
  <2>1. CASE m = n /\ x = r
    <3>1. took
      BY <1>7, <2>1
    <3>2. Agrees(m, x)'
      <4>1. queue'[m] = Append(queue[m], c) /\ queue[m] \in Seq(Command)
        BY <1>7, <2>1, <3>1
      <4>2. MakeIt(Append(queue[m], c), x, row[x])
        BY <1>6, <2>1, <4>1, LastAppended
      <4> QED
        BY <1>5, <4>1, <4>2 DEF Agrees, DrainsTo
    <3>3. replay[sub[m]].step # "send"
      BY <1>1, <2>1, NoReplayInside DEF Inside
    <3> QED
      BY <3>2, <3>3
  <2>2. CASE ~(m = n /\ x = r)
    <3>1. ASSUME NEW k \in Handler, Owes(k, m, x) PROVE FALSE
      <4>1. Owes(k, m, x)'
        <5>1. CASE k = h
          BY <1>1, <1>3, <1>4, <2>2, <3>1, <5>1 DEF Owes
        <5>2. CASE k # h
          BY <1>4, <3>1, <5>2 DEF Owes
        <5> QED
          BY <5>1, <5>2
      <4> QED
        BY <4>1 DEF Owed
    <3>2. m \notin missed
      BY <1>7
    <3>3. /\ replay[sub[m]].step = "send" => WillAgree(m, x)
          /\ m \in synced => Agrees(m, x)
      BY <3>1, <3>2 DEF SyncInv, NodesAgree, NodeAgrees, Owed
    <3>4. Agrees(m, x) => Agrees(m, x)'
      <4>1. CASE m = n /\ took
        <5>1. queue'[m] = Append(queue[m], c) /\ queue[m] \in Seq(Command) /\ ~Touches(c, x)
          BY <1>6, <1>7, <2>2, <4>1
        <5>2. DrainsTo(queue[m], applied[m][x], x, row[x])
                  => DrainsTo(Append(queue[m], c), applied[m][x], x, row[x])
          BY <1>6, <5>1, OtherAppended
        <5> QED
          BY <1>5, <5>1, <5>2 DEF Agrees
      <4>2. CASE ~(m = n /\ took)
        BY <1>5, <1>7, <4>2 DEF Agrees
      <4> QED
        BY <4>1, <4>2
    <3> QED
      BY <1>5, <3>3, <3>4 DEF WillAgree
  <2> QED
    BY <2>1, <2>2
<1> QED
  BY <1>8, <1>9, <1>10, <1>11, <1>12, <1>13, <1>14, <1>15 DEF SyncInv

-----------------------------------------------------------------------------
(* Streams. *)

\* The stream of n ends; a new subscription replaces it or none does.
LEMMA StreamKeeps ==
    ASSUME SyncInv, NEW n \in Node, CloseStream(n),
           \/ sub' = [sub EXCEPT ![n] = NoGen] /\ UNCHANGED <<opened, replay>>
           \/ /\ opened < MaxSubscriptions /\ opened' = opened + 1
              /\ sub' = [sub EXCEPT ![n] = opened + 1]
              /\ replay' = [replay EXCEPT ![opened + 1] = [node |-> n, step |-> "lock", left |-> <<>>]],
           missed' \subseteq missed, missed \subseteq missed' \cup {n},
           UNCHANGED <<dbVars, jobs, job, section, applied>>
    PROVE  SyncInv'
<1>1. /\ sub' \in [Node -> Gen \cup {NoGen}] /\ opened' \in 0..MaxSubscriptions
      /\ opened <= opened' /\ replay' \in [Gen -> Replay]
      /\ \A m \in Node : m # n => sub'[m] = sub[m]
      /\ sub'[n] # NoGen => /\ sub'[n] \in Gen /\ sub'[n] <= opened'
                            /\ replay'[sub'[n]] = [node |-> n, step |-> "lock", left |-> <<>>]
      /\ \A g \in Gen :
            replay'[g] # replay[g] => replay'[g] = [node |-> n, step |-> "lock", left |-> <<>>] /\ g > opened
  <2>0. /\ sub \in [Node -> Gen \cup {NoGen}] /\ opened \in 0..MaxSubscriptions
        /\ replay \in [Gen -> Replay]
    BY DEF SyncInv, SyncTypeOK
  <2>1. CASE sub' = [sub EXCEPT ![n] = NoGen] /\ UNCHANGED <<opened, replay>>
    BY <2>0, <2>1, SyncAssumption
  <2>2. CASE /\ opened < MaxSubscriptions /\ opened' = opened + 1
             /\ sub' = [sub EXCEPT ![n] = opened + 1]
             /\ replay' = [replay EXCEPT ![opened + 1] = [node |-> n, step |-> "lock", left |-> <<>>]]
    <3>1. opened + 1 \in Gen
      BY <2>0, <2>2, SyncAssumption DEF Gen
    <3>2. [node |-> n, step |-> "lock", left |-> <<>>] \in Replay
      BY DEF Replay
    <3> QED
      BY <2>0, <2>2, <3>1, <3>2, SyncAssumption
  <2> QED
    BY <2>1, <2>2
<1>2. /\ queue' \in [Node -> Seq(Command)] /\ queue'[n] = <<>>
      /\ \A m \in Node : m # n => queue'[m] = queue[m]
      /\ synced' = synced \ {n}
      /\ told' \in [Rule -> SUBSET Node]
      /\ \A r \in Rule : told'[r] = told[r] \ {n}
  BY DEF CloseStream, SyncInv, SyncTypeOK
<1>3. /\ UNCHANGED <<row, issued, jobs, job, section, applied>>
      /\ \A m \in Node : m # n => (m \in missed' <=> m \in missed)
  BY DEF dbVars
<1>4. \A m \in Node : m # n /\ sub[m] # NoGen =>
          /\ sub'[m] = sub[m] /\ sub[m] \in Gen /\ sub[m] <= opened /\ replay'[sub'[m]] = replay[sub[m]]
  <2> SUFFICES ASSUME NEW m \in Node, m # n, sub[m] # NoGen
               PROVE  /\ sub'[m] = sub[m] /\ sub[m] \in Gen /\ sub[m] <= opened
                      /\ replay'[sub'[m]] = replay[sub[m]]
    OBVIOUS
  <2>1. sub[m] \in Gen /\ sub[m] <= opened /\ opened \in Nat
    BY DEF SyncInv, SyncTypeOK, SubsFit
  <2> QED
    BY <1>1, <2>1 DEF Gen
<1>5. SyncTypeOK'
  <2>1. \A m \in Node : Len(queue'[m]) <= Capacity
    BY <1>2, SyncAssumption DEF SyncInv, SyncTypeOK
  <2>2. synced' \subseteq Node /\ missed' \subseteq Node
    BY <1>2 DEF SyncInv, SyncTypeOK
  <2> QED
    BY <1>1, <1>2, <1>3, <2>1, <2>2 DEF SyncInv, SyncTypeOK
<1>6. SectionsApart' /\ SectionsHeld'
  <2>1. \A h \in Handler : Inside(h)' => Inside(h)
    BY <1>3 DEF Inside
  <2>2. \A g \in Gen : Replaying(g)' => Replaying(g) /\ replay'[g] = replay[g]
    BY <1>1 DEF Replaying
  <2> QED
    BY <1>3, <2>1, <2>2 DEF SyncInv, SectionsApart, SectionsHeld
<1>7. OneJobPerRule' /\ JobsFit' /\ RowsIssued'
  BY <1>3 DEF SyncInv, OneJobPerRule, JobsFit, JobFits, RowsIssued, Active
<1>8. SubsFit'
  <2>1. ASSUME NEW m \in Node, sub'[m] # NoGen PROVE sub'[m] <= opened' /\ replay'[sub'[m]].node = m
    <3>1. CASE m = n
      BY <1>1, <2>1, <3>1
    <3>2. CASE m # n
      <4>1. sub[m] # NoGen /\ sub'[m] = sub[m] /\ replay'[sub'[m]] = replay[sub[m]]
        BY <1>1, <1>4, <2>1, <3>2
      <4>2. sub[m] <= opened /\ replay[sub[m]].node = m /\ sub[m] \in Nat
        BY <4>1 DEF SyncInv, SubsFit, SyncTypeOK, Gen
      <4>3. opened \in Nat /\ opened' \in Nat
        BY <1>1 DEF SyncInv, SyncTypeOK
      <4> QED
        BY <1>1, <4>1, <4>2, <4>3
    <3> QED
      BY <3>1, <3>2
  <2>2. ASSUME NEW m \in synced' PROVE sub'[m] # NoGen /\ replay'[sub'[m]].step = "done"
    <3>1. m \in Node /\ m # n /\ m \in synced
      BY <1>2 DEF SyncInv, SyncTypeOK
    <3> QED
      BY <1>1, <1>4, <3>1 DEF SyncInv, SubsFit
  <2>3. \A g \in Gen :
            /\ replay'[g].step # "send" => replay'[g].left = <<>>
            /\ replay'[g].step # "none" => replay'[g].node \in Node
    BY <1>1 DEF SyncInv, SubsFit
  <2> QED
    BY <2>1, <2>2, <2>3 DEF SubsFit
<1>9. RulesStayHome'
  <2> SUFFICES ASSUME NEW m \in Node, NEW r \in Rule, m \notin NodesOf[r]
               PROVE  /\ applied[m][r] = NoRow /\ NoApply(queue'[m], r)
                      /\ \A g \in Gen : replay'[g].node = m => NoApply(replay'[g].left, r)
    BY <1>3 DEF RulesStayHome
  <2>1. /\ applied[m][r] = NoRow /\ NoApply(queue[m], r)
        /\ \A g \in Gen : replay[g].node = m => NoApply(replay[g].left, r)
    BY DEF SyncInv, RulesStayHome
  <2>2. NoApply(<<>>, r)
    BY DEF NoApply
  <2> QED
    BY <1>1, <1>2, <2>1, <2>2
<1>10. ToldIsGone'
  <2> SUFFICES ASSUME NEW r \in Rule, NEW m \in told'[r]
               PROVE  /\ row[r] = NoRow /\ r \in issued
                      /\ DrainsTo(queue'[m], applied[m][r], r, NoRow)
                      /\ \A h \in Handler : Active(h) /\ job[h].rule = r => job[h].op = "delete"
                      /\ sub'[m] # NoGen => NoApply(replay'[sub'[m]].left, r)
    BY <1>3 DEF ToldIsGone, Active
  <2>1. m \in Node /\ m # n /\ m \in told[r]
    BY <1>2 DEF SyncInv, SyncTypeOK
  <2> QED
    BY <1>1, <1>2, <1>4, <2>1 DEF SyncInv, ToldIsGone
<1>11. NodesAgree'
  <2> SUFFICES ASSUME "sweep" \notin Ops, NEW m \in Node, NEW r \in Rule,
                      sub'[m] # NoGen, m \notin missed', m \in NodesOf[r], ~Owed(m, r)'
               PROVE  /\ replay'[sub'[m]].step = "send" => WillAgree(m, r)'
                      /\ m \in synced' => Agrees(m, r)'
    BY DEF NodesAgree, NodeAgrees
  <2>1. CASE m = n
    BY <1>1, <1>2, <2>1
  <2>2. CASE m # n
    <3>1. sub[m] # NoGen /\ m \notin missed /\ ~Owed(m, r)
      BY <1>1, <1>3, <2>2 DEF Owed, Owes
    <3>2. NodeAgrees(m, r)
      BY DEF SyncInv, NodesAgree
    <3> QED
      BY <1>2, <1>3, <1>4, <2>2, <3>1, <3>2 DEF NodeAgrees, WillAgree, Agrees
  <2> QED
    BY <2>1, <2>2
<1> QED
  BY <1>5, <1>6, <1>7, <1>8, <1>9, <1>10, <1>11 DEF SyncInv

LEMMA StreamsKeep == ASSUME SyncInv, NEW n \in Node, Subscribe(n) \/ Disconnect(n) PROVE SyncInv'
<1>1. CASE Subscribe(n)
  BY <1>1, StreamKeeps DEF Subscribe
<1>2. CASE Disconnect(n)
  BY <1>2, StreamKeeps DEF Disconnect
<1> QED
  BY <1>1, <1>2

LEMMA DeliverKeeps == ASSUME SyncInv, NEW n \in Node, Deliver(n) PROVE SyncInv'
<1> DEFINE c == Head(queue[n])
<1>1. /\ queue \in [Node -> Seq(Command)] /\ applied \in [Node -> [Rule -> Version]]
      /\ \A m \in Node : Len(queue[m]) <= Capacity
  BY DEF SyncInv, SyncTypeOK
<1>2. /\ queue[n] \in Seq(Command) /\ queue[n] # <<>> /\ c \in Command /\ c = queue[n][1]
      /\ Tail(queue[n]) \in Seq(Command) /\ Len(queue[n]) \in Nat /\ Len(queue[n]) > 0
      /\ Len(Tail(queue[n])) = Len(queue[n]) - 1
      /\ \A j \in 1..Len(Tail(queue[n])) : Tail(queue[n])[j] = queue[n][j + 1]
  BY <1>1 DEF Deliver
<1>3. UNCHANGED <<row, issued, jobs, job, section, sub, opened, replay, synced, missed, told>>
  BY DEF Deliver, dbVars
<1>4. /\ queue' \in [Node -> Seq(Command)] /\ queue'[n] = Tail(queue[n])
      /\ \A m \in Node : m # n => queue'[m] = queue[m] /\ applied'[m] = applied[m]
      /\ \A m \in Node : Len(queue'[m]) <= Capacity
  <2>1. queue' = [queue EXCEPT ![n] = Tail(@)]
    BY DEF Deliver
  <2>2. /\ queue' \in [Node -> Seq(Command)] /\ queue'[n] = Tail(queue[n])
        /\ \A m \in Node : m # n => queue'[m] = queue[m]
    BY <1>1, <1>2, <2>1
  <2>3. \A m \in Node : m # n => applied'[m] = applied[m]
    BY <1>1 DEF Deliver
  <2>4. Len(Tail(queue[n])) <= Capacity
    BY <1>1, <1>2, SyncAssumption
  <2> QED
    BY <1>1, <2>2, <2>3, <2>4
<1>5. \A r \in Rule : applied'[n][r] = Effect(c, r, applied[n][r])
  BY <1>1 DEF Deliver
<1>6. \A r \in Rule, v \in Version : Effect(c, r, v) \in Version
  <2>1. NoRow \in Version
    BY SyncAssumption DEF NoRow, Version
  <2> QED
    BY <1>2, <2>1 DEF Effect, Command
<1>7. applied' \in [Node -> [Rule -> Version]]
  <2>1. applied' = [applied EXCEPT ![n] = [r \in Rule |-> Effect(c, r, applied[n][r])]]
    BY DEF Deliver
  <2>2. [r \in Rule |-> Effect(c, r, applied[n][r])] \in [Rule -> Version]
    BY <1>1, <1>6
  <2> QED
    BY <1>1, <2>1, <2>2
<1> HIDE DEF c
<1>8. \A r \in Rule : \A v : DrainsTo(queue[n], applied[n][r], r, v) => DrainsTo(queue'[n], applied'[n][r], r, v)
  BY <1>2, <1>4, <1>5, HeadHandled DEF c
<1>9. SyncTypeOK'
  BY <1>3, <1>4, <1>7 DEF SyncInv, SyncTypeOK
<1>10. SectionsApart' /\ SectionsHeld' /\ OneJobPerRule' /\ JobsFit' /\ RowsIssued' /\ SubsFit'
  BY <1>3 DEF SyncInv, SectionsApart, SectionsHeld, OneJobPerRule, JobsFit, JobFits, RowsIssued,
     SubsFit, Inside, Replaying, Active
<1>11. RulesStayHome'
  <2> SUFFICES ASSUME NEW m \in Node, NEW r \in Rule, m \notin NodesOf[r]
               PROVE  applied'[m][r] = NoRow /\ NoApply(queue'[m], r)
    BY <1>3 DEF SyncInv, RulesStayHome
  <2>1. applied[m][r] = NoRow /\ NoApply(queue[m], r)
    BY DEF SyncInv, RulesStayHome
  <2>2. CASE m = n
    <3>1. ~Applies(c, r)
      BY <1>2, <2>1, <2>2 DEF NoApply
    <3>2. applied'[n][r] = NoRow
      BY <1>2, <1>5, <2>1, <2>2, <3>1, EffectOf
    <3>3. NoApply(queue'[n], r)
      <4>1. \A j \in 1..Len(queue[n]) : ~Applies(queue[n][j], r)
        BY <2>1, <2>2 DEF NoApply
      <4>2. \A j \in 1..Len(Tail(queue[n])) : j + 1 \in 1..Len(queue[n])
        BY <1>2
      <4>3. \A j \in 1..Len(Tail(queue[n])) : ~Applies(Tail(queue[n])[j], r)
        BY <1>2, <4>1, <4>2
      <4> QED
        BY <1>4, <4>3 DEF NoApply
    <3> QED
      BY <2>2, <3>2, <3>3
  <2>3. CASE m # n
    BY <1>4, <2>1, <2>3
  <2> QED
    BY <2>2, <2>3
<1>12. ToldIsGone'
  <2> SUFFICES ASSUME NEW r \in Rule, NEW m \in told[r] PROVE DrainsTo(queue'[m], applied'[m][r], r, NoRow)
    BY <1>3 DEF SyncInv, ToldIsGone, Active
  <2>1. m \in Node /\ DrainsTo(queue[m], applied[m][r], r, NoRow)
    BY DEF SyncInv, SyncTypeOK, ToldIsGone
  <2> QED
    BY <1>4, <1>8, <2>1
<1>13. NodesAgree'
  <2> SUFFICES ASSUME "sweep" \notin Ops, NEW m \in Node, NEW r \in Rule PROVE NodeAgrees(m, r)'
    BY DEF NodesAgree
  <2>1. NodeAgrees(m, r)
    BY DEF SyncInv, NodesAgree
  <2>2. Agrees(m, r) => Agrees(m, r)'
    BY <1>3, <1>4, <1>8 DEF Agrees
  <2> QED
    BY <1>3, <2>1, <2>2 DEF NodeAgrees, WillAgree, Owed, Owes
<1> QED
  BY <1>9, <1>10, <1>11, <1>12, <1>13 DEF SyncInv

-----------------------------------------------------------------------------
(* Replays. *)

\* A step of the replay g, towards its node n, that makes it next.
ReplayMoves(g, n, next) ==
  /\ n = replay[g].node /\ next.node = n /\ replay' = [replay EXCEPT ![g] = next]
  /\ next.step # "none" /\ (next.step # "send" => next.left = <<>>)
  /\ section' \in [Tasks -> SUBSET Node] /\ SectionsApart' /\ SectionsHeld'
  /\ queue' \in [Node -> Seq(Command)] /\ Len(queue'[n]) <= Capacity /\ synced' \subseteq Node
  /\ \A m \in Node : m # n => queue'[m] = queue[m] /\ (m \in synced' <=> m \in synced)
  /\ n \in synced' => sub[n] # NoGen /\ replay'[sub[n]].step = "done"
  /\ \A r \in Rule : n \notin NodesOf[r] => NoApply(queue'[n], r) /\ NoApply(next.left, r)
  /\ \A r \in Rule : n \in told[r] =>
        /\ DrainsTo(queue'[n], applied[n][r], r, NoRow)
        /\ sub[n] = g => NoApply(next.left, r)
  /\ "sweep" \notin Ops => \A r \in Rule : NodeAgrees(n, r)'
  /\ UNCHANGED <<dbVars, jobs, job, sub, opened, applied, missed, told>>

LEMMA ReplayKeeps ==
    ASSUME SyncInv, NEW g \in Gen, NEW n \in Node, NEW next \in Replay, ReplayMoves(g, n, next)
    PROVE  SyncInv'
<1> USE DEF ReplayMoves
<1>1. /\ replay' \in [Gen -> Replay] /\ replay'[g] = next
      /\ \A x \in Gen : x # g => replay'[x] = replay[x]
      /\ \A x \in Gen : replay'[x].node = replay[x].node
  BY DEF SyncInv, SyncTypeOK
<1>2. UNCHANGED <<row, issued, jobs, job, sub, opened, applied, missed, told>>
  BY DEF dbVars
<1>3. \A m \in Node : m # n /\ sub[m] # NoGen =>
          sub[m] \in Gen /\ sub[m] # g /\ replay'[sub[m]] = replay[sub[m]]
  BY <1>1 DEF SyncInv, SyncTypeOK, SubsFit
<1>4. SyncTypeOK'
  BY <1>1, <1>2 DEF SyncInv, SyncTypeOK, Tasks
<1>5. OneJobPerRule' /\ JobsFit' /\ RowsIssued'
  BY <1>2 DEF SyncInv, OneJobPerRule, JobsFit, JobFits, RowsIssued, Active
<1>6. SubsFit'
  <2>1. ASSUME NEW m \in Node, sub[m] # NoGen PROVE sub[m] <= opened /\ replay'[sub[m]].node = m
    BY <1>1, <2>1 DEF SyncInv, SubsFit, SyncTypeOK
  <2>2. ASSUME NEW m \in synced' PROVE sub[m] # NoGen /\ replay'[sub[m]].step = "done"
    BY <1>3, <2>2 DEF SyncInv, SubsFit, SyncTypeOK
  <2>3. \A x \in Gen :
            /\ replay'[x].step # "send" => replay'[x].left = <<>>
            /\ replay'[x].step # "none" => replay'[x].node \in Node
    BY <1>1 DEF SyncInv, SubsFit
  <2> QED
    BY <1>2, <2>1, <2>2, <2>3 DEF SubsFit
<1>7. RulesStayHome'
  <2> SUFFICES ASSUME NEW m \in Node, NEW r \in Rule, m \notin NodesOf[r]
               PROVE  /\ applied[m][r] = NoRow /\ NoApply(queue'[m], r)
                      /\ \A x \in Gen : replay'[x].node = m => NoApply(replay'[x].left, r)
    BY <1>2 DEF RulesStayHome
  <2>1. /\ applied[m][r] = NoRow /\ NoApply(queue[m], r)
        /\ \A x \in Gen : replay[x].node = m => NoApply(replay[x].left, r)
    BY DEF SyncInv, RulesStayHome
  <2> QED
    BY <1>1, <2>1
<1>8. ToldIsGone'
  <2> SUFFICES ASSUME NEW r \in Rule, NEW m \in told[r]
               PROVE  /\ row[r] = NoRow /\ r \in issued
                      /\ DrainsTo(queue'[m], applied[m][r], r, NoRow)
                      /\ \A h \in Handler : Active(h) /\ job[h].rule = r => job[h].op = "delete"
                      /\ sub[m] # NoGen => NoApply(replay'[sub[m]].left, r)
    BY <1>2 DEF ToldIsGone, Active
  <2>1. /\ row[r] = NoRow /\ r \in issued /\ m \in Node
        /\ DrainsTo(queue[m], applied[m][r], r, NoRow)
        /\ \A h \in Handler : Active(h) /\ job[h].rule = r => job[h].op = "delete"
        /\ sub[m] # NoGen => NoApply(replay[sub[m]].left, r)
    BY DEF SyncInv, SyncTypeOK, ToldIsGone
  <2>2. CASE m = n
    <3>1. sub[m] # NoGen => sub[m] \in Gen
      BY DEF SyncInv, SyncTypeOK
    <3> QED
      BY <1>1, <2>1, <2>2, <3>1
  <2>3. CASE m # n
    BY <1>3, <2>1, <2>3
  <2> QED
    BY <2>2, <2>3
<1>9. NodesAgree'
  <2> SUFFICES ASSUME "sweep" \notin Ops, NEW m \in Node, NEW r \in Rule, m # n PROVE NodeAgrees(m, r)'
    BY DEF NodesAgree
  <2>1. NodeAgrees(m, r)
    BY DEF SyncInv, NodesAgree
  <2> QED
    BY <1>2, <1>3, <2>1 DEF NodeAgrees, WillAgree, Agrees, Owed, Owes
<1> QED
  BY <1>4, <1>5, <1>6, <1>7, <1>8, <1>9 DEF SyncInv

\* The sections of the tasks when replay g enters its own, or leaves it.
LEMMA ReplaySections ==
    ASSUME SyncInv, NEW g \in Gen, NEW n \in Node, n = replay[g].node, NEW next \in Replay,
           replay' = [replay EXCEPT ![g] = next], next.node = n, job' = job,
           \/ section' = section /\ (Replaying(g)' => Replaying(g))
           \/ Sections!Enter(g, {n})
           \/ Sections!Exit(g) /\ ~Replaying(g)'
    PROVE  section' \in [Tasks -> SUBSET Node] /\ SectionsApart' /\ SectionsHeld'
<1>1. /\ replay'[g] = next
      /\ \A x \in Gen : x # g => replay'[x] = replay[x]
  BY DEF SyncInv, SyncTypeOK
<1>2. section \in [Tasks -> SUBSET Node] /\ g \in Tasks /\ \A h \in Handler : h # g
  BY SyncAssumption DEF SyncInv, SyncTypeOK, Tasks, Gen
<1>3. /\ section' \in [Tasks -> SUBSET Node]
      /\ \A t \in Tasks : t # g => section'[t] = section[t] /\ section[t] \cap section'[g] = {}
      /\ Replaying(g)' => section'[g] = {n}
  <2>1. CASE section' = section /\ (Replaying(g)' => Replaying(g))
    BY <1>2, <2>1 DEF SyncInv, SectionsApart, SectionsHeld
  <2>2. CASE Sections!Enter(g, {n})
    BY <1>2, <2>2 DEF Sections!Enter, Sections!Unlocked, Tasks
  <2>3. CASE Sections!Exit(g) /\ ~Replaying(g)'
    BY <1>2, <2>3 DEF Sections!Exit
  <2> QED
    BY <2>1, <2>2, <2>3
<1>4. SectionsApart'
  BY <1>3 DEF SyncInv, SectionsApart
<1>5. SectionsHeld'
  <2>1. ASSUME NEW h \in Handler, Inside(h)' PROVE section'[h] = NodesOf[job'[h].rule]
    BY <1>2, <1>3, <2>1 DEF SyncInv, SectionsHeld, Inside, Tasks
  <2>2. ASSUME NEW x \in Gen, Replaying(x)'
        PROVE  replay'[x].node \in Node /\ section'[x] = {replay'[x].node}
    <3>1. CASE x = g
      BY <1>1, <1>3, <2>2, <3>1
    <3>2. CASE x # g
      BY <1>1, <1>3, <2>2, <3>2 DEF SyncInv, SectionsHeld, Replaying, Tasks
    <3> QED
      BY <3>1, <3>2
  <2> QED
    BY <2>1, <2>2 DEF SectionsHeld
<1> QED
  BY <1>3, <1>4, <1>5

\* What the invariant says of replay g and its node.
LEMMA ReplayHas ==
    ASSUME SyncInv, NEW g \in Gen, replay[g].step # "none"
    PROVE  LET n == replay[g].node IN
           /\ replay[g] \in Replay /\ n \in Node
           /\ queue \in [Node -> Seq(Command)] /\ Len(queue[n]) <= Capacity
           /\ \A m \in Node : (m \in synced => sub[m] # NoGen /\ replay[sub[m]].step = "done")
           /\ \A r \in Rule : n \notin NodesOf[r] => NoApply(queue[n], r) /\ NoApply(replay[g].left, r)
           /\ \A r \in Rule : n \in told[r] =>
                  /\ DrainsTo(queue[n], applied[n][r], r, NoRow) /\ row[r] = NoRow
                  /\ sub[n] = g => NoApply(replay[g].left, r)
           /\ "sweep" \notin Ops => \A r \in Rule : NodeAgrees(n, r)
           /\ sub[n] \in Gen \cup {NoGen} /\ g # NoGen
           /\ synced \subseteq Node
<1> DEFINE n == replay[g].node
<1>1. replay[g] \in Replay /\ n \in Node /\ g # NoGen
  BY DEF SyncInv, SyncTypeOK, SubsFit, Gen, NoGen
<1>2. \A r \in Rule : n \in told[r] =>
          /\ DrainsTo(queue[n], applied[n][r], r, NoRow) /\ row[r] = NoRow
          /\ sub[n] = g => NoApply(replay[g].left, r)
  BY <1>1 DEF SyncInv, ToldIsGone
<1>3. \A r \in Rule : n \notin NodesOf[r] => NoApply(queue[n], r) /\ NoApply(replay[g].left, r)
  BY <1>1 DEF SyncInv, RulesStayHome
<1>4. "sweep" \notin Ops => \A r \in Rule : NodeAgrees(n, r)
  BY <1>1 DEF SyncInv, NodesAgree
<1>5. \A m \in Node : (m \in synced => sub[m] # NoGen /\ replay[sub[m]].step = "done")
  BY DEF SyncInv, SubsFit
<1>6. /\ queue \in [Node -> Seq(Command)] /\ Len(queue[n]) <= Capacity
      /\ sub[n] \in Gen \cup {NoGen} /\ synced \subseteq Node
  BY <1>1 DEF SyncInv, SyncTypeOK
<1> QED
  BY <1>1, <1>2, <1>3, <1>4, <1>5, <1>6

LEMMA ReplayLockKeeps == ASSUME SyncInv, NEW g \in Gen, ReplayLock(g) PROVE SyncInv'
<1> DEFINE next == [replay[g] EXCEPT !.step = "read"]
<1>0. replay[g].step = "lock"
  BY DEF ReplayLock
<1>n. PICK n \in Node : n = replay[g].node
  BY <1>0 DEF SyncInv, SubsFit
<1> USE <1>n
<1>1. /\ replay[g] \in Replay /\ n \in Node
      /\ queue \in [Node -> Seq(Command)] /\ Len(queue[n]) <= Capacity /\ synced \subseteq Node
      /\ \A r \in Rule : n \notin NodesOf[r] => NoApply(queue[n], r) /\ NoApply(replay[g].left, r)
      /\ \A r \in Rule : n \in told[r] =>
             /\ DrainsTo(queue[n], applied[n][r], r, NoRow)
             /\ sub[n] = g => NoApply(replay[g].left, r)
      /\ "sweep" \notin Ops => \A r \in Rule : NodeAgrees(n, r)
      /\ n \in synced => sub[n] # NoGen /\ replay[sub[n]].step = "done" /\ sub[n] # g
      /\ sub[n] # NoGen => sub[n] \in Gen
  BY <1>0, ReplayHas
<1>2. replay[g].left = <<>>
  BY <1>0 DEF SyncInv, SubsFit
<1>3. next \in Replay /\ next.node = n /\ next.step = "read" /\ next.left = <<>>
  BY <1>1, <1>2 DEF Replay
<1>4. replay' = [replay EXCEPT ![g] = next]
  BY <1>1 DEF ReplayLock, SyncInv, SyncTypeOK
<1> HIDE DEF next
<1>5. /\ replay'[g] = next
      /\ \A x \in Gen : x # g => replay'[x] = replay[x]
  BY <1>4 DEF SyncInv, SyncTypeOK
<1>6. UNCHANGED <<dbVars, jobs, job, sub, queue, opened, applied, synced, missed, told>>
  BY DEF ReplayLock, chanVars
<1>7. section' \in [Tasks -> SUBSET Node] /\ SectionsApart' /\ SectionsHeld'
  BY <1>1, <1>3, <1>4, <1>6, ReplaySections DEF ReplayLock
<1>8. ASSUME "sweep" \notin Ops, NEW r \in Rule PROVE NodeAgrees(n, r)'
  <2>1. CASE sub[n] = g
    BY <1>1, <1>3, <1>5, <1>6, <2>1 DEF NodeAgrees
  <2>2. CASE sub[n] # g
    <3>1. NodeAgrees(n, r)
      BY <1>1, <1>8
    <3> QED
      BY <1>1, <1>5, <1>6, <2>2, <3>1 DEF NodeAgrees, WillAgree, Agrees, Owed, Owes, dbVars
  <2> QED
    BY <2>1, <2>2
<1>9. /\ queue' \in [Node -> Seq(Command)] /\ Len(queue'[n]) <= Capacity /\ synced' \subseteq Node
      /\ \A m \in Node : m # n => queue'[m] = queue[m] /\ (m \in synced' <=> m \in synced)
      /\ n \in synced' => sub[n] # NoGen /\ replay'[sub[n]].step = "done"
  BY <1>1, <1>5, <1>6
<1>10. /\ \A r \in Rule : n \notin NodesOf[r] => NoApply(queue'[n], r) /\ NoApply(next.left, r)
       /\ \A r \in Rule : n \in told[r] =>
              /\ DrainsTo(queue'[n], applied[n][r], r, NoRow)
              /\ sub[n] = g => NoApply(next.left, r)
  BY <1>1, <1>2, <1>3, <1>6
<1>m. ReplayMoves(g, n, next)
  BY <1>1, <1>3, <1>4, <1>6, <1>7, <1>8, <1>9, <1>10 DEF ReplayMoves
<1> QED
  BY <1>3, <1>m, ReplayKeeps

LEMMA ReplayReadKeeps == ASSUME SyncInv, NEW g \in Gen, ReplayRead(g) PROVE SyncInv'
<1>0. replay[g].step = "read"
  BY DEF ReplayRead
<1>n. PICK n \in Node : n = replay[g].node
  BY <1>0 DEF SyncInv, SubsFit
<1> USE <1>n
<1>1. /\ replay[g] \in Replay /\ n \in Node
      /\ queue \in [Node -> Seq(Command)] /\ Len(queue[n]) <= Capacity /\ synced \subseteq Node
      /\ \A r \in Rule : n \notin NodesOf[r] => NoApply(queue[n], r)
      /\ \A r \in Rule : n \in told[r] =>
             DrainsTo(queue[n], applied[n][r], r, NoRow) /\ row[r] = NoRow
      /\ "sweep" \notin Ops => \A r \in Rule : NodeAgrees(n, r)
      /\ n \in synced => sub[n] # NoGen /\ replay[sub[n]].step = "done" /\ sub[n] # g
      /\ sub[n] # NoGen => sub[n] \in Gen
  BY <1>0, ReplayHas
<1>2. PICK ids \in Listings(RulesOf(n)) :
          replay' = [replay EXCEPT ![g].step = "send", ![g].left = Snapshot(n, ids)]
  BY DEF ReplayRead
<1> DEFINE snap == Snapshot(n, ids)
           next == [replay[g] EXCEPT !.step = "send", !.left = snap]
<1>3. /\ snap \in Seq(Command)
      /\ \A r \in Rule : row[r] = NoRow \/ n \notin NodesOf[r] => NoApply(snap, r)
      /\ \A r \in Rule : n \in NodesOf[r] => MakeIt(snap, r, row[r])
  BY SnapshotIs DEF SyncInv
<1> HIDE DEF snap
<1>4. next \in Replay /\ next.node = n /\ next.step = "send" /\ next.left = snap
  BY <1>1, <1>3 DEF Replay
<1>5. replay' = [replay EXCEPT ![g] = next]
  BY <1>1, <1>2 DEF SyncInv, SyncTypeOK, snap
<1> HIDE DEF next
<1>6. /\ replay'[g] = next
      /\ \A x \in Gen : x # g => replay'[x] = replay[x]
  BY <1>5 DEF SyncInv, SyncTypeOK
<1>7. UNCHANGED <<dbVars, row, jobs, job, section, sub, queue, opened, applied, synced, missed, told>>
  BY DEF ReplayRead, chanVars, dbVars
<1>8. section' \in [Tasks -> SUBSET Node] /\ SectionsApart' /\ SectionsHeld'
  <2>1. Replaying(g)' => Replaying(g)
    BY <1>0 DEF Replaying
  <2> QED
    BY <1>1, <1>4, <1>5, <1>7, <2>1, ReplaySections
<1>9. ASSUME "sweep" \notin Ops, NEW r \in Rule PROVE NodeAgrees(n, r)'
  <2>1. CASE sub[n] = g
    BY <1>1, <1>3, <1>4, <1>6, <1>7, <2>1 DEF NodeAgrees, WillAgree
  <2>2. CASE sub[n] # g
    <3>1. NodeAgrees(n, r)
      BY <1>1, <1>9
    <3> QED
      BY <1>1, <1>6, <1>7, <2>2, <3>1 DEF NodeAgrees, WillAgree, Agrees, Owed, Owes
  <2> QED
    BY <2>1, <2>2
<1>10. /\ queue' \in [Node -> Seq(Command)] /\ Len(queue'[n]) <= Capacity /\ synced' \subseteq Node
       /\ \A m \in Node : m # n => queue'[m] = queue[m] /\ (m \in synced' <=> m \in synced)
       /\ n \in synced' => sub[n] # NoGen /\ replay'[sub[n]].step = "done"
  BY <1>1, <1>6, <1>7
<1>11. /\ \A r \in Rule : n \notin NodesOf[r] => NoApply(queue'[n], r) /\ NoApply(next.left, r)
       /\ \A r \in Rule : n \in told[r] =>
              /\ DrainsTo(queue'[n], applied[n][r], r, NoRow)
              /\ sub[n] = g => NoApply(next.left, r)
  BY <1>1, <1>3, <1>4, <1>7
<1>m. ReplayMoves(g, n, next)
  BY <1>1, <1>4, <1>5, <1>7, <1>8, <1>9, <1>10, <1>11 DEF ReplayMoves
<1> QED
  BY <1>4, <1>m, ReplayKeeps

\* A replay ends: with all commands sent, given up, or with its stream gone.
LEMMA EndReplayKeeps ==
    ASSUME SyncInv, NEW g \in Gen, replay[g].step \in {"read", "send"}, EndReplay(g),
           \/ synced' = synced
           \/ /\ synced' = synced \cup {replay[g].node} /\ sub[replay[g].node] = g
              /\ replay[g].step = "send" /\ replay[g].left = <<>>
    PROVE  SyncInv'
<1>n. PICK n \in Node : n = replay[g].node
  BY DEF SyncInv, SubsFit
<1> USE <1>n
<1> DEFINE next == [replay[g] EXCEPT !.step = "done", !.left = <<>>]
<1>1. /\ replay[g] \in Replay /\ n \in Node
      /\ queue \in [Node -> Seq(Command)] /\ Len(queue[n]) <= Capacity /\ synced \subseteq Node
      /\ \A r \in Rule : n \notin NodesOf[r] => NoApply(queue[n], r)
      /\ \A r \in Rule : n \in told[r] => DrainsTo(queue[n], applied[n][r], r, NoRow)
      /\ "sweep" \notin Ops => \A r \in Rule : NodeAgrees(n, r)
      /\ n \in synced => sub[n] # NoGen /\ replay[sub[n]].step = "done" /\ sub[n] # g
      /\ sub[n] # NoGen => sub[n] \in Gen
      /\ g # NoGen
  BY ReplayHas
<1>2. next \in Replay /\ next.node = n /\ next.step = "done" /\ next.left = <<>>
  <2>1. <<>> \in Seq(Command)
    OBVIOUS
  <2> QED
    BY <1>1, <2>1 DEF Replay
<1>3. replay' = [replay EXCEPT ![g] = next]
  BY <1>1 DEF EndReplay, SyncInv, SyncTypeOK
<1> HIDE DEF next
<1>4. /\ replay'[g] = next
      /\ \A x \in Gen : x # g => replay'[x] = replay[x]
  BY <1>3 DEF SyncInv, SyncTypeOK
<1>5. UNCHANGED <<dbVars, row, jobs, job, sub, queue, opened, applied, missed, told>>
  BY DEF EndReplay, chanVars, dbVars
<1>6. section' \in [Tasks -> SUBSET Node] /\ SectionsApart' /\ SectionsHeld'
  <2>1. Sections!Exit(g) /\ ~Replaying(g)'
    BY <1>2, <1>4 DEF EndReplay, Replaying
  <2> QED
    BY <1>1, <1>2, <1>3, <1>5, <2>1, ReplaySections
<1>7. ASSUME "sweep" \notin Ops, NEW r \in Rule PROVE NodeAgrees(n, r)'
  <2>0. NodeAgrees(n, r)
    BY <1>1, <1>7
  <2>1. CASE sub[n] # g
    BY <1>1, <1>4, <1>5, <2>0, <2>1 DEF NodeAgrees, WillAgree, Agrees, Owed, Owes
  <2>2. CASE sub[n] = g /\ n \notin synced'
    BY <1>2, <1>4, <1>5, <2>2 DEF NodeAgrees
  <2>3. CASE sub[n] = g /\ n \in synced'
    <3>1. replay[g].step = "send" /\ replay[g].left = <<>>
      BY <1>1, <2>3
    <3>2. WillAgree(n, r) => Agrees(n, r)
      BY <2>3, <3>1 DEF WillAgree, MakeIt
    <3> QED
      BY <1>2, <1>4, <1>5, <2>0, <2>3, <3>1, <3>2 DEF NodeAgrees, Agrees, Owed, Owes
  <2> QED
    BY <2>1, <2>2, <2>3
<1>8. /\ queue' \in [Node -> Seq(Command)] /\ Len(queue'[n]) <= Capacity /\ synced' \subseteq Node
      /\ \A m \in Node : m # n => queue'[m] = queue[m] /\ (m \in synced' <=> m \in synced)
      /\ n \in synced' => sub[n] # NoGen /\ replay'[sub[n]].step = "done"
  BY <1>1, <1>2, <1>4, <1>5
<1>9. /\ \A r \in Rule : n \notin NodesOf[r] => NoApply(queue'[n], r) /\ NoApply(next.left, r)
      /\ \A r \in Rule : n \in told[r] =>
             /\ DrainsTo(queue'[n], applied[n][r], r, NoRow)
             /\ sub[n] = g => NoApply(next.left, r)
  BY <1>1, <1>2, <1>5 DEF NoApply
<1>m. ReplayMoves(g, n, next)
  BY <1>1, <1>2, <1>3, <1>5, <1>6, <1>7, <1>8, <1>9 DEF ReplayMoves
<1> QED
  BY <1>2, <1>m, ReplayKeeps

LEMMA ReplaySendKeeps == ASSUME SyncInv, NEW g \in Gen, ReplaySend(g) PROVE SyncInv'
<1>s. replay[g].step = "send"
  BY DEF ReplaySend
<1>n. PICK n \in Node : n = replay[g].node
  BY <1>s DEF SyncInv, SubsFit
<1> USE <1>n
<1> DEFINE left == replay[g].left
           c == Head(left)
           next == [replay[g] EXCEPT !.left = Tail(left)]
<1>0. replay[g].step = "send" /\ left # <<>> /\ sub[n] = g /\ Len(queue[n]) < Capacity
  BY DEF ReplaySend
<1>1. /\ replay[g] \in Replay /\ n \in Node
      /\ queue \in [Node -> Seq(Command)] /\ synced \subseteq Node
      /\ \A r \in Rule : n \notin NodesOf[r] => NoApply(queue[n], r) /\ NoApply(left, r)
      /\ \A r \in Rule : n \in told[r] =>
             DrainsTo(queue[n], applied[n][r], r, NoRow) /\ NoApply(left, r)
      /\ "sweep" \notin Ops => \A r \in Rule : NodeAgrees(n, r)
      /\ n \notin synced /\ g # NoGen
  BY <1>0, ReplayHas
<1>2. /\ left \in Seq(Command) /\ c \in Command /\ Tail(left) \in Seq(Command) /\ c = left[1]
      /\ Len(left) \in Nat /\ Len(left) > 0 /\ Len(Tail(left)) = Len(left) - 1
      /\ \A j \in 1..Len(Tail(left)) : Tail(left)[j] = left[j + 1]
  BY <1>0, <1>1 DEF Replay
<1>3. next \in Replay /\ next.node = n /\ next.step = "send" /\ next.left = Tail(left)
  BY <1>0, <1>1, <1>2 DEF Replay
<1>4. replay' = [replay EXCEPT ![g] = next]
  BY <1>1 DEF ReplaySend, SyncInv, SyncTypeOK
<1>5. /\ replay'[g] = next
      /\ \A x \in Gen : x # g => replay'[x] = replay[x]
  BY <1>4 DEF SyncInv, SyncTypeOK
<1> HIDE DEF next
<1>6. /\ queue' \in [Node -> Seq(Command)] /\ queue'[n] = Append(queue[n], c)
      /\ \A m \in Node : m # n => queue'[m] = queue[m]
      /\ Len(queue'[n]) <= Capacity /\ queue[n] \in Seq(Command)
  <2>1. queue' = [queue EXCEPT ![n] = Append(@, c)]
    BY DEF ReplaySend
  <2>2. Append(queue[n], c) \in Seq(Command) /\ Len(Append(queue[n], c)) = Len(queue[n]) + 1
        /\ Len(queue[n]) \in Nat /\ queue[n] \in Seq(Command)
    BY <1>1, <1>2
  <2> QED
    BY <1>0, <1>1, <2>1, <2>2, SyncAssumption
<1>7. UNCHANGED <<dbVars, row, jobs, job, section, sub, opened, applied, synced, missed, told>>
  BY DEF ReplaySend, dbVars
<1>8. section' \in [Tasks -> SUBSET Node] /\ SectionsApart' /\ SectionsHeld'
  <2>1. Replaying(g)' => Replaying(g)
    BY <1>0 DEF Replaying
  <2> QED
    BY <1>1, <1>3, <1>4, <1>7, <2>1, ReplaySections
<1> HIDE DEF c, left
<1>9. ASSUME NEW r \in Rule, NoApply(left, r) PROVE ~Applies(c, r) /\ NoApply(next.left, r)
  <2>1. \A j \in 1..Len(left) : ~Applies(left[j], r)
    BY <1>9 DEF NoApply
  <2>2. 1 \in 1..Len(left) /\ \A j \in 1..Len(Tail(left)) : j + 1 \in 1..Len(left)
    BY <1>2
  <2>3. \A j \in 1..Len(Tail(left)) : ~Applies(Tail(left)[j], r)
    BY <1>2, <2>1, <2>2
  <2> QED
    BY <1>2, <1>3, <2>1, <2>2, <2>3 DEF NoApply
<1>10. ASSUME "sweep" \notin Ops, NEW r \in Rule PROVE NodeAgrees(n, r)'
  <2> SUFFICES ASSUME n \notin missed, n \in NodesOf[r], ~Owed(n, r) PROVE WillAgree(n, r)'
    BY <1>1, <1>7 DEF NodeAgrees, Owed, Owes
  <2>1. WillAgree(n, r)
    BY <1>0, <1>1, <1>10 DEF NodeAgrees
  <2>2. MakeIt(left, r, row[r]) \/ (Untouched(left, r) /\ DrainsTo(queue[n], applied[n][r], r, row[r]))
    BY <1>0, <2>1 DEF WillAgree, Agrees, left
  <2>3. left # <<>>
    BY <1>0 DEF left
  <2>4. \/ MakeIt(Tail(left), r, row[r])
        \/ Untouched(Tail(left), r) /\ DrainsTo(Append(queue[n], c), applied[n][r], r, row[r])
    BY <1>2, <1>6, <2>2, <2>3, HeadMoves DEF c
  <2> QED
    BY <1>0, <1>3, <1>5, <1>6, <1>7, <2>4 DEF WillAgree, Agrees
<1>11. /\ synced' \subseteq Node
       /\ \A m \in Node : m # n => queue'[m] = queue[m] /\ (m \in synced' <=> m \in synced)
       /\ n \notin synced'
  BY <1>1, <1>6, <1>7
<1>12. \A r \in Rule : n \notin NodesOf[r] => NoApply(queue'[n], r) /\ NoApply(next.left, r)
  BY <1>1, <1>2, <1>6, <1>9, ApplyFreeAppended
<1>13. \A r \in Rule : n \in told[r] =>
           /\ DrainsTo(queue'[n], applied[n][r], r, NoRow)
           /\ sub[n] = g => NoApply(next.left, r)
  BY <1>1, <1>2, <1>6, <1>9, RemovedStays
<1>m. ReplayMoves(g, n, next)
  BY <1>1, <1>3, <1>4, <1>6, <1>7, <1>8, <1>10, <1>11, <1>12, <1>13 DEF ReplayMoves
<1> QED
  BY <1>3, <1>m, ReplayKeeps

-----------------------------------------------------------------------------
LEMMA SyncStep == ASSUME Serial, SyncInv, [SyncNext]_syncVars PROVE SyncInv'
<1>1. ASSUME NEW h \in Handler, Continue(h) \/ Abandon(h) PROVE SyncInv'
  BY <1>1, WriteKeeps, RereadKeeps, LockKeeps, SoftDeleteKeeps, FinishKeeps, PushKeeps, AbandonKeeps
     DEF Continue
<1>2. ASSUME NEW h \in Handler, NEW r \in Rule,
             BeginCreate(h, r) \/ \E o \in Ops : BeginChange(h, o, r)
      PROVE  SyncInv'
  BY <1>2, BeginCreateKeeps, BeginChangeKeeps
<1>3. ASSUME NEW n \in Node, Subscribe(n) \/ Disconnect(n) \/ Deliver(n) PROVE SyncInv'
  BY <1>3, StreamsKeep, DeliverKeeps
<1>4. ASSUME NEW g \in Gen, ReplayStep(g) \/ ReplayFail(g) PROVE SyncInv'
  <2>1. CASE ReplayLock(g)
    BY <2>1, ReplayLockKeeps
  <2>2. CASE ReplayRead(g)
    BY <2>2, ReplayReadKeeps
  <2>3. CASE ReplaySend(g)
    BY <2>3, ReplaySendKeeps
  <2>4. CASE ReplayDone(g)
    BY <2>4, EndReplayKeeps DEF ReplayDone
  <2>5. CASE ReplayAbort(g)
    BY <2>5, EndReplayKeeps DEF ReplayAbort
  <2>6. CASE ReplayFail(g)
    BY <2>6, EndReplayKeeps DEF ReplayFail
  <2> QED
    BY <1>4, <2>1, <2>2, <2>3, <2>4, <2>5, <2>6 DEF ReplayStep
<1>5. CASE UNCHANGED syncVars
  BY <1>5 DEF syncVars, SyncInv, SyncTypeOK, SectionsApart, SectionsHeld, OneJobPerRule, JobsFit, JobFits,
     RowsIssued, SubsFit, RulesStayHome, ToldIsGone, NodesAgree, NodeAgrees, WillAgree, Agrees, Owed, Owes,
     Inside, Replaying, Active
<1> QED
  BY <1>1, <1>2, <1>3, <1>4, <1>5 DEF SyncNext

\* The rows, the jobs, the sections, the channels, the replays and the agents fit
\* together, as long as the requests on one rule do not overlap.
THEOREM SyncInvariant == ASSUME Serial PROVE SyncSpec => []SyncInv
<1>1. SyncInit => SyncInv
  BY InitSync
<1>2. SyncInv /\ [SyncNext]_syncVars => SyncInv'
  BY SyncStep
<1> QED
  BY <1>1, <1>2, PTL DEF SyncSpec

\* A removal that delete answered as dispatched is final: no replay and no later
\* job on the rule brings it back while the node stays connected.
THEOREM DispatchedIsFinal == ASSUME Serial PROVE SyncSpec => []DispatchedMeansDeleted
<1>1. SyncInv => DispatchedMeansDeleted
  BY DEF SyncInv, ToldIsGone, DispatchedMeansDeleted
<1> QED
  BY <1>1, SyncInvariant, PTL

\* A node whose replay is complete and that refused no push runs exactly the rows of
\* the database once nothing is under way, when every job takes the node locks.
THEOREM NodesConverge ==
    ASSUME Serial, "sweep" \notin Ops PROVE SyncSpec => []Converged
<1>1. ASSUME SyncInv PROVE Converged
  <2> SUFFICES ASSUME NEW n \in Node, n \in synced \ missed, Quiet(n), NEW r \in Rule
               PROVE  applied[n][r] = IF n \in NodesOf[r] THEN row[r] ELSE NoRow
    BY DEF Converged
  <2>1. CASE n \notin NodesOf[r]
    BY <1>1, <2>1 DEF SyncInv, RulesStayHome
  <2>2. CASE n \in NodesOf[r]
    <3>1. NodeAgrees(n, r) /\ sub[n] # NoGen
      BY <1>1 DEF SyncInv, NodesAgree, SubsFit
    <3>2. ~Owed(n, r)
      BY <2>2 DEF Quiet, Owed, Owes
    <3>3. DrainsTo(queue[n], applied[n][r], r, row[r])
      BY <2>2, <3>1, <3>2 DEF NodeAgrees, Agrees
    <3>4. queue[n] = <<>> /\ Len(queue[n]) = 0
      BY DEF Quiet
    <3>5. ~MakeIt(queue[n], r, row[r])
      BY <3>4 DEF MakeIt
    <3> QED
      BY <2>2, <3>3, <3>5 DEF DrainsTo
  <2> QED
    BY <2>1, <2>2
<1> QED
  BY <1>1, SyncInvariant, PTL

=============================================================================
