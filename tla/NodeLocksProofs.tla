-------------------------- MODULE NodeLocksProofs --------------------------
(***************************************************************************)
(* Invariants of the per-node serial locks, proved for every finite or     *)
(* infinite set of tasks and every set of node ids.                        *)
(***************************************************************************)
EXTENDS NodeLocks, WellFoundedInduction, TLAPS

\* Sorting the ids makes sense: a non-empty set of node ids has a least element.
LEMMA LeastExists ==
  ASSUME NEW S, S \subseteq Nat, S # {}
  PROVE  /\ Least(S) \in S
         /\ \A m \in S : Least(S) <= m
<1>1. PICK x \in S : \A y \in S : ~ (<<y, x>> \in OpToRel(<, Nat))
  BY NatLessThanWellFounded, WFMin
<1>2. ASSUME NEW y \in S PROVE x <= y
  <2>1. ASSUME y < x PROVE FALSE
    <3>1. y \in Nat /\ x \in Nat /\ <<y, x>> \in Nat \X Nat
      OBVIOUS
    <3>2. <<y, x>>[1] < <<y, x>>[2]
      BY <2>1
    <3>3. <<y, x>> \in OpToRel(<, Nat)
      BY <3>1, <3>2, Zenon DEF OpToRel
    <3> QED
      BY <1>1, <3>3
  <2> QED
    BY <2>1
<1>3. \E n \in S : \A m \in S : n <= m
  BY <1>2
<1> QED
  BY <1>3 DEF Least

\* A dropped future leaves every queue, and the others keep their order.
LEMMA LeaveQueue ==
  ASSUME NEW q \in Seq(Task), NEW t,
         \A i, j \in DOMAIN q : q[i] = q[j] => i = j
  PROVE  /\ Leave(q, t) \in Seq(Task)
         /\ Queued(Leave(q, t)) = Queued(q) \ {t}
         /\ \A i, j \in DOMAIN Leave(q, t) : Leave(q, t)[i] = Leave(q, t)[j] => i = j
         /\ Leave(q, t) # <<>> => q # <<>>
<1>1. CASE t \notin Queued(q)
  BY <1>1 DEF Leave
<1>2. CASE t \in Queued(q)
  <2> DEFINE p == CHOOSE i \in DOMAIN q : q[i] = t
             r == [i \in 1..(Len(q) - 1) |-> IF i < p THEN q[i] ELSE q[i + 1]]
  <2>1. p \in 1..Len(q) /\ q[p] = t
    BY <1>2 DEF Queued
  <2>2. Leave(q, t) = r
    BY <1>2 DEF Leave
  <2> HIDE DEF p
  <2>3. r \in Seq(Task) /\ Len(r) = Len(q) - 1 /\ DOMAIN r = 1..(Len(q) - 1)
    <3>1. \A i \in 1..(Len(q) - 1) : (IF i < p THEN q[i] ELSE q[i + 1]) \in Task
      OBVIOUS
    <3> QED
      BY <2>1, <3>1
  <2>4. Queued(r) \subseteq Queued(q) \ {t}
    BY <2>1, <2>3 DEF Queued
  <2>5. ASSUME NEW u \in Queued(q) \ {t} PROVE u \in Queued(r)
    <3>1. PICK i \in DOMAIN q : q[i] = u
      BY DEF Queued
    <3>2. CASE i < p
      <4>1. i \in 1..(Len(q) - 1) /\ r[i] = u
        BY <2>1, <3>1, <3>2
      <4> QED
        BY <2>3, <4>1 DEF Queued
    <3>3. CASE i > p
      <4>1. i - 1 \in 1..(Len(q) - 1) /\ r[i - 1] = u
        BY <2>1, <3>1, <3>3
      <4> QED
        BY <2>3, <4>1 DEF Queued
    <3> QED
      BY <2>1, <3>1, <3>2, <3>3
  <2>6. \A i, j \in DOMAIN r : r[i] = r[j] => i = j
    BY <2>1, <2>3
  <2>7. q # <<>>
    BY <2>1
  <2> QED
    BY <2>2, <2>3, <2>4, <2>5, <2>6, <2>7
<1> QED
  BY <1>1, <1>2

LEMMA LocksInitInv == LocksInit => LocksInv
<1> SUFFICES ASSUME LocksInit PROVE LocksInv
  OBVIOUS
<1> USE DEF LocksInit
<1>1. LocksTypeOK
  BY DEF LocksTypeOK, Phase
<1>2. TodoMatchesPhase /\ GuardsKept
  BY DEF TodoMatchesPhase, GuardsKept
<1>3. GuardsBelowTodo
  BY TaskAssumption DEF GuardsBelowTodo
<1>4. WaitsForNext /\ QueuedOnce /\ NoForgottenWaiter
  BY DEF WaitsForNext, QueuedOnce, NoForgottenWaiter, Waiting, Queued
<1> QED
  BY <1>1, <1>2, <1>3, <1>4 DEF LocksInv

LEMMA NextNodeLeast ==
  ASSUME LocksInv, NEW t \in Task, phase[t] = "acquiring"
  PROVE  /\ NextNode(t) \in todo[t]
         /\ NextNode(t) \in Node
         /\ \A m \in todo[t] : NextNode(t) <= m
<1>1. todo[t] # {} /\ todo[t] \subseteq Node /\ todo[t] \subseteq Nat
  BY NodeAssumption DEF LocksInv, LocksTypeOK, TodoMatchesPhase
<1> QED
  BY <1>1, LeastExists DEF NextNode

LEMMA LockNodesInv ==
  ASSUME LocksInv, NEW t \in Task, NEW S \in SUBSET Node, LockNodes(t, S)
  PROVE  LocksInv'
<1> USE DEF LocksInv, LockNodes
<1>1. LocksTypeOK'
  BY DEF LocksTypeOK, Phase
<1>2. TodoMatchesPhase'
  BY DEF LocksTypeOK, TodoMatchesPhase
<1>3. GuardsBelowTodo' /\ GuardsKept'
  BY DEF LocksTypeOK, GuardsBelowTodo, GuardsKept
<1>4. WaitsForNext'
  BY DEF LocksTypeOK, WaitsForNext, TodoMatchesPhase, Waiting
<1>5. QueuedOnce' /\ NoForgottenWaiter'
  BY DEF QueuedOnce, NoForgottenWaiter
<1> QED
  BY <1>1, <1>2, <1>3, <1>4, <1>5

LEMMA TakeFreeInv ==
  ASSUME LocksInv, NEW t \in Task, TakeFree(t)
  PROVE  LocksInv'
<1> DEFINE n == NextNode(t)
<1>1. n \in todo[t] /\ n \in Node /\ \A m \in todo[t] : n <= m
  BY NextNodeLeast DEF TakeFree
<1>2. /\ phase[t] = "acquiring"
      /\ owner[n] = NoTask
      /\ owner' = [owner EXCEPT ![n] = t]
      /\ todo' = [todo EXCEPT ![t] = @ \ {n}]
      /\ phase' = [phase EXCEPT ![t] = IF todo[t] = {n} THEN "holding" ELSE @]
      /\ UNCHANGED <<waiters, wanted>>
  BY DEF TakeFree, Acquired
<1>3. \A m \in Node : todo[t] \subseteq Nat /\ m \in Nat
  BY NodeAssumption DEF LocksInv, LocksTypeOK
<1> HIDE DEF n
<1> USE DEF LocksInv
<1>4. LocksTypeOK'
  BY <1>1, <1>2 DEF LocksTypeOK, Phase
<1>5. TodoMatchesPhase'
  BY <1>1, <1>2 DEF LocksTypeOK, TodoMatchesPhase
<1>6. GuardsBelowTodo'
  BY <1>1, <1>2, <1>3, TaskAssumption
  DEF LocksTypeOK, GuardsBelowTodo, TodoMatchesPhase
<1>7. GuardsKept'
  BY <1>1, <1>2, TaskAssumption DEF LocksTypeOK, GuardsKept
<1>8. WaitsForNext'
  BY <1>1, <1>2, TaskAssumption
  DEF LocksTypeOK, WaitsForNext, NoForgottenWaiter, Waiting, Queued
<1>9. QueuedOnce' /\ NoForgottenWaiter'
  BY <1>1, <1>2, TaskAssumption DEF LocksTypeOK, QueuedOnce, NoForgottenWaiter
<1> QED
  BY <1>4, <1>5, <1>6, <1>7, <1>8, <1>9

LEMMA EnqueueInv ==
  ASSUME LocksInv, NEW t \in Task, Enqueue(t)
  PROVE  LocksInv'
<1> DEFINE n == NextNode(t)
<1>1. n \in todo[t] /\ n \in Node /\ \A m \in todo[t] : n <= m
  BY NextNodeLeast DEF Enqueue
<1>2. /\ owner[n] # NoTask
      /\ t \notin Queued(waiters[n])
      /\ waiters' = [waiters EXCEPT ![n] = Append(@, t)]
      /\ UNCHANGED <<owner, wanted, todo, phase>>
  BY DEF Enqueue, Waiting
<1> HIDE DEF n
<1> USE DEF LocksInv
<1>3. waiters[n] \in Seq(Task)
  BY <1>1 DEF LocksTypeOK
<1>4. LocksTypeOK'
  BY <1>1, <1>2, <1>3 DEF LocksTypeOK
<1>5. TodoMatchesPhase' /\ GuardsBelowTodo' /\ GuardsKept'
  BY <1>2 DEF TodoMatchesPhase, GuardsBelowTodo, GuardsKept
<1>6. \A u \in Task : u \in Queued(Append(waiters[n], t)) => u = t \/ u \in Queued(waiters[n])
  BY <1>3 DEF Queued
<1>7. WaitsForNext'
  BY <1>1, <1>2, <1>6 DEF LocksTypeOK, WaitsForNext, Waiting
<1>8. \A i, j \in DOMAIN Append(waiters[n], t) :
        Append(waiters[n], t)[i] = Append(waiters[n], t)[j] => i = j
  BY <1>1, <1>2, <1>3 DEF QueuedOnce, Queued
<1>9. QueuedOnce'
  BY <1>1, <1>2, <1>8 DEF LocksTypeOK, QueuedOnce
<1>10. NoForgottenWaiter'
  BY <1>1, <1>2 DEF LocksTypeOK, NoForgottenWaiter
<1> QED
  BY <1>4, <1>5, <1>7, <1>9, <1>10

LEMMA UnlockInv ==
  ASSUME LocksInv, NEW t \in Task, Unlock(t)
  PROVE  LocksInv'
<1> USE DEF LocksInv, Unlock
<1>1. LocksTypeOK' /\ TodoMatchesPhase'
  BY DEF LocksTypeOK, Phase, TodoMatchesPhase
<1>2. GuardsBelowTodo' /\ GuardsKept'
  BY DEF LocksTypeOK, GuardsBelowTodo, GuardsKept
<1>3. WaitsForNext' /\ QueuedOnce' /\ NoForgottenWaiter'
  BY DEF WaitsForNext, QueuedOnce, NoForgottenWaiter, Waiting
<1> QED
  BY <1>1, <1>2, <1>3

LEMMA FinishInv ==
  ASSUME LocksInv, NEW t \in Task, Finish(t)
  PROVE  LocksInv'
<1> USE DEF LocksInv, Finish
<1>1. LocksTypeOK' /\ TodoMatchesPhase'
  BY DEF LocksTypeOK, Phase, TodoMatchesPhase
<1>2. GuardsBelowTodo' /\ GuardsKept'
  BY DEF LocksTypeOK, GuardsBelowTodo, GuardsKept, HeldBy
<1>3. WaitsForNext' /\ QueuedOnce' /\ NoForgottenWaiter'
  BY DEF WaitsForNext, QueuedOnce, NoForgottenWaiter, Waiting
<1> QED
  BY <1>1, <1>2, <1>3

\* A hand-over gives the head of the queue the guard it waited for.
LEMMA DropGuardInv ==
  ASSUME LocksInv, NEW t \in Task, DropGuard(t)
  PROVE  LocksInv'
<1> DEFINE n == Least(HeldBy(t))
<1>1. n \in Node /\ owner[n] = t
  <2>1. HeldBy(t) \subseteq Nat /\ HeldBy(t) # {}
    BY NodeAssumption DEF HeldBy, DropGuard
  <2> QED
    BY <2>1, LeastExists DEF HeldBy
<1>2. phase[t] = "releasing" /\ todo[t] = {}
  BY DEF DropGuard, LocksInv, TodoMatchesPhase
<1>3. CASE waiters[n] = <<>>
  <2>1. owner' = [owner EXCEPT ![n] = NoTask] /\ UNCHANGED <<waiters, wanted, todo, phase>>
    BY <1>3 DEF DropGuard
  <2> HIDE DEF n
  <2> USE DEF LocksInv
  <2>2. LocksTypeOK' /\ TodoMatchesPhase'
    BY <2>1 DEF LocksTypeOK, TodoMatchesPhase
  <2>3. GuardsBelowTodo'
    BY <2>1, <1>1, TaskAssumption DEF LocksTypeOK, GuardsBelowTodo
  <2>4. GuardsKept'
    BY <2>1, <1>1, <1>2 DEF LocksTypeOK, GuardsKept
  <2>5. WaitsForNext' /\ QueuedOnce' /\ NoForgottenWaiter'
    BY <2>1, <1>1, <1>3 DEF LocksTypeOK, WaitsForNext, QueuedOnce, NoForgottenWaiter, Waiting
  <2> QED
    BY <2>2, <2>3, <2>4, <2>5
<1>4. CASE waiters[n] # <<>>
  <2> DEFINE u == Head(waiters[n])
  <2>1. /\ owner' = [owner EXCEPT ![n] = u]
        /\ waiters' = [waiters EXCEPT ![n] = Tail(@)]
        /\ todo' = [todo EXCEPT ![u] = @ \ {n}]
        /\ phase' = [phase EXCEPT ![u] = IF todo[u] = {n} THEN "holding" ELSE @]
        /\ UNCHANGED wanted
    BY <1>4 DEF DropGuard, Acquired
  <2> HIDE DEF n
  <2>2. waiters[n] \in Seq(Task) /\ u = waiters[n][1] /\ u \in Task /\ 1 \in DOMAIN waiters[n]
    BY <1>1, <1>4 DEF LocksInv, LocksTypeOK
  <2>3. n \in todo[u] /\ (\A m \in todo[u] : n <= m) /\ phase[u] = "acquiring"
    <3>1. Waiting(u, n)
      BY <2>2 DEF Waiting, Queued
    <3> QED
      BY <3>1, <2>2, <1>1 DEF LocksInv, WaitsForNext, TodoMatchesPhase
  <2>4. /\ Tail(waiters[n]) \in Seq(Task)
        /\ \A v \in Queued(Tail(waiters[n])) : v \in Queued(waiters[n]) /\ v # u
        /\ \A i, j \in DOMAIN Tail(waiters[n]) :
             Tail(waiters[n])[i] = Tail(waiters[n])[j] => i = j
    <3>1. \A i \in DOMAIN Tail(waiters[n]) :
            i + 1 \in DOMAIN waiters[n] /\ Tail(waiters[n])[i] = waiters[n][i + 1] /\ i + 1 # 1
      BY <2>2, <1>4
    <3>2. \A i, j \in DOMAIN waiters[n] : waiters[n][i] = waiters[n][j] => i = j
      BY <1>1 DEF LocksInv, QueuedOnce
    <3>3. Tail(waiters[n]) \in Seq(Task)
      BY <2>2, <1>4
    <3>4. \A v \in Queued(Tail(waiters[n])) : v \in Queued(waiters[n]) /\ v # u
      BY <2>2, <3>1, <3>2 DEF Queued
    <3>5. \A i, j \in DOMAIN Tail(waiters[n]) :
             Tail(waiters[n])[i] = Tail(waiters[n])[j] => i = j
      <4> SUFFICES ASSUME NEW i \in DOMAIN Tail(waiters[n]), NEW j \in DOMAIN Tail(waiters[n]),
                          Tail(waiters[n])[i] = Tail(waiters[n])[j]
                   PROVE  i = j
        OBVIOUS
      <4>1. i + 1 = j + 1
        BY <3>1, <3>2
      <4>2. i \in Int /\ j \in Int
        BY <3>3
      <4> QED
        BY <4>1, <4>2
    <3> QED
      BY <3>3, <3>4, <3>5
  <2>5. \A v \in Task : todo[v] \subseteq Nat
    BY NodeAssumption DEF LocksInv, LocksTypeOK
  <2> HIDE DEF u
  <2> USE DEF LocksInv
  <2>6. LocksTypeOK'
    BY <2>1, <2>2, <2>4, <1>1 DEF LocksTypeOK, Phase
  <2>7. TodoMatchesPhase'
    BY <2>1, <2>2, <2>3 DEF LocksTypeOK, TodoMatchesPhase
  <2>8. GuardsBelowTodo'
    <3>1. \A m \in todo[u] \ {n} : n < m
      BY <2>3, <2>5, <2>2, <1>1, NodeAssumption
    <3> QED
      BY <2>1, <2>2, <2>3, <3>1, <1>1 DEF LocksTypeOK, GuardsBelowTodo, TodoMatchesPhase
  <2>9. GuardsKept'
    BY <2>1, <2>2, <2>3, <1>1, <1>2 DEF LocksTypeOK, GuardsKept
  <2>10. WaitsForNext'
    <3> SUFFICES ASSUME NEW v \in Task, NEW m \in Node, Waiting(v, m)'
                 PROVE  m \in todo'[v] /\ \A k \in todo'[v] : m <= k
      BY DEF WaitsForNext
    <3>1. Waiting(v, m)
      BY <2>1, <2>4, <1>1 DEF LocksTypeOK, Waiting
    <3>2. m \in todo[v] /\ \A k \in todo[v] : m <= k
      BY <3>1 DEF WaitsForNext
    <3>3. v = u => m # n
      BY <2>1, <2>4, <1>1 DEF LocksTypeOK, Waiting
    <3> QED
      BY <3>2, <3>3, <2>1, <2>2 DEF LocksTypeOK
  <2>11. QueuedOnce'
    BY <2>1, <2>4, <1>1 DEF LocksTypeOK, QueuedOnce
  <2>12. NoForgottenWaiter'
    BY <2>1, <2>2, <1>1, TaskAssumption DEF LocksTypeOK, NoForgottenWaiter
  <2> QED
    BY <2>6, <2>7, <2>8, <2>9, <2>10, <2>11, <2>12
<1> QED
  BY <1>3, <1>4

LEMMA CancelInv ==
  ASSUME LocksInv, NEW t \in Task, Cancel(t)
  PROVE  LocksInv'
<1>1. /\ phase[t] = "acquiring"
      /\ waiters' = [n \in Node |-> Leave(waiters[n], t)]
      /\ todo' = [todo EXCEPT ![t] = {}]
      /\ phase' = [phase EXCEPT ![t] = "releasing"]
      /\ UNCHANGED <<owner, wanted>>
  BY DEF Cancel
<1>2. \A n \in Node :
        /\ waiters'[n] \in Seq(Task)
        /\ Queued(waiters'[n]) = Queued(waiters[n]) \ {t}
        /\ \A i, j \in DOMAIN waiters'[n] : waiters'[n][i] = waiters'[n][j] => i = j
        /\ waiters'[n] # <<>> => waiters[n] # <<>>
  <2> SUFFICES ASSUME NEW n \in Node
               PROVE  /\ Leave(waiters[n], t) \in Seq(Task)
                      /\ Queued(Leave(waiters[n], t)) = Queued(waiters[n]) \ {t}
                      /\ \A i, j \in DOMAIN Leave(waiters[n], t) :
                           Leave(waiters[n], t)[i] = Leave(waiters[n], t)[j] => i = j
                      /\ Leave(waiters[n], t) # <<>> => waiters[n] # <<>>
    BY <1>1
  <2>1. waiters[n] \in Seq(Task)
    BY DEF LocksInv, LocksTypeOK
  <2>2. \A i, j \in DOMAIN waiters[n] : waiters[n][i] = waiters[n][j] => i = j
    BY DEF LocksInv, QueuedOnce
  <2> QED
    BY <2>1, <2>2, LeaveQueue
<1> USE DEF LocksInv
<1>3. LocksTypeOK'
  <2>1. waiters' \in [Node -> Seq(Task)]
    BY <1>1, <1>2
  <2> QED
    BY <1>1, <2>1 DEF LocksTypeOK, Phase
<1>4. TodoMatchesPhase' /\ GuardsBelowTodo' /\ GuardsKept'
  BY <1>1 DEF LocksTypeOK, TodoMatchesPhase, GuardsBelowTodo, GuardsKept
<1>5. WaitsForNext'
  BY <1>1, <1>2 DEF LocksTypeOK, WaitsForNext, Waiting
<1>6. QueuedOnce' /\ NoForgottenWaiter'
  BY <1>1, <1>2 DEF QueuedOnce, NoForgottenWaiter
<1> QED
  BY <1>3, <1>4, <1>5, <1>6

LEMMA LocksNextInv == LocksInv /\ [LocksNext]_lockVars => LocksInv'
<1> SUFFICES ASSUME LocksInv, [LocksNext]_lockVars PROVE LocksInv'
  OBVIOUS
<1>1. CASE UNCHANGED lockVars
  BY <1>1 DEF lockVars, LocksInv, LocksTypeOK, TodoMatchesPhase, GuardsBelowTodo, GuardsKept,
              WaitsForNext, Waiting, QueuedOnce, NoForgottenWaiter
<1>2. CASE LocksNext
  <2> PICK t \in Task : (\E S \in SUBSET Node : LockNodes(t, S)) \/ TaskStep(t) \/ Cancel(t)
    BY <1>2 DEF LocksNext
  <2>1. CASE \E S \in SUBSET Node : LockNodes(t, S)
    BY <2>1, LockNodesInv
  <2>2. CASE TakeFree(t)
    BY <2>2, TakeFreeInv
  <2>3. CASE Enqueue(t)
    BY <2>3, EnqueueInv
  <2>4. CASE Unlock(t)
    BY <2>4, UnlockInv
  <2>5. CASE DropGuard(t)
    BY <2>5, DropGuardInv
  <2>6. CASE Finish(t)
    BY <2>6, FinishInv
  <2>7. CASE Cancel(t)
    BY <2>7, CancelInv
  <2> QED
    BY <2>1, <2>2, <2>3, <2>4, <2>5, <2>6, <2>7 DEF TaskStep
<1> QED
  BY <1>1, <1>2

\* The inductive invariant of lock_nodes: a task holds guards only below the nodes
\* it still lacks, keeps them until its section ends and waits on its next node only.
THEOREM LocksInvariant == LocksSpec => []LocksInv
  BY LocksInitInv, LocksNextInv, PTL DEF LocksSpec

LEMMA InvImpliesExclusive == LocksInv => ExclusiveSections
  BY DEF LocksInv, TodoMatchesPhase, GuardsKept, ExclusiveSections, LocksTypeOK

\* Sections of different tasks never share a node (the critical sections of a rule
\* delete and of a reconcile replay exclude each other).
THEOREM LocksExclude == LocksSpec => []ExclusiveSections
  BY LocksInvariant, InvImpliesExclusive, PTL

LEMMA InvImpliesAscending == LocksInv => AscendingWaits
  BY DEF LocksInv, GuardsBelowTodo, WaitsForNext, AscendingWaits

\* Whatever sets of nodes the tasks lock, awaited node ids grow along every chain of
\* waiting tasks: no ring of handlers and reconcile tasks can wait on each other.
THEOREM LocksAscend == LocksSpec => []AscendingWaits
<1>1. LocksInv => AscendingWaits
  BY InvImpliesAscending
<1> QED
  BY LocksInvariant, <1>1, PTL

\* A task whose last mutex is acquired enters its section.
LEMMA LastMutexEnters ==
  ASSUME LocksInv', NEW t \in Task, InSection[t] = {}, wanted'[t] \subseteq Node,
         InSection' = [InSection EXCEPT ![t] = wanted'[t]]
  PROVE  Sections!SectionsNext
<1>1. ExclusiveSections'
  BY DEF LocksInv, TodoMatchesPhase, GuardsKept, ExclusiveSections, LocksTypeOK
<1>2. \A u \in Task : InSection[u] \cap wanted'[t] = {}
  <2> SUFFICES ASSUME NEW u \in Task, u # t PROVE InSection[u] \cap wanted'[t] = {}
    OBVIOUS
  <2>1. InSection'[u] = InSection[u] /\ InSection'[t] = wanted'[t]
    BY DEF InSection
  <2> QED
    BY <1>1, <2>1 DEF ExclusiveSections, InSection
<1>3. Sections!Enter(t, wanted'[t])
  BY <1>2 DEF Sections!Enter, Sections!Unlocked
<1> QED
  BY <1>3 DEF Sections!SectionsNext

LEMMA LocksStepSections ==
  ASSUME LocksInv, LocksInv', [LocksNext]_lockVars
  PROVE  [Sections!SectionsNext]_InSection
<1> USE DEF LocksInv
<1>1. CASE UNCHANGED lockVars
  BY <1>1 DEF lockVars, InSection
<1>2. ASSUME NEW t \in Task, NEW S \in SUBSET Node, LockNodes(t, S)
      PROVE  UNCHANGED InSection
  BY <1>2 DEF LockNodes, InSection, LocksTypeOK
<1>3. ASSUME NEW t \in Task, TakeFree(t)
      PROVE  [Sections!SectionsNext]_InSection
  <2>1. /\ phase[t] = "acquiring"
        /\ phase' = [phase EXCEPT ![t] = IF todo[t] = {NextNode(t)} THEN "holding" ELSE @]
        /\ wanted' = wanted
    BY <1>3 DEF TakeFree, Acquired
  <2>2. CASE todo[t] = {NextNode(t)}
    <3>1. InSection[t] = {} /\ InSection' = [InSection EXCEPT ![t] = wanted'[t]]
      BY <2>1, <2>2 DEF InSection, LocksTypeOK
    <3> QED
      BY <3>1, <2>1, LastMutexEnters DEF LocksTypeOK
  <2>3. CASE todo[t] # {NextNode(t)}
    BY <2>1, <2>3 DEF InSection, LocksTypeOK
  <2> QED
    BY <2>2, <2>3
<1>4. ASSUME NEW t \in Task, DropGuard(t)
      PROVE  [Sections!SectionsNext]_InSection
  <2> DEFINE n == Least(HeldBy(t))
             u == Head(waiters[n])
  <2>1. n \in Node
    <3>1. HeldBy(t) \subseteq Nat /\ HeldBy(t) # {}
      BY <1>4, NodeAssumption DEF HeldBy, DropGuard
    <3> QED
      BY <3>1, LeastExists DEF HeldBy
  <2>2. CASE waiters[n] = <<>>
    BY <1>4, <2>2 DEF DropGuard, InSection
  <2>3. CASE waiters[n] # <<>>
    <3>1. /\ phase' = [phase EXCEPT ![u] = IF todo[u] = {n} THEN "holding" ELSE @]
          /\ wanted' = wanted
      BY <1>4, <2>3 DEF DropGuard, Acquired
    <3>2. u \in Task /\ phase[u] = "acquiring"
      <4>1. waiters[n] \in Seq(Task) /\ 1 \in DOMAIN waiters[n] /\ u = waiters[n][1]
        BY <2>1, <2>3 DEF LocksTypeOK
      <4>2. Waiting(u, n) /\ u \in Task
        BY <4>1 DEF Waiting, Queued
      <4> QED
        BY <4>2, <2>1 DEF WaitsForNext, TodoMatchesPhase
    <3> HIDE DEF n, u
    <3>3. CASE todo[u] = {n}
      <4>1. InSection[u] = {} /\ InSection' = [InSection EXCEPT ![u] = wanted'[u]]
        BY <3>1, <3>2, <3>3 DEF InSection, LocksTypeOK
      <4> QED
        BY <4>1, <3>1, <3>2, LastMutexEnters DEF LocksTypeOK
    <3>4. CASE todo[u] # {n}
      BY <3>1, <3>2, <3>4 DEF InSection, LocksTypeOK
    <3> QED
      BY <3>3, <3>4
  <2> QED
    BY <2>2, <2>3
<1>5. ASSUME NEW t \in Task, Unlock(t)
      PROVE  Sections!SectionsNext
  <2>1. Sections!Exit(t)
    BY <1>5 DEF Unlock, Sections!Exit, InSection, LocksTypeOK
  <2> QED
    BY <2>1 DEF Sections!SectionsNext
<1>6. ASSUME NEW t \in Task, Enqueue(t) \/ Finish(t) \/ Cancel(t)
      PROVE  UNCHANGED InSection
  BY <1>6 DEF Enqueue, Finish, Cancel, InSection, LocksTypeOK
<1> QED
  BY <1>1, <1>2, <1>3, <1>4, <1>5, <1>6 DEF LocksNext, TaskStep

\* One async mutex per node, acquired in ascending order and handed over in arrival
\* order, implements the exclusive sections the handlers and reconcile tasks rely on.
THEOREM LocksImplementSections == LocksSpec => ImplementsSections
<1>1. LocksInit => Sections!SectionsInit
  BY DEF LocksInit, Sections!SectionsInit, InSection
<1>2. LocksInv /\ LocksInv' /\ [LocksNext]_lockVars => [Sections!SectionsNext]_InSection
  BY LocksStepSections
<1> QED
  BY <1>1, <1>2, LocksInvariant, PTL DEF LocksSpec, ImplementsSections, Sections!SectionsSpec

=============================================================================
