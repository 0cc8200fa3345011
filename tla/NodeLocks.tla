----------------------------- MODULE NodeLocks -----------------------------
(***************************************************************************)
(* The per-node serial locks of the command dispatcher                     *)
(* (panel-server/src/grpc/dispatcher.rs, lock_nodes).                      *)
(*                                                                         *)
(* A task (a REST handler or a reconcile task) asks for a set of nodes,    *)
(* acquires the async mutex of each node in ascending node id and keeps    *)
(* the owned guards until they are dropped.  Each mutex is the fair mutex  *)
(* of tokio: a released mutex is handed to the task that waited longest.   *)
(* A handler whose client goes away is dropped by the HTTP server at the   *)
(* await it is suspended in, so a task may also leave the queue.           *)
(***************************************************************************)
EXTENDS Integers, Sequences, FiniteSets

CONSTANTS Node,    \* node ids (database row ids)
          Task,    \* tasks that call lock_nodes
          NoTask   \* the owner of a free mutex

ASSUME NodeAssumption == Node \subseteq Nat
ASSUME TaskAssumption == NoTask \notin Task

VARIABLES owner,   \* owner[n]: the task holding the guard of node n, or NoTask
          waiters, \* waiters[n]: tasks suspended in lock_owned() on n, oldest first
          wanted,  \* wanted[t]: the deduplicated node set t asked for
          todo,    \* todo[t]: nodes of wanted[t] that t has not acquired yet
          phase    \* phase[t]: "idle", "acquiring", "holding" or "releasing"

lockVars == <<owner, waiters, wanted, todo, phase>>

Phase == {"idle", "acquiring", "holding", "releasing"}

\* The members of the queue q.
Queued(q) == {q[i] : i \in DOMAIN q}

\* The queue q without the task t, which occurs in it at most once.
Leave(q, t) ==
  IF t \notin Queued(q) THEN q
  ELSE LET p == CHOOSE i \in DOMAIN q : q[i] = t
       IN  [i \in 1..(Len(q) - 1) |-> IF i < p THEN q[i] ELSE q[i + 1]]

\* t is suspended in lock_owned() on the mutex of n.
Waiting(t, n) == t \in Queued(waiters[n])

\* The nodes whose guard t holds.
HeldBy(t) == {n \in Node : owner[n] = t}

\* The smallest element of a non-empty set of node ids.
Least(S) == CHOOSE n \in S : \A m \in S : n <= m

\* Mutation: the ids are not sorted; callers of two nodes take them backwards.
NextNodeUnsorted(t) == CHOOSE n \in todo[t] : \A m \in todo[t] :
  IF Cardinality(wanted[t]) = 2 THEN n >= m ELSE n <= m

\* The ids are sorted and taken in order: the next mutex of t is the smallest
\* node it has not acquired.
NextNode(t) == Least(todo[t])

LocksInit ==
  /\ owner = [n \in Node |-> NoTask]
  /\ waiters = [n \in Node |-> <<>>]
  /\ wanted = [t \in Task |-> {}]
  /\ todo = [t \in Task |-> {}]
  /\ phase = [t \in Task |-> "idle"]

\* lock_nodes(S): sort and dedup the ids, look the mutexes up.  The empty list
\* (a tunnel without hops) yields no guard at once.
LockNodes(t, S) ==
  /\ phase[t] = "idle"
  /\ wanted' = [wanted EXCEPT ![t] = S]
  /\ todo' = [todo EXCEPT ![t] = S]
  /\ phase' = [phase EXCEPT ![t] = IF S = {} THEN "holding" ELSE "acquiring"]
  /\ UNCHANGED <<owner, waiters>>

\* The loop goes on to the next mutex, or ends after the last one.
Acquired(t, n) ==
  /\ todo' = [todo EXCEPT ![t] = @ \ {n}]
  /\ phase' = [phase EXCEPT ![t] = IF todo[t] = {n} THEN "holding" ELSE @]

\* Mutation: a registry lookup that makes a fresh mutex instead of sharing the old one.
TakeUnshared(t) ==
  /\ phase[t] = "acquiring"
  /\ LET n == NextNode(t) IN
       /\ owner' = [owner EXCEPT ![n] = t]
       /\ Acquired(t, n)
  /\ UNCHANGED <<waiters, wanted>>

\* lock_owned() on a free mutex succeeds at once.
TakeFree(t) ==
  /\ phase[t] = "acquiring"
  /\ LET n == NextNode(t) IN
       /\ owner[n] = NoTask
       /\ owner' = [owner EXCEPT ![n] = t]
       /\ Acquired(t, n)
  /\ UNCHANGED <<waiters, wanted>>

\* lock_owned() on a held mutex suspends the task at the end of its queue.
Enqueue(t) ==
  /\ phase[t] = "acquiring"
  /\ LET n == NextNode(t) IN
       /\ owner[n] # NoTask
       /\ ~Waiting(t, n)
       /\ waiters' = [waiters EXCEPT ![n] = Append(@, t)]
  /\ UNCHANGED <<owner, wanted, todo, phase>>

\* The critical section is over: the vector of guards starts to drop.
Unlock(t) ==
  /\ phase[t] = "holding"
  /\ phase' = [phase EXCEPT ![t] = "releasing"]
  /\ UNCHANGED <<owner, waiters, wanted, todo>>

\* One guard is dropped: the mutex goes to its oldest waiter, or becomes free.
DropGuard(t) ==
  /\ phase[t] = "releasing"
  /\ HeldBy(t) # {}
  /\ LET n == Least(HeldBy(t)) IN
       IF waiters[n] = <<>>
       THEN /\ owner' = [owner EXCEPT ![n] = NoTask]
            /\ UNCHANGED <<waiters, wanted, todo, phase>>
       ELSE /\ owner' = [owner EXCEPT ![n] = Head(waiters[n])]
            /\ waiters' = [waiters EXCEPT ![n] = Tail(@)]
            /\ Acquired(Head(waiters[n]), n)
            /\ UNCHANGED wanted

\* All guards are dropped; the task may call lock_nodes again.
Finish(t) ==
  /\ phase[t] = "releasing"
  /\ HeldBy(t) = {}
  /\ phase' = [phase EXCEPT ![t] = "idle"]
  /\ wanted' = [wanted EXCEPT ![t] = {}]
  /\ UNCHANGED <<owner, waiters, todo>>

\* The future of t is dropped while it waits: it leaves the queue and its guards drop.
Cancel(t) ==
  /\ phase[t] = "acquiring"
  /\ waiters' = [n \in Node |-> Leave(waiters[n], t)]
  /\ todo' = [todo EXCEPT ![t] = {}]
  /\ phase' = [phase EXCEPT ![t] = "releasing"]
  /\ UNCHANGED <<owner, wanted>>

TaskStep(t) == TakeFree(t) \/ Enqueue(t) \/ Unlock(t) \/ DropGuard(t) \/ Finish(t)

LocksNext ==
  \E t \in Task : (\E S \in SUBSET Node : LockNodes(t, S)) \/ TaskStep(t) \/ Cancel(t)

LocksSpec == LocksInit /\ [][LocksNext]_lockVars

\* Every section guarded by the locks ends and every runnable task is polled:
\* the sections await only the database and channel sends, which both fail or
\* succeed after a bounded time.
FairLocksSpec == LocksSpec /\ \A t \in Task : WF_lockVars(TaskStep(t))
-----------------------------------------------------------------------------
LocksTypeOK ==
  /\ owner \in [Node -> Task \cup {NoTask}]
  /\ waiters \in [Node -> Seq(Task)]
  /\ wanted \in [Task -> SUBSET Node]
  /\ todo \in [Task -> SUBSET Node]
  /\ phase \in [Task -> Phase]

\* Two tasks inside their critical sections never share a node: the sections
\* of a delete and of a reconcile on the same node are serial (dispatcher.rs,
\* comment of node_locks).
ExclusiveSections ==
  \A t, u \in Task :
    t # u /\ phase[t] = "holding" /\ phase[u] = "holding" => wanted[t] \cap wanted[u] = {}

\* No ring of waiting tasks: along "t waits for a mutex of u" the awaited
\* node strictly grows (dispatcher.rs, comment of lock_nodes).
AscendingWaits ==
  \A t, u \in Task : \A n, m \in Node :
    Waiting(t, n) /\ owner[n] = u /\ m \in todo[u] => n < m

\* A mutex with waiters is held: a release hands it over and nobody is left
\* waiting on a free mutex.
NoForgottenWaiter == \A n \in Node : waiters[n] # <<>> => owner[n] # NoTask

\* Every call of lock_nodes returns or is cancelled, whatever sets of nodes the
\* other tasks lock.
LockEventuallyGranted == \A t \in Task : (phase[t] = "acquiring") ~> (phase[t] # "acquiring")

\* The section a task is in: the nodes of a completed call of lock_nodes.
InSection == [t \in Task |-> IF phase[t] = "holding" THEN wanted[t] ELSE {}]

\* The mutexes, taken one by one and handed over, implement sections entered in
\* one step (what the callers of lock_nodes rely on).
Sections == INSTANCE NodeSections WITH section <- InSection

ImplementsSections == Sections!SectionsSpec
-----------------------------------------------------------------------------
(* The parts of the inductive invariant. *)

\* A task is acquiring exactly while nodes are left to acquire.
TodoMatchesPhase ==
  \A t \in Task : /\ todo[t] \subseteq wanted[t]
                  /\ phase[t] = "acquiring" <=> todo[t] # {}

\* The guards a task holds are on nodes it asked for, all below those it still lacks.
GuardsBelowTodo ==
  \A t \in Task : \A n \in Node : owner[n] = t =>
    /\ phase[t] # "idle"
    /\ n \in wanted[t] \ todo[t]
    /\ \A m \in todo[t] : n < m

\* A task keeps every guard it got until its section ends.
GuardsKept ==
  \A t \in Task : phase[t] \in {"acquiring", "holding"} =>
    \A n \in wanted[t] \ todo[t] : owner[n] = t

\* A task waits on the smallest node it still lacks, hence on one node.
WaitsForNext ==
  \A t \in Task : \A n \in Node : Waiting(t, n) =>
    /\ n \in todo[t]
    /\ \A m \in todo[t] : n <= m

\* A task is at most once in a queue.
QueuedOnce ==
  \A n \in Node : \A i, j \in DOMAIN waiters[n] : waiters[n][i] = waiters[n][j] => i = j

LocksInv ==
  /\ LocksTypeOK
  /\ TodoMatchesPhase
  /\ GuardsBelowTodo
  /\ GuardsKept
  /\ WaitsForNext
  /\ QueuedOnce
  /\ NoForgottenWaiter
=============================================================================
