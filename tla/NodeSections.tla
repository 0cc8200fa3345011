---------------------------- MODULE NodeSections ----------------------------
(***************************************************************************)
(* What lock_nodes (panel-server/src/grpc/dispatcher.rs) promises its      *)
(* callers: a critical section over a set of nodes, entered in one step    *)
(* and never shared.  NodeLocks implements it with one mutex per node;     *)
(* RuleSync is built on this interface.                                    *)
(***************************************************************************)
CONSTANTS Node,  \* node ids
          Task   \* tasks that call lock_nodes

VARIABLE section  \* section[t]: the nodes of the section t is in, or {}

\* No task is inside a section over a node of S.
Unlocked(S) == \A u \in Task : section[u] \cap S = {}

SectionsInit == section = [t \in Task |-> {}]

\* lock_nodes(S) returns.  An empty list yields no guard, hence no section.
Enter(t, S) ==
  /\ section[t] = {}
  /\ Unlocked(S)
  /\ section' = [section EXCEPT ![t] = S]

\* The returned guards drop.
Exit(t) == section' = [section EXCEPT ![t] = {}]

SectionsNext == \E t \in Task : Exit(t) \/ \E S \in SUBSET Node : Enter(t, S)

SectionsSpec == SectionsInit /\ [][SectionsNext]_section
=============================================================================
