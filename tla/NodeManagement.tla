--------------------------- MODULE NodeManagement ---------------------------
(***************************************************************************)
(* What the panel does with its nodes beside their rules: NodeSessions and *)
(* Diagnosis.  They share nothing that matters to the properties of either *)
(* (of a session Diagnosis keeps whether a command can be sent), so a      *)
(* behaviour shows one of them, and the other stays as it begins, where no *)
(* fair action of it is enabled.                                           *)
(***************************************************************************)
EXTENDS NodeSessions, Diagnosis

VARIABLE duty   \* the component this behaviour is about

managementVars == <<duty, sessVars, diagVars>>

ManagementInit ==
    /\ duty \in {"sessions", "diagnosis"}
    /\ SessionsInit /\ DiagInit

\* Requests are bounded: when the last one has been answered nothing happens.
DiagnosesOver ==
    /\ duty = "diagnosis"
    /\ \A d \in Diagnoses : diag[d] # "running"
    /\ stream \cup probing \cup reports = {}
    /\ UNCHANGED managementVars

ManagementNext ==
    \/ duty = "sessions" /\ SessionsNext /\ UNCHANGED <<duty, diagVars>>
    \/ duty = "diagnosis" /\ DiagNext /\ UNCHANGED <<duty, sessVars>>
    \/ DiagnosesOver

ManagementSpec ==
    /\ ManagementInit /\ [][ManagementNext]_managementVars
    /\ SessionsFairness /\ DiagFairness
=============================================================================
