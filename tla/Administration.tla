--------------------------- MODULE Administration ---------------------------
(***************************************************************************)
(* The administrative half of the panel: Accounts, UserSweeps (the sweeper *)
(* of expired and over-quota users), Admission and TunnelCreds.  They      *)
(* share nothing that matters to the properties of any of them, so a       *)
(* behaviour shows one of them, and the others stay as they begin, where   *)
(* no fair action of theirs is enabled.                                    *)
(***************************************************************************)
EXTENDS Accounts, UserSweeps, Admission, TunnelCreds

VARIABLE part   \* the component this behaviour is about

administrationVars == <<part, acctVars, sweepVars, admVars, credVars>>

AdministrationInit ==
    /\ part \in {"accounts", "sweeps", "admission", "credentials"}
    /\ AccountsInit /\ SweepsInit /\ AdmissionInit /\ CredsInit

AdministrationNext ==
    \/ part = "accounts" /\ AccountsNext /\ UNCHANGED <<part, sweepVars, admVars, credVars>>
    \/ part = "sweeps" /\ SweepsNext /\ UNCHANGED <<part, acctVars, admVars, credVars>>
    \/ part = "admission" /\ AdmissionNext /\ UNCHANGED <<part, acctVars, sweepVars, credVars>>
    \/ part = "credentials" /\ CredsNext /\ UNCHANGED <<part, acctVars, sweepVars, admVars>>

AdministrationSpec ==
    AdministrationInit /\ [][AdministrationNext]_administrationVars /\ SweepsFairness
=============================================================================
