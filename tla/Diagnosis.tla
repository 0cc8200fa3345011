----------------------------- MODULE Diagnosis -----------------------------
(***************************************************************************)
(* Diagnosis of a chain (routes/diagnose.rs): one task per segment         *)
(* registers a waiter under a new probe id, sends a Probe to the source    *)
(* node and waits for the report or PROBE_TIMEOUT.  The table of waiters   *)
(* (state.rs) has a cap and no other clean-up than the tasks themselves;   *)
(* the agent (agent.rs, probe.rs) drops probes beyond its own cap.         *)
(*                                                                         *)
(* One agent measures all segments.  Of a result only the segment it is    *)
(* about is kept; the clamping of its numbers and their wording are left   *)
(* out, and so is the limit of diagnoses per user.                         *)
(***************************************************************************)
EXTENDS Naturals, FiniteSets

CONSTANTS
    Diagnoses,    \* diagnosis requests, each made once
    MaxSegments,  \* segments of a chain
    MaxTasks,     \* bound: segments of all diagnoses together
    MaxWaiters,   \* MAX_PROBE_WAITERS
    MaxInFlight   \* MAX_PROBE_INFLIGHT of the agent

ASSUME DiagnosisAssumption ==
    /\ IsFiniteSet(Diagnoses)
    /\ {MaxSegments, MaxTasks, MaxWaiters, MaxInFlight} \subseteq Nat \ {0}

VARIABLES
    diag,      \* diag[d]: the request
    segment,   \* segment[d][i]: the task of segment i: its step, its probe id
    waiters,   \* ids in probe_waiters
    probeSeq,  \* probe_seq
    stream,    \* probes on the way to the agent
    inFlight,  \* PROBE_INFLIGHT of the agent
    probing,   \* probes the agent is carrying out
    reports    \* results on the way to the panel

diagVars == <<diag, segment, waiters, probeSeq, stream, inFlight, probing, reports>>

Segments == 1..MaxSegments
Tasks == Diagnoses \X Segments
Idle == [pc |-> "idle", id |-> 0]
Ended(pc) == [pc |-> pc, id |-> 0]
Ids == 1..MaxTasks
Probes == [id : Ids, of : Tasks]

At(t) == segment[t[1]][t[2]]
Goes(t, step) == segment' = [segment EXCEPT ![t[1]][t[2]] = step]

DiagTypeOK ==
    /\ diag \in [Diagnoses -> {"idle", "running", "ended", "gone"}]
    /\ segment \in [Diagnoses -> [Segments ->
         [pc : {"idle", "start", "waiting", "cancel", "answered", "failed",
               "refused", "aborted"}, id : Ids \cup {0}]]]
    /\ waiters \subseteq Ids /\ Cardinality(waiters) <= MaxWaiters
    /\ probeSeq \in Ids \cup {0}
    /\ stream \subseteq Probes /\ probing \subseteq Probes /\ reports \subseteq Probes
    /\ inFlight = Cardinality(probing) /\ inFlight <= MaxInFlight

DiagInit ==
    /\ diag = [d \in Diagnoses |-> "idle"]
    /\ segment = [d \in Diagnoses |-> [i \in Segments |-> Idle]]
    /\ waiters = {} /\ probeSeq = 0 /\ stream = {}
    /\ inFlight = 0 /\ probing = {} /\ reports = {}

probeVars == <<stream, inFlight, probing, reports>>

-----------------------------------------------------------------------------
(* The panel *)

\* Steps at which a task has returned.
Over == {"idle", "answered", "failed", "refused"}

\* run_segments spawns a task for each of the n segments; those that
\* tunnel_chain_segments found without an inter port send nothing.
Begin(d, n, unset) ==
    /\ diag[d] = "idle"
    /\ Cardinality({t \in Tasks : At(t).pc # "idle"}) + n <= MaxTasks
    /\ diag' = [diag EXCEPT ![d] = "running"]
    /\ segment' = [segment EXCEPT ![d] = [i \in Segments |->
          IF i > n THEN Idle ELSE IF i \in unset THEN Ended("failed")
          ELSE [Idle EXCEPT !.pc = "start"]]]
    /\ UNCHANGED <<waiters, probeSeq, probeVars>>

\* The new waiter, and dispatch, which puts the command into the node's
\* channel unless the node is offline or the channel is full; the task does
\* not wait between the two.
Registered(t, id) ==
    /\ waiters' = waiters \cup {id}
    /\ \/ stream' = stream \cup {[id |-> id, of |-> t]} /\ Goes(t, [pc |-> "waiting", id |-> id])
       \/ UNCHANGED stream /\ Goes(t, [pc |-> "cancel", id |-> id])

\* Mutation: ids are reused as soon as their waiter is gone.
RegisterProbeReuses(t) ==
    LET id == CHOOSE n \in Ids : n \notin waiters /\ \A m \in Ids : m < n => m \in waiters IN
    /\ At(t).pc = "start"
    /\ IF Cardinality(waiters) < MaxWaiters THEN Registered(t, id)
       ELSE Goes(t, Ended("refused")) /\ UNCHANGED <<waiters, stream>>
    /\ probeSeq' = probeSeq + 1
    /\ UNCHANGED <<diag, inFlight, probing, reports>>

\* register_probe: cap and insertion under one lock.
RegisterProbe(t) ==
    /\ At(t).pc = "start"
    /\ IF Cardinality(waiters) < MaxWaiters THEN Registered(t, probeSeq + 1)
       ELSE Goes(t, Ended("refused")) /\ UNCHANGED <<waiters, stream>>
    /\ probeSeq' = probeSeq + 1
    /\ UNCHANGED <<diag, inFlight, probing, reports>>

TimesOut(t) ==
    /\ At(t).pc = "waiting"
    /\ Goes(t, [At(t) EXCEPT !.pc = "cancel"])
    /\ UNCHANGED <<diag, waiters, probeSeq, probeVars>>

\* cancel_probe
CancelProbe(t) ==
    /\ At(t).pc = "cancel"
    /\ waiters' = waiters \ {At(t).id}
    /\ Goes(t, Ended("failed"))
    /\ UNCHANGED <<diag, probeSeq, probeVars>>

\* Mutation: the first refused segment ends the request (the JoinSet is dropped).
EndEarly(d) ==
    /\ diag[d] = "running"
    /\ \/ \A i \in Segments : segment[d][i].pc \in Over
       \/ \E i \in Segments : segment[d][i].pc = "refused"
    /\ diag' = [diag EXCEPT ![d] = "ended"]
    /\ UNCHANGED <<segment, waiters, probeSeq, probeVars>>

\* run_segments answers, with 429 if a segment was refused, when all its
\* tasks have ended.
End(d) ==
    /\ diag[d] = "running"
    /\ \A i \in Segments : segment[d][i].pc \in Over
    /\ diag' = [diag EXCEPT ![d] = "ended"]
    /\ UNCHANGED <<segment, waiters, probeSeq, probeVars>>

\* The client closes its connection and hyper drops the handler.
ClientGone(d) ==
    /\ diag[d] = "running"
    /\ diag' = [diag EXCEPT ![d] = "gone"]
    /\ UNCHANGED <<segment, waiters, probeSeq, probeVars>>

\* A task of a dropped JoinSet is aborted where it waits.
Abort(t) ==
    /\ diag[t[1]] \in {"ended", "gone"} /\ At(t).pc \in {"start", "waiting"}
    /\ Goes(t, [At(t) EXCEPT !.pc = "aborted"])
    /\ UNCHANGED <<diag, waiters, probeSeq, probeVars>>

\* report_probe_result, resolve_probe: the waiter, if there is one, gets it.
ReportArrives(p) ==
    /\ p \in reports /\ reports' = reports \ {p}
    /\ waiters' = waiters \ {p.id}
    /\ segment' = [d \in Diagnoses |-> [i \in Segments |->
          LET s == segment[d][i] IN
          IF p.id \in waiters /\ s.id = p.id /\ s.pc = "waiting"
          THEN Ended("answered") ELSE s]]
    /\ UNCHANGED <<diag, probeSeq, stream, inFlight, probing>>

-----------------------------------------------------------------------------
(* The agent *)

\* run_session takes a Probe: it is carried out beside the loop, or dropped.
TakeProbe(p) ==
    /\ p \in stream /\ stream' = stream \ {p}
    /\ IF inFlight < MaxInFlight
       THEN inFlight' = inFlight + 1 /\ probing' = probing \cup {p}
       ELSE UNCHANGED <<inFlight, probing>>
    /\ UNCHANGED <<diag, segment, waiters, probeSeq, reports>>

\* run_probe ends and is reported; a report that fails is only logged.
ProbeEnds(p) ==
    /\ p \in probing /\ probing' = probing \ {p}
    /\ inFlight' = inFlight - 1
    /\ reports' \in {reports, reports \cup {p}}
    /\ UNCHANGED <<diag, segment, waiters, probeSeq, stream>>

\* The session breaks with the commands that are in its stream.
StreamBreaks ==
    /\ stream # {} /\ stream' = {}
    /\ UNCHANGED <<diag, segment, waiters, probeSeq, inFlight, probing, reports>>

-----------------------------------------------------------------------------
TaskStep(t) == RegisterProbe(t) \/ TimesOut(t) \/ CancelProbe(t)

DiagNext ==
    \/ \E d \in Diagnoses : (\E n \in Segments, u \in SUBSET Segments : Begin(d, n, u)) \/ End(d) \/ ClientGone(d)
    \/ \E t \in Tasks : TaskStep(t) \/ Abort(t)
    \/ \E p \in stream : TakeProbe(p)
    \/ \E p \in probing : ProbeEnds(p)
    \/ \E p \in reports : ReportArrives(p)
    \/ StreamBreaks

\* Tasks run, and the timeout of a waiting one comes; nothing is assumed of
\* the agent.
DiagFairness ==
    /\ \A t \in Tasks : WF_diagVars(TaskStep(t))
    /\ \A d \in Diagnoses : WF_diagVars(End(d))

DiagSpec == DiagInit /\ [][DiagNext]_diagVars /\ DiagFairness

-----------------------------------------------------------------------------
\* diagnose.rs:110: a waiter whose task is not going to remove it, which
\* holds one of the MAX_PROBE_WAITERS slots until the panel restarts, is left
\* only by a client that went away; a refused segment leaves none.
LeakOnlyByClient ==
    \A id \in waiters : \E t \in Tasks :
        /\ At(t).id = id
        /\ \/ At(t).pc \in {"waiting", "cancel"}
           \/ At(t).pc = "aborted" /\ diag[t[1]] = "gone"

\* A late report, of a probe that timed out, is never shown as the result of
\* another segment or another diagnosis.
OwnResult ==
    [][\A p \in reports, t \in Tasks :
          ReportArrives(p) /\ At(t).pc = "waiting" /\ At(t)'.pc = "answered" => p.of = t]_diagVars
=============================================================================
