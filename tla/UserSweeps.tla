----------------------------- MODULE UserSweeps -----------------------------
(***************************************************************************)
(* sweeper/user_quota.rs: the rules of users who expired or used up their  *)
(* traffic are disabled, while rules are created, enabled, disabled and    *)
(* deleted by requests and an administrator changes expiry and quota mode. *)
(*                                                                         *)
(* The traffic of a period is kept as "over the limit or not", once for    *)
(* the rolling 30 days and once for the current month; billing itself is   *)
(* in StatsPipeline.  Of a push only the read of the row is kept: what can  *)
(* happen between that read and the command's arrival is in RuleSync.      *)
(***************************************************************************)
EXTENDS Naturals, FiniteSets

CONSTANTS
    Owners,   \* users who own rules
    Rules,    \* rule ids
    Calls,    \* API requests that may overlap
    MaxRestarts  \* restarts of the panel

ASSUME SweepAssumption ==
    IsFiniteSet(Owners) /\ IsFiniteSet(Rules) /\ "none" \notin Rules /\ MaxRestarts \in Nat

VARIABLES
    usr,      \* usr[u]: expired; mode (quota_reset_day is null or not); cached
              \* (period_used_bytes_cached exceeds the limit)
    over,     \* over[u][m]: the traffic of period m exceeds the limit
    rls,      \* rls[r]: the row, with its owner and its enabled flag
    sent,     \* sent[r]: the enabled flag the last push of the rule has read
    tick,     \* the sweeper: its step, the users to do, the rules captured
    api,      \* api[c]: the rule a request has written and not pushed yet
    switched, \* users whose mode was switched since this quota tick began
    restarts  \* the panel's restarts so far

sweepVars == <<usr, over, rls, sent, tick, api, switched, restarts>>

Modes == {"rolling", "monthly"}
NoTick == [pc |-> "idle", users |-> {}, rules |-> {}]
NoRule == "none"

SweepTypeOK ==
    /\ usr \in [Owners -> [expired : BOOLEAN, mode : Modes, cached : BOOLEAN]]
    /\ over \in [Owners -> [Modes -> BOOLEAN]]
    /\ rls \in [Rules -> [st : {"none", "active", "deleted"}, owner : Owners, on : BOOLEAN]]
    /\ sent \in [Rules -> BOOLEAN]
    /\ tick \in [pc : {"off", "idle", "months", "monthly", "judge", "stop", "disable", "push"},
                 users : SUBSET Owners, rules : SUBSET Rules]
    /\ tick.pc \in {"monthly", "stop", "disable", "push"} <=> tick.users # {}
    /\ tick.pc \in {"disable", "push"} <=> tick.rules # {}
    /\ api \in [Calls -> Rules \cup {NoRule}]
    /\ switched \subseteq Owners
    /\ restarts \in 0..MaxRestarts

SweepsInit ==
    /\ usr = [u \in Owners |-> [expired |-> FALSE, mode |-> "rolling", cached |-> FALSE]]
    /\ over = [u \in Owners |-> [m \in Modes |-> FALSE]]
    /\ rls = [r \in Rules |-> [st |-> "none", owner |-> CHOOSE u \in Owners : TRUE, on |-> FALSE]]
    /\ sent = [r \in Rules |-> FALSE]
    /\ tick = [NoTick EXCEPT !.pc = "off"]
    /\ api = [c \in Calls |-> NoRule]
    /\ switched = {} /\ restarts = 0

Exists(r) == rls[r].st = "active"
Enabled(r) == Exists(r) /\ rls[r].on
EnabledOf(u) == {r \in Rules : Enabled(r) /\ rls[r].owner = u}

\* dispatch_rule_apply for a rule found again by its id.
Push(r) == sent' = IF Exists(r) THEN [sent EXCEPT ![r] = rls[r].on] ELSE sent

-----------------------------------------------------------------------------
(* Requests *)

\* rules::create: the row is inserted, enabled.
Create(c, r, u) ==
    /\ api[c] = NoRule /\ rls[r].st = "none"
    /\ rls' = [rls EXCEPT ![r] = [st |-> "active", owner |-> u, on |-> TRUE]]
    /\ api' = [api EXCEPT ![c] = r]
    /\ UNCHANGED <<usr, over, sent, tick, switched, restarts>>

\* enable and disable: neither expiry nor quota is looked at.
SetEnabled(c, r, on) ==
    /\ api[c] = NoRule /\ Exists(r) /\ rls[r].on # on
    /\ rls' = [rls EXCEPT ![r].on = on]
    /\ api' = [api EXCEPT ![c] = r]
    /\ UNCHANGED <<usr, over, sent, tick, switched, restarts>>

\* Both then send the row as it is by now.
ApiPush(c) ==
    /\ api[c] # NoRule
    /\ Push(api[c])
    /\ api' = [api EXCEPT ![c] = NoRule]
    /\ UNCHANGED <<usr, over, rls, tick, switched, restarts>>

\* rules::delete, row and RemoveRule under the node locks.
DeleteRule(r) ==
    /\ Exists(r)
    /\ rls' = [rls EXCEPT ![r].st = "deleted", ![r].on = FALSE]
    /\ sent' = [sent EXCEPT ![r] = FALSE]
    /\ UNCHANGED <<usr, over, tick, api, switched, restarts>>

\* users::update of the expiry; or time passes it.
Expiry(u, expired) ==
    /\ usr[u].expired # expired
    /\ usr' = [usr EXCEPT ![u].expired = expired]
    /\ UNCHANGED <<over, rls, sent, tick, api, switched, restarts>>

\* users::update of quota_reset_day.
SwitchMode(u, m) ==
    /\ usr[u].mode # m
    /\ usr' = [usr EXCEPT ![u].mode = m]
    /\ switched' = switched \cup {u}
    /\ UNCHANGED <<over, rls, sent, tick, api, restarts>>

\* Traffic arrives, or leaves the window, or a new month begins.
Traffic(u, m) ==
    /\ over' = [over EXCEPT ![u][m] = ~@]
    /\ UNCHANGED <<usr, rls, sent, tick, api, switched, restarts>>

-----------------------------------------------------------------------------
(* The sweeper: one task, two timers *)

WithRules(U) == {u \in U : EnabledOf(u) # {}}

\* The panel comes up: spawn_user_quota_sweeper.
Spawn ==
    /\ tick.pc = "off"
    /\ tick' = NoTick
    /\ UNCHANGED <<usr, over, rls, sent, api, switched, restarts>>

\* expiry_tick_once: the expired users with an enabled rule.
ExpiryTick ==
    /\ tick.pc = "idle"
    /\ LET hit == WithRules({u \in Owners : usr[u].expired}) IN
       hit # {} /\ tick' = [NoTick EXCEPT !.pc = "stop", !.users = hit]
    /\ UNCHANGED <<usr, over, rls, sent, api, switched, restarts>>

\* quota_tick_once: one UPDATE refreshes everybody in rolling mode,
QuotaTick ==
    /\ tick.pc = "idle"
    /\ tick' = [NoTick EXCEPT !.pc = "months"]
    /\ usr' = [u \in Owners |-> IF usr[u].mode = "rolling"
                                THEN [usr[u] EXCEPT !.cached = over[u]["rolling"]] ELSE usr[u]]
    /\ switched' = {}
    /\ UNCHANGED <<over, rls, sent, api, restarts>>

\* then the users in monthly mode are listed,
ListMonthly ==
    /\ tick.pc = "months"
    /\ LET monthly == {u \in Owners : usr[u].mode = "monthly"} IN
       tick' = [NoTick EXCEPT !.pc = IF monthly = {} THEN "judge" ELSE "monthly",
                              !.users = monthly]
    /\ UNCHANGED <<usr, over, rls, sent, api, switched, restarts>>

\* Mutation: everybody's window is the rolling one.
RefreshRolling(u) ==
    /\ tick.pc = "monthly" /\ u \in tick.users
    /\ usr' = [usr EXCEPT ![u].cached = over[u]["rolling"]]
    /\ tick' = [tick EXCEPT !.users = @ \ {u}, !.pc = IF tick.users = {u} THEN "judge" ELSE @]
    /\ UNCHANGED <<over, rls, sent, api, switched, restarts>>

\* and refreshed one by one, whatever mode they are in by then.
RefreshMonthly(u) ==
    /\ tick.pc = "monthly" /\ u \in tick.users
    /\ usr' = [usr EXCEPT ![u].cached = over[u]["monthly"]]
    /\ tick' = [tick EXCEPT !.users = @ \ {u}, !.pc = IF tick.users = {u} THEN "judge" ELSE @]
    /\ UNCHANGED <<over, rls, sent, api, switched, restarts>>

OverLimit == WithRules({u \in Owners : usr[u].cached})

\* Who is over the limit by the cache.
Judge ==
    /\ tick.pc = "judge"
    /\ tick' = IF OverLimit = {} THEN NoTick
               ELSE [NoTick EXCEPT !.pc = "stop", !.users = OverLimit]
    /\ UNCHANGED <<usr, over, rls, sent, api, switched, restarts>>

NextUser(u) == IF tick.users = {u} THEN NoTick
               ELSE [NoTick EXCEPT !.pc = "stop", !.users = tick.users \ {u}]

\* disable_rules_for_user: the enabled rules are captured,
Capture(u) ==
    /\ tick.pc = "stop" /\ u \in tick.users
    /\ tick' = IF EnabledOf(u) = {} THEN NextUser(u)
               ELSE [tick EXCEPT !.pc = "disable", !.rules = EnabledOf(u)]
    /\ UNCHANGED <<usr, over, rls, sent, api, switched, restarts>>

\* Mutation: all rules of the user are disabled, not just those captured.
DisableAll ==
    LET owners == {rls[r].owner : r \in tick.rules} IN
    /\ tick.pc = "disable"
    /\ rls' = [r \in Rules |-> IF rls[r].owner \in owners
                               THEN [rls[r] EXCEPT !.on = FALSE] ELSE rls[r]]
    /\ tick' = [tick EXCEPT !.pc = "push"]
    /\ UNCHANGED <<usr, over, sent, api, switched, restarts>>

\* disabled in one UPDATE,
Disable ==
    /\ tick.pc = "disable"
    /\ rls' = [r \in Rules |-> IF r \in tick.rules THEN [rls[r] EXCEPT !.on = FALSE] ELSE rls[r]]
    /\ tick' = [tick EXCEPT !.pc = "push"]
    /\ UNCHANGED <<usr, over, sent, api, switched, restarts>>

\* and pushed one by one.
SweepPush(r) ==
    /\ tick.pc = "push" /\ r \in tick.rules
    /\ Push(r)
    /\ tick' = IF tick.rules = {r} THEN NextUser(rls[r].owner)
               ELSE [tick EXCEPT !.rules = @ \ {r}]
    /\ UNCHANGED <<usr, over, rls, api, switched, restarts>>

\* The panel restarts; the agents come back and replay what the table holds.
Restart ==
    /\ tick.pc # "idle" \/ \E c \in Calls : api[c] # NoRule
    /\ tick' = NoTick
    /\ api' = [c \in Calls |-> NoRule]
    /\ sent' = [r \in Rules |-> Enabled(r)]
    /\ restarts < MaxRestarts /\ restarts' = restarts + 1
    /\ UNCHANGED <<usr, over, rls, switched>>

SweepStep ==
    \/ ListMonthly \/ Judge \/ Disable
    \/ \E u \in Owners : RefreshMonthly(u) \/ Capture(u)
    \/ \E r \in Rules : SweepPush(r)

SweepsNext ==
    \/ Spawn
    \/ /\ tick.pc # "off"
       /\ \/ \E c \in Calls, r \in Rules :
                 \/ \E u \in Owners : Create(c, r, u)
                 \/ \E on \in BOOLEAN : SetEnabled(c, r, on)
          \/ \E c \in Calls : ApiPush(c)
          \/ \E r \in Rules : DeleteRule(r)
          \/ \E u \in Owners : \/ \E e \in BOOLEAN : Expiry(u, e)
                               \/ \E m \in Modes : SwitchMode(u, m) \/ Traffic(u, m)
          \/ ExpiryTick \/ QuotaTick \/ SweepStep \/ Restart

\* Both timers of the select fire again and again, and a tick runs to its end
\* unless the panel restarts.
SweepsFairness ==
    /\ SF_sweepVars(ExpiryTick) /\ SF_sweepVars(QuotaTick)
    /\ WF_sweepVars(SweepStep)

SweepsSpec == SweepsInit /\ [][SweepsNext]_sweepVars /\ SweepsFairness

-----------------------------------------------------------------------------

\* The rules of an expired user do not stay enabled, even if they are enabled
\* again and again; nor do those of a user over the limit of the mode he is
\* in, unless the mode is switched in the middle of every quota tick.
StopsWhatMust ==
    /\ \A r \in Rules : []<>~(Enabled(r) /\ usr[rls[r].owner].expired)
    /\ \A r \in Rules :
          []<>(\/ ~(Enabled(r) /\ over[rls[r].owner][usr[rls[r].owner].mode])
               \/ rls[r].owner \in switched)

\* Every change of a rule's enabled flag is followed by a push that reads it:
\* a rule is never disabled by the sweeper without being captured for its
\* pushes, whatever was created or enabled in between.
SweptIsSent ==
    tick.pc = "idle" /\ (\A c \in Calls : api[c] = NoRule)
        => \A r \in Rules : sent[r] = Enabled(r)
=============================================================================
