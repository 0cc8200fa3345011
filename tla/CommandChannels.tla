-------------------------- MODULE CommandChannels --------------------------
(***************************************************************************)
(* The command channels of the panel (panel-server/src/grpc/dispatcher.rs  *)
(* and subscribe_commands in grpc/service.rs).                             *)
(*                                                                         *)
(* Every subscription of an agent opens a bounded channel and replaces the *)
(* channel registered for its node.  REST handlers push to the registered  *)
(* channel without waiting (dispatch); the reconcile task of the           *)
(* subscription pushes its replay to the same channel and waits for room.  *)
(* When the stream ends, its receiver is dropped first and its guard, on   *)
(* the same thread but a step later, removes the channel if it is still    *)
(* the registered one.                                                     *)
(***************************************************************************)
EXTENDS Integers, Sequences

CONSTANTS Node,              \* node ids
          Capacity,          \* CHANNEL_CAPACITY
          MaxBatch,          \* bound: commands in one replay
          MaxSubscriptions   \* bound: subscriptions opened, over all nodes

ASSUME CapacityAssumption == Capacity \in Nat \ {0}
ASSUME BatchAssumption == MaxBatch \in Nat
ASSUME SubscriptionsAssumption == MaxSubscriptions \in Nat

Gen == 1..MaxSubscriptions  \* generations, in the order next_gen hands them out
NoGen == 0
LiveCommand == 0            \* a command of dispatch; k > 0 is the k-th of the replay

VARIABLES
  nextGen,   \* the next generation
  entry,     \* entry[n]: generation of channels[n], or NoGen
  node,      \* node[g]: the node of subscription g
  state,     \* state[g]: see State
  queue,     \* queue[g]: commands in the channel of g, oldest first
  batch,     \* batch[g]: size of the replay of g
  sent,      \* sent[g]: replay commands the reconcile task has sent
  replaying, \* replaying[g]: the reconcile task still holds its sender
  got,       \* got[g]: the last replay command the agent received
  last       \* history: last[n] is the latest subscription inserted for n

registry == <<nextGen, entry, node, last>>
channel == <<queue, sent, got>>
chanVars == <<nextGen, entry, node, state, queue, batch, sent, replaying, got, last>>

\* "new": no generation yet; "numbered": generation taken, not inserted;
\* "open": receiver alive; "closed": receiver dropped; "gone": guard dropped.
State == {"new", "numbered", "open", "closed", "gone"}

ChannelsInit ==
  /\ nextGen = 1
  /\ entry = [n \in Node |-> NoGen]
  /\ node \in [Gen -> Node]
  /\ state = [g \in Gen |-> "new"]
  /\ queue = [g \in Gen |-> <<>>]
  /\ batch \in [Gen -> 0..MaxBatch]
  /\ sent = [g \in Gen |-> 0]
  /\ replaying = [g \in Gen |-> FALSE]
  /\ got = [g \in Gen |-> 0]
  /\ last = [n \in Node |-> NoGen]

\* subscribe, first half: the generation is taken before the registry lock.
TakeGeneration(g) ==
  /\ g = nextGen
  /\ nextGen' = nextGen + 1
  /\ state' = [state EXCEPT ![g] = "numbered"]
  /\ UNCHANGED <<entry, node, channel, batch, replaying, last>>

\* subscribe, second half: insert replaces the entry of the node, and the
\* reconcile task is spawned.  Two subscriptions of a node may insert in
\* either order.
Insert(g) ==
  /\ state[g] = "numbered"
  /\ state' = [state EXCEPT ![g] = "open"]
  /\ entry' = [entry EXCEPT ![node[g]] = g]
  /\ last' = [last EXCEPT ![node[g]] = g]
  /\ replaying' = [replaying EXCEPT ![g] = TRUE]
  /\ UNCHANGED <<nextGen, node, channel, batch>>

\* try_send would accept a command for n.
Accepts(n) ==
  /\ entry[n] # NoGen
  /\ state[entry[n]] = "open"
  /\ Len(queue[entry[n]]) < Capacity

\* dispatch(n, cmd): the command is queued, or refused without waiting.
Dispatch(n) ==
  /\ queue' = [g \in Gen |-> IF entry[n] = g /\ Accepts(n)
                             THEN Append(queue[g], LiveCommand) ELSE queue[g]]
  /\ UNCHANGED <<registry, state, batch, sent, replaying, got>>

\* Mutation: the replay uses try_send and ignores its result.
ReplaySendTry(g) ==
  /\ replaying[g] /\ sent[g] < batch[g] /\ state[g] = "open"
  /\ sent' = [sent EXCEPT ![g] = @ + 1]
  /\ queue' = [queue EXCEPT ![g] =
                 IF Len(@) < Capacity THEN Append(@, sent[g] + 1) ELSE @]
  /\ UNCHANGED <<registry, state, batch, replaying, got>>

\* The reconcile task sends the next command of its replay; send().await
\* waits for room.
ReplaySend(g) ==
  /\ replaying[g] /\ sent[g] < batch[g] /\ state[g] = "open"
  /\ Len(queue[g]) < Capacity
  /\ sent' = [sent EXCEPT ![g] = @ + 1]
  /\ queue' = [queue EXCEPT ![g] = Append(@, sent[g] + 1)]
  /\ UNCHANGED <<registry, state, batch, replaying, got>>

\* The reconcile task ends, and its sender with it: the replay is complete, or
\* a send failed because the receiver is gone.
ReplayEnd(g) ==
  /\ replaying[g]
  /\ sent[g] = batch[g] \/ state[g] # "open"
  /\ replaying' = [replaying EXCEPT ![g] = FALSE]
  /\ UNCHANGED <<registry, state, channel, batch>>

\* The stream hands the oldest command to the agent.
Deliver(g) ==
  /\ state[g] = "open"
  /\ queue[g] # <<>>
  /\ queue' = [queue EXCEPT ![g] = Tail(@)]
  /\ got' = [got EXCEPT ![g] = IF Head(queue[g]) = LiveCommand THEN @ ELSE Head(queue[g])]
  /\ UNCHANGED <<registry, state, batch, sent, replaying>>

DropReceiver(g) ==
  /\ state' = [state EXCEPT ![g] = "closed"]
  /\ queue' = [queue EXCEPT ![g] = <<>>]
  /\ UNCHANGED <<registry, batch, sent, replaying, got>>

\* Every sender is gone (the entry was replaced, the replay is over) and the
\* channel is drained: the stream of a superseded subscription ends by itself.
EndOfStream(g) ==
  /\ state[g] = "open" /\ queue[g] = <<>>
  /\ entry[node[g]] # g /\ ~replaying[g]
  /\ DropReceiver(g)

\* The connection breaks or the agent cancels: queued commands are lost.
Disconnect(g) ==
  /\ state[g] = "open"
  /\ DropReceiver(g)

\* Mutation: the guard removes its channel and older ones.
UnsubscribeUpTo(g) ==
  /\ state[g] = "closed"
  /\ state' = [state EXCEPT ![g] = "gone"]
  /\ entry' = [entry EXCEPT ![node[g]] = IF @ <= g THEN NoGen ELSE @]
  /\ UNCHANGED <<nextGen, node, channel, batch, replaying, last>>

\* DispatcherGuard::drop -> unsubscribe_if: only its own entry is removed.
UnsubscribeIf(g) ==
  /\ state[g] = "closed"
  /\ state' = [state EXCEPT ![g] = "gone"]
  /\ entry' = [entry EXCEPT ![node[g]] = IF @ = g THEN NoGen ELSE @]
  /\ UNCHANGED <<nextGen, node, channel, batch, replaying, last>>

Advance(g) ==
  \/ Insert(g) \/ ReplaySend(g) \/ ReplayEnd(g)
  \/ Deliver(g) \/ EndOfStream(g) \/ UnsubscribeIf(g)

ChannelsNext ==
  \/ \E g \in Gen : TakeGeneration(g) \/ Disconnect(g) \/ Advance(g)
  \/ \E n \in Node : Dispatch(n)

ChannelsSpec == ChannelsInit /\ [][ChannelsNext]_chanVars

\* The panel polls the stream and the reconcile task, and the agent reads its
\* stream; nothing forces a connection to break or a handler to dispatch.  A
\* freed slot of the tokio channel goes to the waiting send before any try_send,
\* so a replay is not overtaken for ever (SF).
FairChannelsSpec ==
  /\ ChannelsSpec
  /\ \A g \in Gen :
       /\ WF_chanVars(Insert(g)) /\ WF_chanVars(ReplayEnd(g)) /\ WF_chanVars(EndOfStream(g))
       /\ WF_chanVars(Deliver(g)) /\ WF_chanVars(UnsubscribeIf(g)) /\ SF_chanVars(ReplaySend(g))
-----------------------------------------------------------------------------
ChannelsTypeOK ==
  /\ nextGen \in 1..(MaxSubscriptions + 1)
  /\ entry \in [Node -> Gen \cup {NoGen}]
  /\ node \in [Gen -> Node]
  /\ state \in [Gen -> State]
  /\ queue \in [Gen -> Seq(0..MaxBatch)]
  /\ batch \in [Gen -> 0..MaxBatch]
  /\ sent \in [Gen -> 0..MaxBatch]
  /\ replaying \in [Gen -> BOOLEAN]
  /\ got \in [Gen -> 0..MaxBatch]
  /\ last \in [Node -> Gen \cup {NoGen}]

\* The latest subscription of a node stays reachable until its own guard drops,
\* and no older one takes its place: a stream that ends late never unplugs its
\* successor (comment of CommandDispatcher), even when the two inserted in the
\* opposite order of their generations.
LatestReachable ==
  \A n \in Node :
    /\ entry[n] \in {NoGen, last[n]}
    /\ last[n] # NoGen /\ state[last[n]] \in {"open", "closed"} => entry[n] = last[n]

\* The replay commands in q are those after the a-th up to the b-th, in order.
Gapless(q, a, b) ==
  /\ \A k \in (a + 1)..b : \E i \in DOMAIN q : q[i] = k
  /\ \A i \in DOMAIN q : q[i] \in {LiveCommand} \cup ((a + 1)..b)
  /\ \A i, j \in DOMAIN q : i < j /\ q[i] # LiveCommand /\ q[j] # LiveCommand => q[i] < q[j]

\* An agent that is connected has received its replay without a gap: what it
\* misses of the commands sent so far is in the channel, in order (the bounded
\* channel never truncates a replay, comment of subscribe_commands).
ReplayLossless ==
  \A g \in Gen : state[g] = "open" => Gapless(queue[g], got[g], sent[g])

\* A slow agent costs the panel at most Capacity queued commands (comment of
\* CHANNEL_CAPACITY), and a dead receiver none.
BoundedBacklog ==
  \A g \in Gen : Len(queue[g]) <= Capacity /\ (state[g] # "open" => queue[g] = <<>>)

\* A replay larger than the channel completes, or its connection breaks, whatever
\* the handlers dispatch in the meantime.
ReplayCompletes ==
  \A g \in Gen : replaying[g] ~> (got[g] = batch[g] \/ state[g] \in {"closed", "gone"})
-----------------------------------------------------------------------------
(* The parts of the inductive invariant. *)

\* An inserted subscription belongs to the node it was inserted for, and a
\* registered one has not dropped its guard.
RegistryKnown ==
  \A n \in Node :
    /\ last[n] # NoGen => node[last[n]] = n /\ state[last[n]] \in {"open", "closed", "gone"}
    /\ entry[n] # NoGen => state[entry[n]] \in {"open", "closed"}

\* Nothing is sent on a channel before it is inserted, and no more is received
\* of a replay than was sent.
ReplayOrder ==
  \A g \in Gen :
    /\ got[g] <= sent[g]
    /\ state[g] \in {"new", "numbered"} => sent[g] = 0 /\ queue[g] = <<>> /\ ~replaying[g]

\* Generations are handed out in order.
GenerationsTaken == \A g \in Gen : (g >= nextGen) <=> (state[g] = "new")

ChannelsInv ==
  /\ ChannelsTypeOK
  /\ RegistryKnown
  /\ LatestReachable
  /\ GenerationsTaken
  /\ ReplayOrder
  /\ ReplayLossless
  /\ BoundedBacklog
=============================================================================
