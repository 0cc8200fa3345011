--------------------------- MODULE ServiceProofs ---------------------------
(***************************************************************************)
(* Theorems about the two streams between the panel and an agent that      *)
(* grpc/service.rs serves: commands down (CommandChannels), for every set  *)
(* of nodes, channel capacity, replay size and number of subscriptions;    *)
(* and counters up (StatsPipeline), for every set of rules and every       *)
(* number of bytes, calls, failures, database errors and crashes.          *)
(***************************************************************************)
EXTENDS CommandChannels, StatsPipeline, TLAPS

(* CommandChannels. *)

USE CapacityAssumption, BatchAssumption, SubscriptionsAssumption

LEMMA ChannelsInitInv == ChannelsInit => ChannelsInv
<1> SUFFICES ASSUME ChannelsInit PROVE ChannelsInv
  OBVIOUS
<1> USE DEF ChannelsInit, Gen, NoGen
<1>1. ChannelsTypeOK
  BY DEF ChannelsTypeOK, State
<1>2. RegistryKnown /\ LatestReachable /\ GenerationsTaken
  BY DEF RegistryKnown, LatestReachable, GenerationsTaken
<1>3. ReplayOrder /\ ReplayLossless /\ BoundedBacklog
  BY DEF ReplayOrder, ReplayLossless, BoundedBacklog
<1> QED
  BY <1>1, <1>2, <1>3 DEF ChannelsInv

LEMMA TakeGenerationInv ==
  ASSUME ChannelsInv, NEW g \in Gen, TakeGeneration(g)
  PROVE  ChannelsInv'
<1> USE DEF ChannelsInv, TakeGeneration, channel
<1>1. ChannelsTypeOK'
  <2>1. nextGen' \in 1..(MaxSubscriptions + 1)
    BY DEF ChannelsTypeOK, Gen
  <2> QED
    BY <2>1 DEF ChannelsTypeOK, State
<1>2. state[g] = "new"
  BY DEF ChannelsTypeOK, GenerationsTaken, Gen
<1>3. RegistryKnown' /\ LatestReachable'
  BY <1>2 DEF ChannelsTypeOK, RegistryKnown, LatestReachable, NoGen
<1>4. GenerationsTaken'
  BY <1>2 DEF ChannelsTypeOK, GenerationsTaken, Gen
<1>5. ReplayOrder' /\ ReplayLossless' /\ BoundedBacklog'
  BY <1>2 DEF ChannelsTypeOK, ReplayOrder, ReplayLossless, BoundedBacklog
<1> QED
  BY <1>1, <1>3, <1>4, <1>5

LEMMA InsertInv ==
  ASSUME ChannelsInv, NEW g \in Gen, Insert(g)
  PROVE  ChannelsInv'
<1> USE DEF ChannelsInv, Insert, channel
<1>1. ChannelsTypeOK'
  BY DEF ChannelsTypeOK, State
<1>2. RegistryKnown'
  BY DEF ChannelsTypeOK, RegistryKnown, LatestReachable, NoGen, Gen
<1>3. LatestReachable'
  BY DEF ChannelsTypeOK, RegistryKnown, LatestReachable, NoGen, Gen
<1>4. GenerationsTaken'
  BY DEF ChannelsTypeOK, GenerationsTaken
<1>5. sent[g] = 0 /\ queue[g] = <<>> /\ got[g] = 0
  BY DEF ChannelsTypeOK, ReplayOrder
<1>6. ReplayOrder' /\ BoundedBacklog'
  BY <1>5 DEF ChannelsTypeOK, ReplayOrder, BoundedBacklog
<1>7. Gapless(<<>>, 0, 0)
  BY DEF Gapless
<1>8. ReplayLossless'
  BY <1>5, <1>7 DEF ChannelsTypeOK, ReplayLossless
<1> QED
  BY <1>1, <1>2, <1>3, <1>4, <1>6, <1>8

\* Appending a command to a channel with room keeps it in order.
LEMMA AppendKeeps ==
  ASSUME NEW q \in Seq(0..MaxBatch), NEW c \in 0..MaxBatch, Len(q) < Capacity,
         NEW a \in Nat, NEW b \in Nat, a <= b, Gapless(q, a, b),
         NEW d \in Nat, (c = LiveCommand /\ d = b) \/ (c = b + 1 /\ d = b + 1)
  PROVE  /\ Append(q, c) \in Seq(0..MaxBatch)
         /\ Len(Append(q, c)) <= Capacity
         /\ Gapless(Append(q, c), a, d)
<1> DEFINE r == Append(q, c)
<1> USE DEF LiveCommand
<1>1. r \in Seq(0..MaxBatch) /\ Len(r) = Len(q) + 1 /\ DOMAIN r = 1..(Len(q) + 1)
  OBVIOUS
<1>2. r[Len(q) + 1] = c /\ \A i \in DOMAIN q : i \in DOMAIN r /\ r[i] = q[i]
  OBVIOUS
<1>3. \A i \in DOMAIN r : i \in DOMAIN q \/ i = Len(q) + 1
  BY <1>1
<1>4. DOMAIN q = 1..Len(q) /\ Len(q) \in Nat
  OBVIOUS
<1>5. /\ \A k \in (a + 1)..b : \E i \in DOMAIN q : q[i] = k
      /\ \A i \in DOMAIN q : q[i] \in {LiveCommand} \cup ((a + 1)..b)
      /\ \A i, j \in DOMAIN q : i < j /\ q[i] # LiveCommand /\ q[j] # LiveCommand => q[i] < q[j]
  BY DEF Gapless
<1>6. Len(r) <= Capacity
  BY <1>1, <1>4
<1> HIDE DEF r
<1>7. ASSUME NEW k \in (a + 1)..d PROVE \E i \in DOMAIN r : r[i] = k
  <2>1. CASE k \in (a + 1)..b
    <3>1. PICK i \in DOMAIN q : q[i] = k
      BY <2>1, <1>5
    <3> QED
      BY <3>1, <1>2
  <2>2. CASE k \notin (a + 1)..b
    <3>1. k = b + 1 /\ c = k
      BY <2>2
    <3> QED
      BY <3>1, <1>1, <1>2, <1>4
  <2> QED
    BY <2>1, <2>2
<1>8. \A i \in DOMAIN r : r[i] \in {LiveCommand} \cup ((a + 1)..d)
  BY <1>2, <1>3, <1>5
<1>9. ASSUME NEW i \in DOMAIN r, NEW j \in DOMAIN r,
             i < j, r[i] # LiveCommand, r[j] # LiveCommand
      PROVE  r[i] < r[j]
  <2>1. i \in DOMAIN q /\ r[i] = q[i]
    BY <1>1, <1>2, <1>3, <1>4, <1>9
  <2>2. CASE j \in DOMAIN q
    BY <2>1, <2>2, <1>2, <1>5, <1>9
  <2>3. CASE j = Len(q) + 1
    <3>1. c = b + 1 /\ r[j] = c
      BY <2>3, <1>2, <1>9
    <3>2. r[i] \in (a + 1)..b
      BY <2>1, <1>5, <1>9
    <3> QED
      BY <3>1, <3>2
  <2> QED
    BY <2>2, <2>3, <1>3
<1>10. Gapless(r, a, d)
  BY <1>7, <1>8, <1>9 DEF Gapless
<1> QED
  BY <1>1, <1>6, <1>10 DEF r

\* Taking the oldest command out leaves no gap behind it.
LEMMA TailKeeps ==
  ASSUME NEW q \in Seq(0..MaxBatch), q # <<>>,
         NEW a \in Nat, NEW b \in Nat, a <= b, Gapless(q, a, b),
         NEW d, d = (IF Head(q) = LiveCommand THEN a ELSE Head(q))
  PROVE  /\ Tail(q) \in Seq(0..MaxBatch)
         /\ Len(Tail(q)) < Len(q)
         /\ d \in a..b
         /\ Gapless(Tail(q), d, b)
<1> USE DEF LiveCommand
<1>1. /\ Tail(q) \in Seq(0..MaxBatch) /\ Len(q) \in Nat \ {0}
      /\ DOMAIN q = 1..Len(q) /\ DOMAIN Tail(q) = 1..(Len(q) - 1) /\ Head(q) = q[1]
      /\ Len(Tail(q)) = Len(q) - 1
  OBVIOUS
<1>2. \A i \in DOMAIN Tail(q) : i + 1 \in DOMAIN q /\ i + 1 > 1 /\ Tail(q)[i] = q[i + 1]
  BY <1>1
<1>3. /\ \A k \in (a + 1)..b : \E i \in DOMAIN q : q[i] = k
      /\ \A i \in DOMAIN q : q[i] \in {LiveCommand} \cup ((a + 1)..b)
      /\ \A i, j \in DOMAIN q : i < j /\ q[i] # LiveCommand /\ q[j] # LiveCommand => q[i] < q[j]
  BY DEF Gapless
<1>4. d \in a..b
  BY <1>1, <1>3
<1>5. ASSUME NEW k \in (d + 1)..b PROVE \E i \in DOMAIN Tail(q) : Tail(q)[i] = k
  <2>1. PICK i \in DOMAIN q : q[i] = k
    BY <1>3, <1>4
  <2>2. i # 1
    BY <2>1, <1>1, <1>4
  <2>3. i - 1 \in DOMAIN Tail(q) /\ (i - 1) + 1 = i
    BY <2>2, <1>1
  <2> QED
    BY <2>1, <2>3, <1>2
<1>6. ASSUME NEW i \in DOMAIN Tail(q) PROVE Tail(q)[i] \in {LiveCommand} \cup ((d + 1)..b)
  <2>1. 1 \in DOMAIN q /\ i + 1 \in DOMAIN q /\ 1 < i + 1 /\ Tail(q)[i] = q[i + 1]
    BY <1>1, <1>2
  <2>2. CASE q[1] = LiveCommand
    BY <2>1, <2>2, <1>1, <1>3
  <2>3. CASE q[1] # LiveCommand
    <3>1. q[i + 1] # LiveCommand => q[1] < q[i + 1]
      BY <2>1, <2>3, <1>3
    <3>2. q[i + 1] \in {LiveCommand} \cup ((a + 1)..b) /\ d = q[1] /\ q[1] \in (a + 1)..b
      BY <2>1, <2>3, <1>1, <1>3
    <3> QED
      BY <2>1, <3>1, <3>2
  <2> QED
    BY <2>2, <2>3
<1>7. ASSUME NEW i \in DOMAIN Tail(q), NEW j \in DOMAIN Tail(q),
             i < j, Tail(q)[i] # LiveCommand, Tail(q)[j] # LiveCommand
      PROVE  Tail(q)[i] < Tail(q)[j]
  <2>1. i + 1 < j + 1
    BY <1>1, <1>7
  <2> QED
    BY <2>1, <1>2, <1>3, <1>7
<1> QED
  BY <1>1, <1>4, <1>5, <1>6, <1>7 DEF Gapless

LEMMA DispatchInv ==
  ASSUME ChannelsInv, NEW n \in Node, Dispatch(n)
  PROVE  ChannelsInv'
<1> USE DEF ChannelsInv
<1>1. /\ UNCHANGED <<nextGen, entry, node, last, state, batch, sent, replaying, got>>
      /\ queue' = [g \in Gen |-> IF entry[n] = g /\ Accepts(n)
                                 THEN Append(queue[g], LiveCommand) ELSE queue[g]]
  BY DEF Dispatch, registry
<1>2. ASSUME NEW g \in Gen
      PROVE  /\ queue'[g] \in Seq(0..MaxBatch)
             /\ Len(queue'[g]) <= Capacity
             /\ state[g] # "open" => queue'[g] = <<>>
             /\ state[g] = "open" => Gapless(queue'[g], got[g], sent[g])
  <2>1. CASE entry[n] = g /\ Accepts(n)
    <3>1. queue'[g] = Append(queue[g], LiveCommand) /\ state[g] = "open"
          /\ Len(queue[g]) < Capacity
      BY <2>1, <1>1 DEF Accepts
    <3>2. queue[g] \in Seq(0..MaxBatch) /\ LiveCommand \in 0..MaxBatch
          /\ got[g] \in Nat /\ sent[g] \in Nat /\ got[g] <= sent[g]
          /\ Gapless(queue[g], got[g], sent[g])
      BY <3>1 DEF ChannelsTypeOK, ReplayOrder, ReplayLossless, LiveCommand
    <3> QED
      BY <3>1, <3>2, AppendKeeps
  <2>2. CASE ~(entry[n] = g /\ Accepts(n))
    BY <2>2, <1>1 DEF ChannelsTypeOK, ReplayLossless, BoundedBacklog
  <2> QED
    BY <2>1, <2>2
<1>3. ChannelsTypeOK'
  BY <1>1, <1>2 DEF ChannelsTypeOK
<1>4. RegistryKnown' /\ LatestReachable' /\ GenerationsTaken'
  BY <1>1 DEF RegistryKnown, LatestReachable, GenerationsTaken
<1>5. ReplayOrder' /\ BoundedBacklog'
  BY <1>1, <1>2 DEF ReplayOrder, BoundedBacklog
<1>6. ReplayLossless'
  BY <1>1, <1>2 DEF ReplayLossless
<1> QED
  BY <1>3, <1>4, <1>5, <1>6

LEMMA ReplaySendInv ==
  ASSUME ChannelsInv, NEW g \in Gen, ReplaySend(g)
  PROVE  ChannelsInv'
<1> USE DEF ChannelsInv
<1>1. /\ sent[g] < batch[g] /\ state[g] = "open" /\ Len(queue[g]) < Capacity
      /\ sent' = [sent EXCEPT ![g] = @ + 1]
      /\ queue' = [queue EXCEPT ![g] = Append(@, sent[g] + 1)]
      /\ UNCHANGED <<nextGen, entry, node, last, state, batch, replaying, got>>
  BY DEF ReplaySend, registry
<1>2. /\ queue[g] \in Seq(0..MaxBatch) /\ sent[g] + 1 \in 0..MaxBatch
      /\ got[g] \in Nat /\ sent[g] \in Nat /\ got[g] <= sent[g]
      /\ Gapless(queue[g], got[g], sent[g])
  BY <1>1 DEF ChannelsTypeOK, ReplayOrder, ReplayLossless
<1>3. queue'[g] = Append(queue[g], sent[g] + 1) /\ sent'[g] = sent[g] + 1
  BY <1>1 DEF ChannelsTypeOK
<1>4. /\ queue'[g] \in Seq(0..MaxBatch)
      /\ Len(queue'[g]) <= Capacity
      /\ Gapless(queue'[g], got[g], sent'[g])
  <2>1. /\ Append(queue[g], sent[g] + 1) \in Seq(0..MaxBatch)
        /\ Len(Append(queue[g], sent[g] + 1)) <= Capacity
        /\ Gapless(Append(queue[g], sent[g] + 1), got[g], sent[g] + 1)
    <3>1. sent[g] + 1 \in Nat /\ Len(queue[g]) < Capacity
      BY <1>1, <1>2
    <3> QED
      BY <1>2, <3>1, AppendKeeps
  <2> QED
    BY <1>3, <2>1
<1>5. \A h \in Gen \ {g} : queue'[h] = queue[h] /\ sent'[h] = sent[h]
  BY <1>1 DEF ChannelsTypeOK
<1>6. ChannelsTypeOK'
  <2>1. queue' \in [Gen -> Seq(0..MaxBatch)]
    BY <1>1, <1>3, <1>4 DEF ChannelsTypeOK
  <2>2. sent' \in [Gen -> 0..MaxBatch]
    BY <1>1, <1>2 DEF ChannelsTypeOK
  <2> QED
    BY <1>1, <2>1, <2>2 DEF ChannelsTypeOK
<1>7. RegistryKnown' /\ LatestReachable' /\ GenerationsTaken'
  BY <1>1 DEF RegistryKnown, LatestReachable, GenerationsTaken
<1>8. ReplayOrder' /\ BoundedBacklog'
  BY <1>1, <1>2, <1>3, <1>4, <1>5 DEF ReplayOrder, BoundedBacklog
<1>9. ReplayLossless'
  BY <1>1, <1>4, <1>5 DEF ReplayLossless
<1> QED
  BY <1>6, <1>7, <1>8, <1>9

LEMMA ReplayEndInv ==
  ASSUME ChannelsInv, NEW g \in Gen, ReplayEnd(g)
  PROVE  ChannelsInv'
<1> USE DEF ChannelsInv, ReplayEnd, registry, channel
<1>1. ChannelsTypeOK'
  BY DEF ChannelsTypeOK
<1>2. RegistryKnown' /\ LatestReachable' /\ GenerationsTaken'
  BY DEF RegistryKnown, LatestReachable, GenerationsTaken
<1>3. ReplayOrder' /\ ReplayLossless' /\ BoundedBacklog'
  BY DEF ChannelsTypeOK, ReplayOrder, ReplayLossless, BoundedBacklog
<1> QED
  BY <1>1, <1>2, <1>3

LEMMA DeliverInv ==
  ASSUME ChannelsInv, NEW g \in Gen, Deliver(g)
  PROVE  ChannelsInv'
<1> USE DEF ChannelsInv
<1> DEFINE d == IF Head(queue[g]) = LiveCommand THEN got[g] ELSE Head(queue[g])
<1>1. /\ state[g] = "open" /\ queue[g] # <<>>
      /\ queue' = [queue EXCEPT ![g] = Tail(@)]
      /\ got' = [got EXCEPT ![g] = d]
      /\ UNCHANGED <<nextGen, entry, node, last, state, batch, sent, replaying>>
  BY DEF Deliver, registry
<1>2. /\ queue[g] \in Seq(0..MaxBatch) /\ got[g] \in Nat /\ sent[g] \in 0..MaxBatch
      /\ got[g] <= sent[g] /\ Gapless(queue[g], got[g], sent[g]) /\ Len(queue[g]) <= Capacity
  BY <1>1 DEF ChannelsTypeOK, ReplayOrder, ReplayLossless, BoundedBacklog
<1>3. queue'[g] = Tail(queue[g]) /\ got'[g] = d
  BY <1>1 DEF ChannelsTypeOK
<1>4. /\ queue'[g] \in Seq(0..MaxBatch)
      /\ Len(queue'[g]) < Len(queue[g])
      /\ got'[g] \in got[g]..sent[g]
      /\ Gapless(queue'[g], got'[g], sent[g])
  <2>1. /\ Tail(queue[g]) \in Seq(0..MaxBatch)
        /\ Len(Tail(queue[g])) < Len(queue[g])
        /\ d \in got[g]..sent[g]
        /\ Gapless(Tail(queue[g]), d, sent[g])
    <3>1. sent[g] \in Nat /\ queue[g] # <<>>
      BY <1>1, <1>2
    <3> QED
      BY <1>2, <3>1, TailKeeps
  <2> QED
    BY <1>3, <2>1
<1> HIDE DEF d
<1>5. \A h \in Gen \ {g} : queue'[h] = queue[h] /\ got'[h] = got[h]
  BY <1>1 DEF ChannelsTypeOK
<1>6. ChannelsTypeOK'
  <2>1. queue' \in [Gen -> Seq(0..MaxBatch)]
    BY <1>1, <1>3, <1>4 DEF ChannelsTypeOK
  <2>2. got' \in [Gen -> 0..MaxBatch]
    BY <1>1, <1>2, <1>3, <1>4 DEF ChannelsTypeOK
  <2> QED
    BY <1>1, <2>1, <2>2 DEF ChannelsTypeOK
<1>7. RegistryKnown' /\ LatestReachable' /\ GenerationsTaken'
  BY <1>1 DEF RegistryKnown, LatestReachable, GenerationsTaken
<1>8. ReplayOrder'
  BY <1>1, <1>2, <1>4, <1>5 DEF ReplayOrder
<1>9. BoundedBacklog'
  <2>1. Len(queue'[g]) <= Capacity
    BY <1>2, <1>4
  <2> QED
    BY <1>1, <2>1, <1>5 DEF BoundedBacklog
<1>10. ReplayLossless'
  BY <1>1, <1>4, <1>5 DEF ReplayLossless
<1> QED
  BY <1>6, <1>7, <1>8, <1>9, <1>10

LEMMA DropReceiverInv ==
  ASSUME ChannelsInv, NEW g \in Gen, state[g] = "open", DropReceiver(g)
  PROVE  ChannelsInv'
<1> USE DEF ChannelsInv, DropReceiver, registry
<1>1. ChannelsTypeOK'
  BY DEF ChannelsTypeOK, State
<1>2. RegistryKnown' /\ LatestReachable' /\ GenerationsTaken'
  BY DEF ChannelsTypeOK, RegistryKnown, LatestReachable, GenerationsTaken
<1>3. ReplayOrder' /\ ReplayLossless' /\ BoundedBacklog'
  BY DEF ChannelsTypeOK, ReplayOrder, ReplayLossless, BoundedBacklog
<1> QED
  BY <1>1, <1>2, <1>3

\* The generation test is what keeps a successor registered.
LEMMA UnsubscribeIfInv ==
  ASSUME ChannelsInv, NEW g \in Gen, UnsubscribeIf(g)
  PROVE  ChannelsInv'
<1> USE DEF ChannelsInv, UnsubscribeIf, channel
<1>1. ChannelsTypeOK'
  BY DEF ChannelsTypeOK, State
<1>2. RegistryKnown'
  <2> SUFFICES ASSUME NEW n \in Node
               PROVE  /\ last[n] # NoGen =>
                           node[last[n]] = n /\ state'[last[n]] \in {"open", "closed", "gone"}
                      /\ entry'[n] # NoGen => state'[entry'[n]] \in {"open", "closed"}
    BY DEF RegistryKnown
  <2>1. entry'[n] # NoGen => entry'[n] = entry[n] /\ entry[n] # g
    BY DEF ChannelsTypeOK, RegistryKnown, LatestReachable, NoGen, Gen
  <2> QED
    BY <2>1 DEF ChannelsTypeOK, RegistryKnown
<1>3. LatestReachable'
  BY DEF ChannelsTypeOK, RegistryKnown, LatestReachable, NoGen, Gen
<1>4. GenerationsTaken'
  BY DEF ChannelsTypeOK, GenerationsTaken
<1>5. ReplayOrder' /\ ReplayLossless' /\ BoundedBacklog'
  BY DEF ChannelsTypeOK, ReplayOrder, ReplayLossless, BoundedBacklog
<1> QED
  BY <1>1, <1>2, <1>3, <1>4, <1>5

LEMMA ChannelsNextInv == ChannelsInv /\ [ChannelsNext]_chanVars => ChannelsInv'
<1> SUFFICES ASSUME ChannelsInv, [ChannelsNext]_chanVars PROVE ChannelsInv'
  OBVIOUS
<1>1. CASE UNCHANGED chanVars
  BY <1>1 DEF chanVars, ChannelsInv, ChannelsTypeOK, RegistryKnown, LatestReachable,
              GenerationsTaken, ReplayOrder, ReplayLossless, BoundedBacklog
<1>2. ASSUME NEW n \in Node, Dispatch(n) PROVE ChannelsInv'
  BY <1>2, DispatchInv
<1>3. ASSUME NEW g \in Gen, TakeGeneration(g) \/ Disconnect(g) \/ Advance(g)
      PROVE  ChannelsInv'
  <2>1. CASE TakeGeneration(g)
    BY <2>1, TakeGenerationInv
  <2>2. CASE Insert(g)
    BY <2>2, InsertInv
  <2>3. CASE ReplaySend(g)
    BY <2>3, ReplaySendInv
  <2>4. CASE ReplayEnd(g)
    BY <2>4, ReplayEndInv
  <2>5. CASE Deliver(g)
    BY <2>5, DeliverInv
  <2>6. CASE EndOfStream(g) \/ Disconnect(g)
    BY <2>6, DropReceiverInv DEF EndOfStream, Disconnect
  <2>7. CASE UnsubscribeIf(g)
    BY <2>7, UnsubscribeIfInv
  <2> QED
    BY <1>3, <2>1, <2>2, <2>3, <2>4, <2>5, <2>6, <2>7 DEF Advance
<1> QED
  BY <1>1, <1>2, <1>3 DEF ChannelsNext

\* The inductive invariant of the command channels.
THEOREM ChannelsInvariant == ChannelsSpec => []ChannelsInv
  BY ChannelsInitInv, ChannelsNextInv, PTL DEF ChannelsSpec

\* A stream that ends late never unplugs the subscription that replaced it, for any
\* number of subscriptions, inserted in any order.
THEOREM LatestStaysReachable == ChannelsSpec => []LatestReachable
<1>1. ChannelsInv => LatestReachable
  BY DEF ChannelsInv
<1> QED
  BY <1>1, ChannelsInvariant, PTL

\* A replay of any size passes a channel of any capacity without a gap.
THEOREM ReplayIsLossless == ChannelsSpec => []ReplayLossless
<1>1. ChannelsInv => ReplayLossless
  BY DEF ChannelsInv
<1> QED
  BY <1>1, ChannelsInvariant, PTL

\* A slow agent costs at most Capacity queued commands.
THEOREM BacklogIsBounded == ChannelsSpec => []BoundedBacklog
<1>1. ChannelsInv => BoundedBacklog
  BY DEF ChannelsInv
<1> QED
  BY <1>1, ChannelsInvariant, PTL

-----------------------------------------------------------------------------
(* StatsPipeline. *)

USE StatsAssumption

LEMMA StatsInitInv == StatsInit => StatsInv /\ Conserved
<1> SUFFICES ASSUME StatsInit PROVE StatsInv /\ Conserved
  OBVIOUS
<1> USE DEF StatsInit, Zero
<1>1. StatsTypeOK
  BY DEF StatsTypeOK, Call
<1>2. ReportInv
  BY DEF ReportInv, Call
<1>3. \A r \in Rule : Zero[r] = 0 /\ Outstanding(r) = 0
  BY DEF Outstanding
<1>4. rows = Rule /\ \A r \in Rule : moved[r] = 0 /\ twice[r] = 0 /\ total[r] = 0
                                   /\ counter[r] = 0 /\ gone[r] = 0 /\ lost[r] = 0
  OBVIOUS
<1>5. Conserved
  <2>1. Conserved <=> \A r \in Rule : 0 + 0 = 0 + 0 + 0 + 0 + 0
    BY <1>3, <1>4, Zenon DEF Conserved
  <2> QED
    BY <2>1
<1> QED
  BY <1>1, <1>2, <1>5 DEF StatsInv

\* The snapshot never answers for more than it holds.
LEMMA OutstandingBounded ==
  ASSUME StatsTypeOK, NEW r \in Rule
  PROVE  Outstanding(r) \in Nat /\ held[r] - Outstanding(r) \in Nat
  BY DEF StatsTypeOK, Outstanding

\* Every amount of bytes is a natural number.
LEMMA BytesNat ==
  ASSUME StatsTypeOK, NEW r \in Rule
  PROVE  /\ moved[r] \in Nat /\ twice[r] \in Nat /\ total[r] \in Nat /\ counter[r] \in Nat
         /\ held[r] \in Nat /\ gone[r] \in Nat /\ lost[r] \in Nat /\ Outstanding(r) \in Nat
  BY DEF StatsTypeOK, Outstanding

LEMMA StatsTypeNext ==
  ASSUME StatsTypeOK, StatsNext
  PROVE  StatsTypeOK'
<1> USE DEF StatsTypeOK, panelVars, bounds, history, agentVars
<1>0. Zero \in [Rule -> Nat]
  BY DEF Zero
<1>1. CASE StartReport \/ SkipReport \/ EndRestore \/ Start
  BY <1>1 DEF StartReport, SkipReport, EndRestore, Start
<1>2. CASE Send
  <2>1. calls' \in 1..MaxReports /\ calls' \in Call /\ calls' = calls + 1
    BY <1>2 DEF Send, Call
  <2>2. serving' \subseteq 1..calls'
    BY <1>2, <2>1 DEF Send
  <2>3. amount' \in [Call -> [Rule -> Nat]] /\ left' \in [Call -> SUBSET Rule]
    BY <1>2, <2>1 DEF Send
  <2> QED
    BY <1>2, <2>1, <2>2, <2>3 DEF Send
<1>3. CASE AckOk
  <2>1. lost' \in [Rule -> Nat]
    BY <1>3, OutstandingBounded DEF AckOk
  <2> QED
    BY <1>0, <1>3, <2>1 DEF AckOk
<1>4. CASE CallFailed
  <2>1. twice' \in [Rule -> Nat]
    BY <1>4, OutstandingBounded DEF CallFailed
  <2> QED
    BY <1>4, <2>1 DEF CallFailed
<1>5. CASE Crash
  <2>1. gone' \in [Rule -> Nat]
    BY <1>5, OutstandingBounded DEF Crash
  <2> QED
    BY <1>0, <1>5, <2>1 DEF Crash
<1>6. ASSUME NEW r \in Rule, Relay(r) \/ Drain(r) \/ Restore(r) \/ Remove(r) \/ PanelDelete(r)
      PROVE  StatsTypeOK'
  <2>1. CASE Relay(r)
    BY <2>1 DEF Relay
  <2>2. CASE Drain(r)
    BY <2>2 DEF Drain
  <2>3. CASE Restore(r)
    BY <2>3 DEF Restore
  <2>4. CASE Remove(r)
    <3>1. counter' \in [Rule -> Nat]
      BY <2>4 DEF Remove
    <3> QED
      BY <2>4, <3>1 DEF Remove
  <2>5. CASE PanelDelete(r)
    BY <2>5 DEF PanelDelete
  <2> QED
    BY <1>6, <2>1, <2>2, <2>3, <2>4, <2>5
<1>7. ASSUME NEW c \in Call, NEW r \in Rule, Commit(c, r)
      PROVE  StatsTypeOK'
  <2>1. total' \in [Rule -> Nat] /\ twice' \in [Rule -> Nat]
    BY <1>7 DEF Commit
  <2>2. left' \in [Call -> SUBSET Rule] /\ done' \in [Call -> SUBSET Rule]
    BY <1>7 DEF Commit, Reach
  <2> QED
    BY <1>7, <2>1, <2>2 DEF Commit
<1>8. ASSUME NEW c \in Call, NEW r \in Rule, Discard(c, r) \/ DbError(c, r)
      PROVE  StatsTypeOK'
  BY <1>8 DEF Discard, DbError, Reach
<1>9. ASSUME NEW c \in Call, DropHandler(c)
      PROVE  StatsTypeOK'
  BY <1>9 DEF DropHandler
<1> QED
  BY <1>1, <1>2, <1>3, <1>4, <1>5, <1>6, <1>7, <1>8, <1>9 DEF StatsNext, AgentStep, Serve

LEMMA ReportNext ==
  ASSUME StatsInv, StatsNext
  PROVE  ReportInv'
<1> USE DEF StatsInv, StatsTypeOK, ReportInv, panelVars, bounds, history, agentVars
<1>1. CASE StartReport \/ SkipReport \/ Start
  BY <1>1 DEF StartReport, SkipReport, Start, Zero
<1>2. CASE EndRestore
  <2>1. held = Zero
    BY <1>2 DEF EndRestore, Zero
  <2> QED
    BY <1>2, <2>1 DEF EndRestore
<1>3. CASE Send
  <2>1. calls' \in Call /\ calls' = calls + 1
    BY <1>3 DEF Send, Call
  <2>2. amount'[calls'] = held /\ held' = held /\ calls' > 0
    BY <1>3, <2>1 DEF Send
  <2>3. ASSUME NEW c \in Call
        PROVE  left'[c] \cap done'[c] = {} /\ (c > calls' => left'[c] = {} /\ done'[c] = {})
    BY <1>3, <2>1 DEF Send, Call
  <2> QED
    BY <1>3, <2>2, <2>3 DEF Send
<1>4. CASE AckOk \/ CallFailed \/ Crash
  BY <1>4 DEF AckOk, CallFailed, Crash
<1>5. ASSUME NEW r \in Rule, Relay(r) \/ Drain(r) \/ Restore(r) \/ Remove(r) \/ PanelDelete(r)
      PROVE  ReportInv'
  BY <1>5 DEF Relay, Drain, Restore, Remove, PanelDelete
<1>6. ASSUME NEW c \in Call, NEW r \in Rule, Serve(c, r) \/ DbError(c, r)
      PROVE  ReportInv'
  <2>1. /\ r \in left[c] /\ c \in 1..calls /\ left' = [left EXCEPT ![c] = @ \ {r}]
        /\ done' = done \/ done' = [done EXCEPT ![c] = @ \cup {r}]
        /\ UNCHANGED <<phase, held, todo, calls, amount>>
    BY <1>6 DEF Serve, Commit, Discard, DbError, Reach
  <2>2. ASSUME NEW d \in Call
        PROVE  left'[d] \cap done'[d] = {} /\ (d > calls' => left'[d] = {} /\ done'[d] = {})
    BY <2>1
  <2> QED
    BY <2>1, <2>2
<1>7. ASSUME NEW c \in Call, DropHandler(c)
      PROVE  ReportInv'
  BY <1>7 DEF DropHandler
<1> QED
  BY <1>1, <1>2, <1>3, <1>4, <1>5, <1>6, <1>7 DEF StatsNext, AgentStep

\* A commit moves the bytes of one bucket: out of the snapshot while the agent waits
\* for this call, and to the bytes that are counted twice otherwise.
LEMMA CommitConserves ==
  ASSUME StatsInv, Conserved, NEW c \in Call, NEW r \in Rule, Commit(c, r)
  PROVE  Conserved'
<1> USE DEF StatsInv, StatsTypeOK, ReportInv
<1>1. /\ r \in left[c] /\ r \notin done[c] /\ done' = [done EXCEPT ![c] = @ \cup {r}]
      /\ total' = [total EXCEPT ![r] = @ + amount[c][r]]
      /\ UNCHANGED <<rows, phase, held, counter, calls, moved, gone, lost>>
  BY DEF Commit, Reach, agentVars, bounds
<1>0. rows \subseteq Rule
  OBVIOUS
<1>2. amount[c][r] \in Nat
  OBVIOUS
<1>3. CASE Awaited(c)
  <2>1. amount[c][r] = held[r] /\ twice' = twice /\ c = calls /\ phase = "wait"
    BY <1>3 DEF Awaited, Commit
  <2>2. Outstanding(r) = held[r] /\ Outstanding(r)' = 0
    BY <1>1, <2>1 DEF Outstanding
  <2>3. \A q \in Rule \ {r} : Outstanding(q)' = Outstanding(q)
    BY <1>1, <2>1 DEF Outstanding
  <2>4. total'[r] = total[r] + held[r] /\ \A q \in Rule \ {r} : total'[q] = total[q]
    BY <1>1, <2>1
  <2> HIDE DEF StatsInv, StatsTypeOK, ReportInv
  <2> QED
    BY <1>0, <1>1, <1>2, <2>1, <2>2, <2>3, <2>4, BytesNat DEF Conserved, StatsInv
<1>4. CASE ~Awaited(c)
  <2>1. twice' = [twice EXCEPT ![r] = @ + amount[c][r]]
    BY <1>4 DEF Commit
  <2>2. \A q \in Rule : Outstanding(q)' = Outstanding(q)
    BY <1>1, <1>4 DEF Outstanding, Awaited
  <2>3. /\ total'[r] = total[r] + amount[c][r] /\ twice'[r] = twice[r] + amount[c][r]
        /\ \A q \in Rule \ {r} : total'[q] = total[q] /\ twice'[q] = twice[q]
    BY <1>1, <2>1
  <2> HIDE DEF StatsInv, StatsTypeOK, ReportInv
  <2> QED
    BY <1>0, <1>1, <1>2, <2>2, <2>3, BytesNat DEF Conserved, StatsInv
<1> QED
  BY <1>3, <1>4

LEMMA ConservedNext ==
  ASSUME StatsInv, Conserved, StatsNext
  PROVE  Conserved'
<1> USE DEF StatsInv, StatsTypeOK, ReportInv, panelVars, bounds, history, agentVars
<1>0. /\ rows \subseteq Rule
      /\ \A r \in Rule :
           /\ moved[r] \in Nat /\ twice[r] \in Nat /\ total[r] \in Nat /\ counter[r] \in Nat
           /\ held[r] \in Nat /\ gone[r] \in Nat /\ lost[r] \in Nat /\ Outstanding(r) \in Nat
           /\ Zero[r] = 0
  BY BytesNat DEF Zero
<1>1. CASE StartReport \/ SkipReport \/ EndRestore \/ Start
  BY <1>1 DEF StartReport, SkipReport, EndRestore, Start, Conserved, Outstanding
<1>2. CASE Send
  <2>1. done[calls'] = {} /\ UNCHANGED <<done, held>>
    BY <1>2 DEF Send, Call
  <2>2. \A r \in Rule : Outstanding(r) = held[r] /\ Outstanding(r)' = held[r]
    BY <1>2, <2>1 DEF Send, Outstanding
  <2> QED
    BY <1>2, <2>2 DEF Send, Conserved
<1>3. CASE AckOk
  <2>1. \A r \in Rule : Outstanding(r)' = 0 /\ lost'[r] = lost[r] + Outstanding(r)
    BY <1>0, <1>3 DEF AckOk, Outstanding
  <2>2. UNCHANGED <<rows, total, counter, moved, twice, gone>>
    BY <1>3 DEF AckOk
  <2> HIDE DEF StatsInv, StatsTypeOK, ReportInv
  <2> QED
    BY <1>0, <2>1, <2>2 DEF Conserved
<1>4. CASE CallFailed
  <2>1. \A r \in Rule : /\ Outstanding(r)' = held[r]
                        /\ twice'[r] = twice[r] + (held[r] - Outstanding(r))
    BY <1>4 DEF CallFailed, Outstanding
  <2>2. /\ UNCHANGED <<rows, total, counter, moved, gone, lost>>
        /\ \A r \in Rule : held[r] - Outstanding(r) \in Nat
    BY <1>4, OutstandingBounded DEF CallFailed
  <2> HIDE DEF StatsInv, StatsTypeOK, ReportInv
  <2> QED
    BY <1>0, <2>1, <2>2 DEF Conserved
<1>5. CASE Crash
  <2>1. \A r \in Rule : /\ Outstanding(r)' = 0 /\ counter'[r] = 0
                        /\ gone'[r] = gone[r] + counter[r] + Outstanding(r)
    BY <1>0, <1>5 DEF Crash, Outstanding
  <2>2. UNCHANGED <<rows, total, moved, twice, lost>>
    BY <1>5 DEF Crash
  <2> HIDE DEF StatsInv, StatsTypeOK, ReportInv
  <2> QED
    BY <1>0, <2>1, <2>2 DEF Conserved
<1>6. ASSUME NEW r \in Rule, Relay(r) PROVE Conserved'
  <2>1. \A q \in Rule : /\ Outstanding(q)' = Outstanding(q)
                        /\ \E d \in {0, 1} : /\ moved'[q] = moved[q] + d
                                            /\ counter'[q] = counter[q] + d
    BY <1>6 DEF Relay, Outstanding
  <2>2. UNCHANGED <<rows, total, twice, gone, lost>>
    BY <1>6 DEF Relay
  <2> HIDE DEF StatsInv, StatsTypeOK, ReportInv
  <2> QED
    BY <1>0, <2>1, <2>2 DEF Conserved
<1>7. ASSUME NEW r \in Rule, Remove(r) \/ PanelDelete(r) PROVE Conserved'
  <2>1. \A q \in Rule : Outstanding(q)' = Outstanding(q)
    BY <1>7 DEF Remove, PanelDelete, Outstanding
  <2>2. /\ rows' \subseteq rows /\ \A q \in rows' : counter'[q] = counter[q]
        /\ UNCHANGED <<total, moved, twice, gone, lost>>
    BY <1>7 DEF Remove, PanelDelete
  <2> HIDE DEF StatsInv, StatsTypeOK, ReportInv
  <2> QED
    BY <1>0, <2>1, <2>2 DEF Conserved
<1>8. ASSUME NEW r \in Rule, Drain(r) \/ Restore(r) PROVE Conserved'
  <2>1. \A q \in Rule : Outstanding(q) = held[q] /\ Outstanding(q)' = held'[q]
    BY <1>8 DEF Drain, Restore, Outstanding
  <2>2. CASE Drain(r)
    <3>1. /\ held[r] = 0 /\ held'[r] = counter[r] /\ counter'[r] = 0
          /\ \A q \in Rule \ {r} : held'[q] = held[q] /\ counter'[q] = counter[q]
          /\ UNCHANGED <<rows, total, moved, twice, gone, lost>>
      BY <2>2 DEF Drain
    <3> HIDE DEF StatsInv, StatsTypeOK, ReportInv
    <3> QED
      BY <1>0, <2>1, <3>1 DEF Conserved
  <2>3. CASE Restore(r)
    <3>1. /\ held'[r] = 0 /\ counter'[r] = counter[r] + held[r]
          /\ \A q \in Rule \ {r} : held'[q] = held[q] /\ counter'[q] = counter[q]
          /\ UNCHANGED <<rows, total, moved, twice, gone, lost>>
      BY <2>3 DEF Restore
    <3> HIDE DEF StatsInv, StatsTypeOK, ReportInv
    <3> QED
      BY <1>0, <2>1, <3>1 DEF Conserved
  <2> QED
    BY <1>8, <2>2, <2>3
<1>9. ASSUME NEW c \in Call, NEW r \in Rule, Commit(c, r)
      PROVE  Conserved'
  BY <1>9, CommitConserves
<1>10. ASSUME NEW c \in Call, NEW r \in Rule, Discard(c, r) \/ DbError(c, r)
      PROVE  Conserved'
  BY <1>10 DEF Discard, DbError, Reach, Conserved, Outstanding
<1>11. ASSUME NEW c \in Call, DropHandler(c)
       PROVE  Conserved'
  BY <1>11 DEF DropHandler, Conserved, Outstanding
<1> QED
  BY <1>1, <1>2, <1>3, <1>4, <1>5, <1>6, <1>7, <1>8, <1>9, <1>10, <1>11
     DEF StatsNext, AgentStep, Serve

LEMMA StatsNextInv == (StatsInv /\ Conserved) /\ [StatsNext]_statsVars => (StatsInv /\ Conserved)'
<1> SUFFICES ASSUME StatsInv, Conserved, [StatsNext]_statsVars PROVE (StatsInv /\ Conserved)'
  OBVIOUS
<1>1. CASE StatsNext
  BY <1>1, StatsTypeNext, ReportNext, ConservedNext DEF StatsInv
<1>2. CASE UNCHANGED statsVars
  BY <1>2 DEF statsVars, panelVars, agentVars, bounds, history, StatsInv, StatsTypeOK,
              ReportInv, Conserved, Outstanding
<1> QED
  BY <1>1, <1>2

\* Types, and what the session task and its newest call agree on.
THEOREM StatsInvariant == StatsSpec => []StatsInv
  BY StatsInitInv, StatsNextInv, PTL DEF StatsSpec

\* Whatever fails and however late the handlers of failed calls run, every byte of a
\* rule is billed, held by the agent, or accounted for as lost or doubled.
THEOREM BytesConserved == StatsSpec => []Conserved
  BY StatsInitInv, StatsNextInv, PTL DEF StatsSpec
-----------------------------------------------------------------------------
(* What an acknowledgement covers. *)

\* Without a database error every byte of a call is committed or still to come, for the
\* rules the panel has; and nothing of theirs was lost.
BilledInv ==
  /\ dbErrors \in Nat
  /\ dbErrors = 0 => \A r \in rows :
       /\ lost[r] = 0
       /\ \A c \in Call : amount[c][r] # 0 => r \in left[c] \cup done[c]

LEMMA BilledInit == StatsInit => BilledInv
  BY DEF StatsInit, BilledInv, Zero

LEMMA BilledNext == StatsInv /\ BilledInv /\ [StatsNext]_statsVars => BilledInv'
<1> SUFFICES ASSUME StatsInv, BilledInv, [StatsNext]_statsVars PROVE BilledInv'
  OBVIOUS
<1> USE DEF BilledInv, panelVars, agentVars, bounds, history
<1>1. StatsTypeOK /\ ReportInv
  BY DEF StatsInv
<1>2. rows \subseteq Rule /\ lost \in [Rule -> Nat] /\ held \in [Rule -> Nat]
      /\ amount \in [Call -> [Rule -> Nat]]
      /\ left \in [Call -> SUBSET Rule] /\ done \in [Call -> SUBSET Rule]
  BY <1>1 DEF StatsTypeOK
<1>3. CASE StartReport \/ SkipReport \/ EndRestore \/ Start \/ CallFailed \/ Crash
  BY <1>3 DEF StartReport, SkipReport, EndRestore, Start, CallFailed, Crash
<1>4. ASSUME NEW r \in Rule, Relay(r) \/ Drain(r) \/ Restore(r) \/ Remove(r) \/ PanelDelete(r)
      PROVE  BilledInv'
  BY <1>4 DEF Relay, Drain, Restore, Remove, PanelDelete
<1>5. ASSUME NEW c \in Call, DropHandler(c) PROVE BilledInv'
  BY <1>5 DEF DropHandler
<1>6. CASE UNCHANGED statsVars
  BY <1>6 DEF statsVars
<1>7. CASE Send
  <2>1. /\ calls' = calls + 1 /\ calls' \in Call
        /\ amount' = [amount EXCEPT ![calls'] = held]
        /\ left' = [left EXCEPT ![calls'] = {r \in Rule : held[r] # 0}]
        /\ UNCHANGED <<rows, lost, done, dbErrors>>
    BY <1>1, <1>7 DEF Send, Call, StatsTypeOK
  <2>2. ASSUME dbErrors' = 0, NEW r \in rows', NEW c \in Call, amount'[c][r] # 0
        PROVE  r \in left'[c] \cup done'[c]
    <3>1. CASE c = calls'
      <4>1. held[r] # 0 /\ r \in Rule
        BY <1>2, <2>1, <2>2, <3>1
      <4> QED
        BY <1>2, <2>1, <3>1, <4>1
    <3>2. CASE c # calls'
      BY <1>2, <2>1, <2>2, <3>2
    <3> QED
      BY <3>1, <3>2
  <2> QED
    BY <2>1, <2>2
<1>8. CASE AckOk
  <2>1. /\ phase = "wait" /\ left[calls] = {} /\ calls \in Call /\ amount[calls] = held
        /\ lost' = [r \in Rule |-> lost[r] + Outstanding(r)]
        /\ UNCHANGED <<rows, amount, left, done, dbErrors>>
    BY <1>1, <1>8 DEF AckOk, ReportInv, StatsTypeOK, Call
  <2>2. ASSUME dbErrors = 0, NEW r \in rows PROVE lost'[r] = 0
    <3>1. held[r] # 0 => r \in done[calls]
      BY <2>1, <2>2
    <3>2. Outstanding(r) = 0
      BY <2>1, <3>1 DEF Outstanding
    <3> QED
      BY <1>2, <2>1, <2>2, <3>2
  <2> QED
    BY <2>1, <2>2
<1>9. ASSUME NEW c \in Call, NEW r \in Rule, Serve(c, r) \/ DbError(c, r) PROVE BilledInv'
  <2>1. /\ rows' = rows /\ lost' = lost /\ amount' = amount
        /\ left' = [left EXCEPT ![c] = @ \ {r}]
        /\ \/ done' = [done EXCEPT ![c] = @ \cup {r}] /\ dbErrors' = dbErrors
           \/ r \notin rows /\ done' = done /\ dbErrors' = dbErrors
           \/ dbErrors' = dbErrors + 1
    BY <1>9 DEF Serve, Commit, Discard, DbError, Reach
  <2>2. ASSUME dbErrors' = 0, NEW q \in rows, NEW d \in Call, amount[d][q] # 0
        PROVE  q \in left'[d] \cup done'[d]
    <3>1. dbErrors = 0 /\ q \in left[d] \cup done[d]
      BY <2>1, <2>2
    <3> QED
      BY <1>2, <2>1, <2>2, <3>1
  <2> QED
    BY <2>1, <2>2
<1> QED
  BY <1>3, <1>4, <1>5, <1>6, <1>7, <1>8, <1>9 DEF StatsNext, AgentStep

\* Whatever calls fail and handlers are dropped, an acknowledged report was billed
\* completely for every rule the panel still has, unless a transaction failed.
THEOREM AcknowledgedIsBilled == StatsSpec => []AckMeansBilled
<1>1. BilledInv => AckMeansBilled
  BY DEF BilledInv, AckMeansBilled, NoAckedLoss
<1> QED
  BY <1>1, StatsInitInv, StatsNextInv, BilledInit, BilledNext, PTL DEF StatsSpec
=============================================================================
