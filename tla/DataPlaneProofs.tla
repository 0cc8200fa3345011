-------------------------- MODULE DataPlaneProofs ---------------------------
(***************************************************************************)
(* Theorems about the data plane of a rule, component by component:        *)
(* UdpRelay, TcpListener and TcpBridge.                                    *)
(***************************************************************************)
EXTENDS DataPlane, FiniteSetTheorems, TLAPS

(* The UDP relay: its table, its sockets and its calls. *)

Calls == [pc : {"idle", "dial", "insert"}, client : Clients, sock : Socks \cup {NoSock}]

LEMMA IdleCallType == IdleCall \in Calls /\ IdleCall.pc = "idle" /\ IdleCall.sock = NoSock
BY UdpAssumption DEF IdleCall, Calls, NoSock

LEMMA NextSockIsFree == FreeSocks # {} => NextSock \in FreeSocks
BY DEF NextSock

(* The sizes of tables. *)

SessionsIn(table) == {a \in Clients : table[a] # NoSock}

LEMMA CountType ==
    ASSUME NEW table
    PROVE  IsFiniteSet(SessionsIn(table)) /\ SessionCount(table) \in Nat
BY UdpAssumption, FS_Subset, FS_CardinalityType DEF SessionsIn, SessionCount

LEMMA FewerSessions ==
    ASSUME NEW s, NEW t, SessionsIn(s) \subseteq SessionsIn(t)
    PROVE  SessionCount(s) <= SessionCount(t)
BY CountType, FS_Subset DEF SessionsIn, SessionCount

LEMMA OneMoreSession ==
    ASSUME NEW s, NEW t, NEW a, SessionsIn(s) \subseteq SessionsIn(t) \cup {a},
           SessionCount(t) < MaxSessions
    PROVE  SessionCount(s) <= MaxSessions
<1>1. /\ IsFiniteSet(SessionsIn(t) \cup {a})
      /\ Cardinality(SessionsIn(t) \cup {a}) <= Cardinality(SessionsIn(t)) + 1
  <2> DEFINE S == SessionsIn(t)
  <2>1. IsFiniteSet(S) /\ Cardinality(S) \in Nat
    BY CountType, FS_CardinalityType
  <2> HIDE DEF S
  <2>2. /\ IsFiniteSet(S \cup {a})
        /\ Cardinality(S \cup {a}) = IF a \in S THEN Cardinality(S) ELSE Cardinality(S) + 1
    BY <2>1, FS_AddElement
  <2>3. Cardinality(S \cup {a}) <= Cardinality(S) + 1
    BY <2>1, <2>2
  <2> QED
    BY <2>2, <2>3 DEF S
<1>2. Cardinality(SessionsIn(s)) <= Cardinality(SessionsIn(t) \cup {a})
  BY <1>1, FS_Subset
<1>3. /\ SessionCount(s) = Cardinality(SessionsIn(s)) /\ SessionCount(s) \in Nat
      /\ SessionCount(t) = Cardinality(SessionsIn(t)) /\ SessionCount(t) \in Nat
      /\ Cardinality(SessionsIn(t) \cup {a}) \in Nat
  BY <1>1, CountType, FS_CardinalityType DEF SessionsIn, SessionCount
<1> QED
  BY <1>1, <1>2, <1>3, UdpAssumption

-----------------------------------------------------------------------------
LEMMA InitUdp == UdpInit => UdpInv
<1> SUFFICES ASSUME UdpInit PROVE UdpInv
  OBVIOUS
<1>1. UdpTypeOK
  BY IdleCallType, UdpAssumption DEF UdpInit, UdpTypeOK, Calls, NoSock
<1>2. NoOrphanTask /\ CallsOwn
  BY IdleCallType DEF UdpInit, NoOrphanTask, CallsOwn
<1>3. WithinCap
  <2>1. SessionCount(nat) = Cardinality({})
    <3>1. {a \in Clients : nat[a] # NoSock} = {}
      BY DEF UdpInit
    <3> QED
      BY <3>1 DEF SessionCount
  <2> QED
    BY <2>1, FS_EmptySet, UdpAssumption DEF WithinCap
<1> QED
  BY <1>1, <1>2, <1>3 DEF UdpInv

\* Steps that leave the table and the calls alone and start no task.
LEMMA TasksEndKeeps ==
    ASSUME UdpInv, UNCHANGED <<via, nat, call>>, UdpTypeOK',
           \A s \in Socks : task'[s] = "live" => task[s] = "live"
    PROVE  UdpInv'
<1>1. NoOrphanTask'
  BY DEF UdpInv, NoOrphanTask, InTable, InCall
<1>2. WithinCap' /\ CallsOwn'
  BY DEF UdpInv, WithinCap, CallsOwn, SessionCount, HasSession
<1> QED
  BY <1>1, <1>2 DEF UdpInv

\* Sessions of A leave the table (sweep, stop) while no call holds a socket.
LEMMA DropKeeps ==
    ASSUME UdpInv, NEW A \in SUBSET Clients, Drop(A), UNCHANGED via,
           relay' \in {"up", "down"}, UNCHANGED <<writer, queue, wire>>,
           \A p \in Callers : call[p].sock = NoSock,
           call' \in [Callers -> Calls],
           \A p \in Callers : call'[p].pc = "idle" /\ call'[p].sock = NoSock
    PROVE  UdpInv'
<1>1. UdpTypeOK'
  <2>1. nat' \in [Clients -> Socks \cup {NoSock}] /\ age' \in [Clients -> 0..Timeout + 1]
    BY UdpAssumption DEF Drop, UdpInv, UdpTypeOK
  <2>2. task' \in [Socks -> {"off", "live", "dead", "aborting"}]
    BY DEF Drop, UdpInv, UdpTypeOK, Aborted
  <2> QED
    BY <2>1, <2>2 DEF UdpInv, UdpTypeOK, Calls
<1>2. NoOrphanTask'
  <2> SUFFICES ASSUME NEW s \in Socks, task'[s] = "live" PROVE InTable(s)'
    BY DEF NoOrphanTask
  <2>1. task[s] = "live" /\ \A a \in A : nat[a] # s
    BY DEF Drop, Aborted, UdpInv, UdpTypeOK
  <2>2. ~InCall(s)
    BY UdpAssumption DEF InCall, NoSock
  <2>3. PICK a \in Clients : nat[a] = s
    BY <2>1, <2>2 DEF UdpInv, NoOrphanTask, InTable
  <2> QED
    BY <2>1, <2>3 DEF Drop, InTable
<1>3. WithinCap'
  <2>1. SessionsIn(nat') \subseteq SessionsIn(nat)
    BY DEF SessionsIn, Drop
  <2>2. SessionCount(nat') <= SessionCount(nat)
    BY <2>1, FewerSessions
  <2>3. SessionCount(nat) \in Nat /\ SessionCount(nat') \in Nat
    BY CountType
  <2>4. WithinCap' <=> SessionCount(nat') <= MaxSessions
    BY DEF WithinCap, SessionCount
  <2> QED
    BY <2>2, <2>3, <2>4, UdpAssumption DEF UdpInv, WithinCap
<1>4. CallsOwn'
  BY DEF CallsOwn
<1> QED
  BY <1>1, <1>2, <1>3, <1>4 DEF UdpInv


-----------------------------------------------------------------------------
(* The direct path. *)

\* The part of CallsOwn that concerns the direct path, where calls overlap.
LEMMA DirectCalls ==
    ASSUME via' = "direct",
           \A p \in Callers : call'[p].sock # NoSock <=> call'[p].pc = "insert"
    PROVE  CallsOwn'
BY DEF CallsOwn

LEMMA MissKeeps ==
    ASSUME UdpInv, NEW p \in Callers, NEW a \in Clients, Miss(p, a)
    PROVE  UdpInv'
<1> DEFINE r == [pc |-> "dial", client |-> a, sock |-> NoSock]
<1>1. /\ via = "direct" /\ via' = via /\ call[p].pc = "idle"
      /\ HasSession(a) => task[nat[a]] = "dead"
      /\ nat' = [nat EXCEPT ![a] = NoSock]
      /\ task' = IF HasSession(a) THEN [task EXCEPT ![nat[a]] = "off"] ELSE task
      /\ call' = call \/ call' = [call EXCEPT ![p] = r]
      /\ UNCHANGED <<relay, age, writer, queue, wire>>
  BY DEF Miss, CanTake
<1>2. r \in Calls /\ r.pc = "dial" /\ r.sock = NoSock
  BY DEF Calls
<1>3. call \in [Callers -> Calls] /\ call[p].sock = NoSock
  BY <1>1 DEF UdpInv, UdpTypeOK, Calls, CallsOwn
<1> HIDE DEF r
<1>4. UdpTypeOK'
  <2>1. call' \in [Callers -> Calls]
    BY <1>1, <1>2, <1>3
  <2> QED
    BY <1>1, <2>1 DEF UdpInv, UdpTypeOK, Calls
<1>5. NoOrphanTask'
  <2> SUFFICES ASSUME NEW s \in Socks, task'[s] = "live" PROVE InTable(s)' \/ InCall(s)'
    BY DEF NoOrphanTask
  <2>1. task[s] = "live" /\ nat[a] # s
    BY <1>1, UdpAssumption DEF UdpInv, UdpTypeOK, HasSession, NoSock
  <2>2. CASE InTable(s)
    BY <1>1, <2>1, <2>2 DEF InTable, UdpInv, UdpTypeOK
  <2>3. CASE InCall(s)
    <3>1. PICK q \in Callers : call[q].sock = s
      BY <2>3 DEF InCall
    <3>2. q # p
      BY <1>3, <3>1, UdpAssumption DEF NoSock
    <3> QED
      BY <1>1, <1>3, <3>1, <3>2 DEF InCall
  <2> QED
    BY <2>1, <2>2, <2>3 DEF UdpInv, NoOrphanTask
<1>6. WithinCap'
  <2>1. SessionsIn(nat') \subseteq SessionsIn(nat)
    BY <1>1 DEF SessionsIn, UdpInv, UdpTypeOK
  <2>2. SessionCount(nat') <= SessionCount(nat)
    BY <2>1, FewerSessions
  <2>3. SessionCount(nat) \in Nat /\ SessionCount(nat') \in Nat
    BY CountType
  <2>4. WithinCap' <=> SessionCount(nat') <= MaxSessions
    BY DEF WithinCap, SessionCount
  <2> QED
    BY <2>2, <2>3, <2>4, UdpAssumption DEF UdpInv, WithinCap
<1>7. CallsOwn'
  <2>1. \A q \in Callers : call'[q].sock # NoSock <=> call'[q].pc = "insert"
    BY <1>1, <1>2, <1>3 DEF UdpInv, CallsOwn
  <2> QED
    BY <1>1, <2>1, DirectCalls
<1> QED
  BY <1>4, <1>5, <1>6, <1>7 DEF UdpInv

LEMMA DialFailsKeeps ==
    ASSUME UdpInv, NEW p \in Callers, DialFails(p)
    PROVE  UdpInv'
<1>1. call[p].pc = "dial" /\ call' = [call EXCEPT ![p] = IdleCall]
      /\ UNCHANGED <<via, relay, nat, age, task, writer, queue, wire>>
  BY DEF DialFails, Return
<1>2. call \in [Callers -> Calls] /\ call[p].sock = NoSock
  BY <1>1 DEF UdpInv, UdpTypeOK, Calls, CallsOwn
<1>3. UdpTypeOK'
  <2>1. call' \in [Callers -> Calls]
    BY <1>1, <1>2, IdleCallType
  <2> QED
    BY <1>1, <2>1 DEF UdpInv, UdpTypeOK, Calls
<1>4. NoOrphanTask'
  <2> SUFFICES ASSUME NEW s \in Socks, task[s] = "live", InCall(s) PROVE InCall(s)'
    BY <1>1 DEF NoOrphanTask, UdpInv, InTable
  <2>1. PICK q \in Callers : call[q].sock = s
    BY DEF InCall
  <2>2. q # p
    BY <1>2, <2>1, UdpAssumption DEF NoSock
  <2> QED
    BY <1>1, <1>2, <2>1, <2>2 DEF InCall
<1>5. WithinCap'
  BY <1>1 DEF UdpInv, WithinCap, SessionCount
<1>6. CallsOwn'
  BY <1>1, <1>2, IdleCallType DEF UdpInv, CallsOwn, SessionCount, HasSession
<1> QED
  BY <1>3, <1>4, <1>5, <1>6 DEF UdpInv

LEMMA DialOkKeeps ==
    ASSUME UdpInv, NEW p \in Callers, DialOk(p)
    PROVE  UdpInv'
<1> DEFINE r == [call[p] EXCEPT !.pc = "insert", !.sock = NextSock]
<1>1. /\ via = "direct" /\ call[p].pc = "dial" /\ NextSock \in FreeSocks
      /\ task' = [task EXCEPT ![NextSock] = "live"]
      /\ UNCHANGED <<via, relay, nat, age, writer, queue, wire>>
  BY NextSockIsFree DEF DialOk
<1>2. call' = [call EXCEPT ![p] = r]
  BY DEF DialOk, UdpInv, UdpTypeOK
<1>3. call \in [Callers -> Calls] /\ NextSock \in Socks /\ NextSock # NoSock
  BY <1>1, UdpAssumption DEF UdpInv, UdpTypeOK, Calls, FreeSocks, NoSock
<1>4. r \in Calls /\ r.pc = "insert" /\ r.sock = NextSock
  BY <1>3 DEF Calls
<1>5. call[p].sock = NoSock
  BY <1>1 DEF UdpInv, CallsOwn
<1> HIDE DEF r
<1>6. UdpTypeOK'
  <2>1. call' \in [Callers -> Calls]
    BY <1>2, <1>3, <1>4
  <2> QED
    BY <1>1, <1>3, <2>1 DEF UdpInv, UdpTypeOK, Calls
<1>7. NoOrphanTask'
  <2> SUFFICES ASSUME NEW s \in Socks, task'[s] = "live" PROVE InTable(s)' \/ InCall(s)'
    BY DEF NoOrphanTask
  <2>1. CASE s = NextSock
    BY <1>2, <1>3, <1>4, <2>1 DEF InCall
  <2>2. CASE s # NextSock
    <3>1. InTable(s) \/ InCall(s)
      BY <1>1, <1>3, <2>2 DEF UdpInv, UdpTypeOK, NoOrphanTask
    <3>2. CASE InCall(s)
      <4>1. PICK q \in Callers : call[q].sock = s
        BY <3>2 DEF InCall
      <4>2. q # p
        BY <1>5, <4>1, UdpAssumption DEF NoSock
      <4> QED
        BY <1>2, <1>3, <4>1, <4>2 DEF InCall
    <3> QED
      BY <1>1, <3>1, <3>2 DEF InTable
  <2> QED
    BY <2>1, <2>2
<1>8. WithinCap'
  BY <1>1 DEF UdpInv, WithinCap, SessionCount
<1>9. CallsOwn'
  <2>1. \A q \in Callers : call'[q].sock # NoSock <=> call'[q].pc = "insert"
    BY <1>2, <1>3, <1>4 DEF UdpInv, CallsOwn
  <2> QED
    BY <1>1, <2>1, DirectCalls
<1> QED
  BY <1>6, <1>7, <1>8, <1>9 DEF UdpInv

LEMMA InsertKeeps ==
    ASSUME UdpInv, NEW p \in Callers, Insert(p)
    PROVE  UdpInv'
<1> DEFINE a == call[p].client
           s == call[p].sock
           lost == \/ HasSession(a) /\ task[nat[a]] # "dead"
                   \/ ~HasSession(a) /\ SessionCount(nat) >= MaxSessions
<1>1. /\ via = "direct" /\ call[p].pc = "insert"
      /\ call' = [call EXCEPT ![p] = IdleCall]
      /\ UNCHANGED <<via, relay, writer, queue, wire>>
  BY DEF Insert, Return
<1>2. call \in [Callers -> Calls] /\ a \in Clients /\ s \in Socks /\ s # NoSock
  BY <1>1 DEF UdpInv, UdpTypeOK, Calls, CallsOwn
<1>3. lost => /\ task' = [task EXCEPT ![s] = Aborted(@)] /\ nat' = nat
              /\ age' = age \/ age' = [age EXCEPT ![a] = 0]
  BY DEF Insert
<1>4. ~lost => /\ task' = IF HasSession(a) THEN [task EXCEPT ![nat[a]] = "off"] ELSE task
               /\ age' = [age EXCEPT ![a] = 0]
               /\ nat' = [nat EXCEPT ![a] = s]
               /\ HasSession(a) => task[nat[a]] = "dead"
               /\ ~HasSession(a) => SessionCount(nat) < MaxSessions
  BY CountType, UdpAssumption DEF Insert
<1> HIDE DEF a, s, lost
<1>5. call' \in [Callers -> Calls]
  BY <1>1, <1>2, IdleCallType
<1>6. UdpTypeOK'
  <2>1. CASE lost
    BY <1>1, <1>2, <1>3, <1>5, <2>1, UdpAssumption DEF UdpInv, UdpTypeOK, Calls, Aborted
  <2>2. CASE ~lost
    BY <1>1, <1>2, <1>4, <1>5, <2>2, UdpAssumption DEF UdpInv, UdpTypeOK, Calls, HasSession
  <2> QED
    BY <2>1, <2>2
<1>7. NoOrphanTask'
  <2> SUFFICES ASSUME NEW t \in Socks, task'[t] = "live" PROVE InTable(t)' \/ InCall(t)'
    BY DEF NoOrphanTask
  <2>1. ASSUME t # s, InCall(t) PROVE InCall(t)'
    <3>1. PICK q \in Callers : call[q].sock = t
      BY <2>1 DEF InCall
    <3>2. q # p
      BY <2>1, <3>1 DEF s
    <3> QED
      BY <1>1, <1>2, <3>1, <3>2 DEF InCall
  <2>2. CASE lost
    <3>1. t # s /\ task[t] = "live" /\ (InTable(t) => InTable(t)')
      BY <1>2, <1>3, <2>2 DEF UdpInv, UdpTypeOK, Aborted, InTable
    <3> QED
      BY <2>1, <3>1 DEF UdpInv, NoOrphanTask
  <2>3. CASE ~lost
    <3>1. task[t] = "live" /\ nat[a] # t
      BY <1>2, <1>4, <2>3, UdpAssumption DEF UdpInv, UdpTypeOK, HasSession, NoSock
    <3>2. InTable(t) => InTable(t)'
      BY <1>2, <1>4, <2>3, <3>1 DEF InTable, UdpInv, UdpTypeOK
    <3>3. t = s => InTable(t)'
      BY <1>2, <1>4, <2>3 DEF InTable, UdpInv, UdpTypeOK
    <3> QED
      BY <2>1, <3>1, <3>2, <3>3 DEF UdpInv, NoOrphanTask
  <2> QED
    BY <2>2, <2>3
<1>8. WithinCap'
  <2>1. WithinCap' <=> SessionCount(nat') <= MaxSessions
    BY DEF WithinCap, SessionCount
  <2>2. CASE lost
    BY <1>3, <2>2 DEF UdpInv, WithinCap, SessionCount
  <2>3. CASE ~lost /\ HasSession(a)
    <3>1. SessionsIn(nat') \subseteq SessionsIn(nat)
      BY <1>2, <1>4, <2>3 DEF SessionsIn, UdpInv, UdpTypeOK, HasSession
    <3> QED
      BY <2>1, <3>1, FewerSessions, CountType, UdpAssumption DEF UdpInv, WithinCap
  <2>4. CASE ~lost /\ ~HasSession(a)
    <3>1. SessionsIn(nat') \subseteq SessionsIn(nat) \cup {a}
      BY <1>2, <1>4, <2>4 DEF SessionsIn, UdpInv, UdpTypeOK
    <3> QED
      BY <1>4, <2>1, <2>4, <3>1, OneMoreSession
  <2> QED
    BY <2>2, <2>3, <2>4
<1>9. CallsOwn'
  <2>1. \A q \in Callers : call'[q].sock # NoSock <=> call'[q].pc = "insert"
    BY <1>1, <1>2, IdleCallType DEF UdpInv, CallsOwn
  <2> QED
    BY <1>1, <2>1, DirectCalls
<1> QED
  BY <1>6, <1>7, <1>8, <1>9 DEF UdpInv

-----------------------------------------------------------------------------
(* The entry of a tunnel. *)

LEMMA TunnelHoldsNoSock ==
    ASSUME UdpInv, via = "tunnel"
    PROVE  \A p \in Callers : call[p].sock = NoSock /\ call[p].pc \in {"idle", "dial"}
BY DEF UdpInv, UdpTypeOK, CallsOwn

LEMMA TunnelClosedKeeps ==
    ASSUME UdpInv, NEW p \in Callers, NEW a \in Clients, TunnelClosed(p, a)
    PROVE  UdpInv'
<1>1. /\ via = "tunnel" /\ HasSession(a) /\ LoopIdle
      /\ nat' = [nat EXCEPT ![a] = NoSock]
      /\ task' = [task EXCEPT ![nat[a]] = Aborted(@)]
      /\ UNCHANGED <<via, relay, age, writer, queue, wire, call>>
  BY DEF TunnelClosed, CanTake
<1>2. UdpTypeOK'
  BY <1>1 DEF UdpInv, UdpTypeOK, Aborted, HasSession
<1>3. NoOrphanTask'
  <2> SUFFICES ASSUME NEW s \in Socks, task'[s] = "live" PROVE InTable(s)'
    BY DEF NoOrphanTask
  <2>1. task[s] = "live" /\ nat[a] # s
    BY <1>1 DEF UdpInv, UdpTypeOK, Aborted, HasSession
  <2>2. ~InCall(s)
    BY <1>1, TunnelHoldsNoSock, UdpAssumption DEF InCall, NoSock
  <2> QED
    BY <1>1, <2>1, <2>2 DEF UdpInv, UdpTypeOK, NoOrphanTask, InTable
<1>4. WithinCap'
  <2>1. SessionsIn(nat') \subseteq SessionsIn(nat)
    BY <1>1 DEF SessionsIn, UdpInv, UdpTypeOK
  <2>2. WithinCap' <=> SessionCount(nat') <= MaxSessions
    BY DEF WithinCap, SessionCount
  <2> QED
    BY <2>1, <2>2, FewerSessions, CountType, UdpAssumption DEF UdpInv, WithinCap
<1>5. CallsOwn'
  BY <1>1 DEF UdpInv, CallsOwn, LoopIdle
<1> QED
  BY <1>2, <1>3, <1>4, <1>5 DEF UdpInv

LEMMA TunnelMissKeeps ==
    ASSUME UdpInv, NEW p \in Callers, NEW a \in Clients, TunnelMiss(p, a)
    PROVE  UdpInv'
<1> DEFINE r == [pc |-> "dial", client |-> a, sock |-> NoSock]
<1>1. /\ via = "tunnel" /\ ~HasSession(a) /\ SessionCount(nat) < MaxSessions /\ LoopIdle
      /\ call' = [call EXCEPT ![p] = r]
      /\ UNCHANGED <<via, relay, nat, age, task, writer, queue, wire>>
  BY DEF TunnelMiss, CanTake
<1>2. r \in Calls /\ r.pc = "dial" /\ r.sock = NoSock /\ r.client = a
  BY DEF Calls
<1>3. call \in [Callers -> Calls]
  BY DEF UdpInv, UdpTypeOK, Calls
<1> HIDE DEF r
<1>4. UdpTypeOK'
  <2>1. call' \in [Callers -> Calls]
    BY <1>1, <1>2, <1>3
  <2> QED
    BY <1>1, <2>1 DEF UdpInv, UdpTypeOK, Calls
<1>5. NoOrphanTask'
  BY <1>1, TunnelHoldsNoSock, UdpAssumption
     DEF UdpInv, NoOrphanTask, InTable, InCall, NoSock
<1>6. WithinCap'
  BY <1>1 DEF UdpInv, WithinCap, SessionCount
<1>7. CallsOwn'
  <2>1. \A q \in Callers : q # p => call'[q].pc = "idle" /\ call'[q].sock = NoSock
    BY <1>1, <1>3, TunnelHoldsNoSock DEF LoopIdle
  <2>2. call'[p] = r
    BY <1>1, <1>3
  <2>3. ~HasSession(a)' /\ SessionCount(nat)' < MaxSessions
    BY <1>1 DEF HasSession, SessionCount
  <2> QED
    BY <1>2, <2>1, <2>2, <2>3 DEF CallsOwn
<1> QED
  BY <1>4, <1>5, <1>6, <1>7 DEF UdpInv

LEMMA TunnelOpenKeeps ==
    ASSUME UdpInv, NEW p \in Callers, TunnelOpen(p)
    PROVE  UdpInv'
<1> DEFINE a == call[p].client
<1>1. /\ via = "tunnel" /\ call[p].pc = "dial" /\ NextSock \in FreeSocks
      /\ nat' = [nat EXCEPT ![a] = NextSock]
      /\ age' = [age EXCEPT ![a] = 0]
      /\ task' = [task EXCEPT ![NextSock] = "live"]
      /\ writer' = [writer EXCEPT ![NextSock] = "live"]
      /\ queue' = [queue EXCEPT ![NextSock] = 1]
      /\ wire' = [wire EXCEPT ![NextSock] = "open"]
      /\ call' = [call EXCEPT ![p] = IdleCall]
      /\ UNCHANGED <<via, relay>>
  BY NextSockIsFree DEF TunnelOpen, Return
<1>2. /\ call \in [Callers -> Calls] /\ a \in Clients
      /\ NextSock \in Socks /\ ~InTable(NextSock)
  BY <1>1 DEF UdpInv, UdpTypeOK, Calls, FreeSocks, Unused
<1>3. ~HasSession(a) /\ SessionCount(nat) < MaxSessions
  BY <1>1 DEF UdpInv, CallsOwn
<1>4. \A q \in Callers : call'[q].pc = "idle" /\ call'[q].sock = NoSock
  BY <1>1, <1>2, IdleCallType, TunnelHoldsNoSock DEF UdpInv, CallsOwn
<1> HIDE DEF a
<1>5. UdpTypeOK'
  <2>1. call' \in [Callers -> Calls]
    BY <1>1, <1>2, IdleCallType
  <2> QED
    BY <1>1, <1>2, <2>1, UdpAssumption DEF UdpInv, UdpTypeOK, Calls
<1>6. NoOrphanTask'
  <2> SUFFICES ASSUME NEW s \in Socks, task'[s] = "live" PROVE InTable(s)'
    BY DEF NoOrphanTask
  <2>1. CASE s = NextSock
    BY <1>1, <1>2, <2>1 DEF InTable, UdpInv, UdpTypeOK
  <2>2. CASE s # NextSock
    <3>1. task[s] = "live" /\ ~InCall(s)
      BY <1>1, <1>2, <2>2, TunnelHoldsNoSock, UdpAssumption
         DEF UdpInv, UdpTypeOK, InCall, NoSock
    <3>2. PICK b \in Clients : nat[b] = s
      BY <3>1 DEF UdpInv, NoOrphanTask, InTable
    <3>3. b # a
      BY <1>3, <3>2, UdpAssumption DEF HasSession, NoSock
    <3> QED
      BY <1>1, <3>2, <3>3 DEF InTable, UdpInv, UdpTypeOK
  <2> QED
    BY <2>1, <2>2
<1>7. WithinCap'
  <2>1. SessionsIn(nat') \subseteq SessionsIn(nat) \cup {a}
    BY <1>1 DEF SessionsIn, UdpInv, UdpTypeOK
  <2>2. WithinCap' <=> SessionCount(nat') <= MaxSessions
    BY DEF WithinCap, SessionCount
  <2> QED
    BY <1>3, <2>1, <2>2, OneMoreSession
<1>8. CallsOwn'
  BY <1>4 DEF CallsOwn
<1> QED
  BY <1>5, <1>6, <1>7, <1>8 DEF UdpInv

-----------------------------------------------------------------------------
LEMMA UdpStep == UdpInv /\ [UdpNext]_udpVars => UdpInv'
<1> SUFFICES ASSUME UdpInv, [UdpNext]_udpVars PROVE UdpInv'
  OBVIOUS
<1> USE UdpAssumption
<1>1. ASSUME NEW p \in Callers, NEW a \in Clients, FastPath(p, a) \/ TunnelSend(p, a)
      PROVE  UdpInv'
  <2>1. UdpTypeOK' /\ UNCHANGED <<via, nat, call, task>>
    BY <1>1 DEF FastPath, TunnelSend, HasSession, UdpInv, UdpTypeOK
  <2> QED
    BY <2>1, TasksEndKeeps
<1>2. ASSUME NEW s \in Socks,
             WriterWrites(s) \/ WriterEnds(s) \/ ExitCloses(s) \/ ReaderEnds(s)
             \/ ReverseFails(s) \/ Reap(s)
      PROVE  UdpInv'
  <2>1. UNCHANGED <<via, nat, call>>
    BY <1>2 DEF WriterWrites, WriterEnds, ExitCloses, ReaderEnds, ReverseFails, Reap
  <2>2. UdpTypeOK' /\ \A t \in Socks : task'[t] = "live" => task[t] = "live"
    BY <1>2 DEF WriterWrites, WriterEnds, ExitCloses, ReaderEnds, ReverseFails, Reap,
                UdpInv, UdpTypeOK
  <2> QED
    BY <2>1, <2>2, TasksEndKeeps
<1>3. CASE Tick
  <2>1. UdpTypeOK' /\ UNCHANGED <<via, nat, call, task>>
    BY <1>3 DEF Tick, UdpInv, UdpTypeOK
  <2> QED
    BY <2>1, TasksEndKeeps
<1>4. CASE Bind
  <2>1. UdpTypeOK' /\ UNCHANGED <<via, nat, call, task>>
    BY <1>4 DEF Bind, UdpInv, UdpTypeOK
  <2> QED
    BY <2>1, TasksEndKeeps
<1>5. CASE Sweep
  <2>1. \A p \in Callers : call[p].pc = "idle" /\ call[p].sock = NoSock
    BY <1>5 DEF Sweep, LoopIdle, UdpInv, CallsOwn
  <2>2. call \in [Callers -> Calls] /\ relay \in {"up", "down"}
    BY DEF UdpInv, UdpTypeOK, Calls
  <2> QED
    BY <1>5, <2>1, <2>2, DropKeeps DEF Sweep
<1>6. CASE Stop
  <2>1. \A p \in Callers : call[p].sock = NoSock
    BY <1>6 DEF Stop, LoopIdle, UdpInv, UdpTypeOK, CallsOwn
  <2>2. call' \in [Callers -> Calls]
        /\ \A p \in Callers : call'[p].pc = "idle" /\ call'[p].sock = NoSock
    BY <1>6, IdleCallType DEF Stop
  <2> QED
    BY <1>6, <2>1, <2>2, DropKeeps DEF Stop
<1>7. CASE UNCHANGED udpVars
  <2>1. UdpTypeOK' /\ UNCHANGED <<via, nat, call, task>>
    BY <1>7 DEF udpVars, UdpInv, UdpTypeOK
  <2> QED
    BY <2>1, TasksEndKeeps
<1> QED
  BY <1>1, <1>2, <1>3, <1>4, <1>5, <1>6, <1>7, MissKeeps, DialFailsKeeps, DialOkKeeps,
     InsertKeeps, TunnelClosedKeeps, TunnelMissKeeps, TunnelOpenKeeps
     DEF UdpNext

\* For any clients, sockets, overlapping calls and caps: no reverse task is
\* out of the reach of sweep and stop, and the table stays within its cap
\* (forward_with_resolver of udp.rs, entry_udp_loop of task.rs).
THEOREM UdpInvariant == UdpSpec => []UdpInv
BY InitUdp, UdpStep, PTL DEF UdpSpec
-----------------------------------------------------------------------------
(* The listening side of a TCP rule: its permits and its backlog. *)

States == [st : {"idle", "queued"} \cup Live \cup Ended, lsn : Lsns,
           print : 0..LongestPrint, seen : 0..LongestPrint,
           left : 1..Targets, late : BOOLEAN]

\* The accept loop takes from the backlog only connections nobody has taken
\* before: each is there once, and waits.
BacklogWaits ==
    /\ \A i \in 1..Len(backlog) : conn[backlog[i]].st = "queued"
    /\ \A i, j \in 1..Len(backlog) : backlog[i] = backlog[j] => i = j

\* A stop is only asked for while a further listener is left.
ListenerLeft ==
    /\ stopAsked \/ loop = "down" => lsn < Listeners
    /\ loop = "down" => ~stopAsked

\* A guarded rule sniffs and does nothing else before it dials.
GuardedSniffs ==
    role = "guarded" => \A c \in Conns : conn[c].st \notin {"handshake", "preamble"}

ListenerInv ==
    ListenerTypeOK /\ BacklogWaits /\ ListenerLeft /\ GuardedSniffs /\ PermitsConserved
    /\ NoFragmentBypass

-----------------------------------------------------------------------------
LEMMA HoldersFinite == \A g : IsFiniteSet(Holders(g)) /\ Cardinality(Holders(g)) \in Nat
<1> SUFFICES ASSUME NEW g PROVE IsFiniteSet(Holders(g)) /\ Cardinality(Holders(g)) \in Nat
  OBVIOUS
<1>1. Holders(g) \in SUBSET Conns
  BY DEF Holders
<1> QED
  BY <1>1, ListenerAssumption, FS_Subset, FS_CardinalityType

\* What one connection may do to the permits: keep its own, have none, give
\* its permit back to its listener, or take one of the listener it goes to.
LEMMA OneMoves ==
    ASSUME ListenerTypeOK, PermitsConserved, NEW c \in Conns, NEW r \in States,
           conn' = [conn EXCEPT ![c] = r], role' = role,
           \/ /\ HoldsPermit(conn[c].st) <=> HoldsPermit(r.st)
              /\ HoldsPermit(r.st) => r.lsn = conn[c].lsn
              /\ free' = free
           \/ /\ HoldsPermit(conn[c].st) /\ ~HoldsPermit(r.st)
              /\ free' = [free EXCEPT ![conn[c].lsn] = @ + 1]
           \/ /\ ~HoldsPermit(conn[c].st) /\ HoldsPermit(r.st)
              /\ free[r.lsn] > 0
              /\ free' = [free EXCEPT ![r.lsn] = @ - 1]
    PROVE  PermitsConserved' /\ free' \in [Lsns -> 0..Permits] /\ conn' \in [Conns -> States]
<1>1. conn \in [Conns -> States] /\ free \in [Lsns -> 0..Permits] /\ r.lsn \in Lsns /\ conn[c].lsn \in Lsns
  BY DEF ListenerTypeOK, States
<1> DEFINE before(g) == conn[c].lsn = g /\ HoldsPermit(conn[c].st)
           after(g) == r.lsn = g /\ HoldsPermit(r.st)
<1>3. ASSUME NEW g \in Lsns
      PROVE  free'[g] + Cardinality(Holders(g)') = Permits /\ free'[g] \in 0..Permits
  <2>1. /\ IsFiniteSet(Holders(g)) /\ Cardinality(Holders(g)) \in Nat
        /\ free[g] + Cardinality(Holders(g)) = Permits /\ free[g] \in Nat /\ Permits \in Nat
    BY <1>1, HoldersFinite, ListenerAssumption DEF PermitsConserved
  <2>2. c \in Holders(g) <=> before(g)
    BY DEF Holders
  <2>3. Holders(g)' = (Holders(g) \ {c}) \cup (IF after(g) THEN {c} ELSE {})
    <3>1. Holders(g)' = {d \in Conns : conn'[d].lsn = g /\ HoldsPermit(conn'[d].st)}
      BY DEF Holders, HoldsPermit
    <3>2. \A d \in Conns : conn'[d] = IF d = c THEN r ELSE conn[d]
      BY <1>1
    <3>3. \A d : d \in Holders(g) <=> d \in Conns /\ conn[d].lsn = g /\ HoldsPermit(conn[d].st)
      BY DEF Holders
    <3> HIDE DEF Holders, HoldsPermit
    <3> QED
      BY <3>1, <3>2, <3>3
  <2>4. CASE before(g) <=> after(g)
    <3>1. Holders(g)' = Holders(g)
      BY <2>2, <2>3, <2>4
    <3>2. free'[g] = free[g]
      BY <1>1, <2>4
    <3> QED
      BY <2>1, <3>1, <3>2
  <2>5. CASE before(g) /\ ~after(g)
    <3>1. Holders(g)' = Holders(g) \ {c}
      BY <2>3, <2>5
    <3>2. Cardinality(Holders(g)') = Cardinality(Holders(g)) - 1
      BY <2>1, <2>2, <2>5, <3>1, FS_RemoveElement
    <3>3. free'[g] = free[g] + 1
      BY <1>1, <2>5
    <3>4. Cardinality(Holders(g)') \in Nat
      BY <2>1, <3>1, FS_RemoveElement, FS_CardinalityType
    <3> QED
      BY <2>1, <3>2, <3>3, <3>4
  <2>6. CASE ~before(g) /\ after(g)
    <3>1. Holders(g)' = Holders(g) \cup {c}
      BY <2>2, <2>3, <2>6
    <3>2. Cardinality(Holders(g)') = Cardinality(Holders(g)) + 1
      BY <2>1, <2>2, <2>6, <3>1, FS_AddElement
    <3>3. free'[g] = free[g] - 1 /\ free[g] > 0
      BY <1>1, <2>6
    <3> QED
      BY <2>1, <3>2, <3>3
  <2> QED
    BY <2>4, <2>5, <2>6
<1>4. free' \in [Lsns -> 0..Permits]
  <2>1. DOMAIN free' = Lsns /\ free' = [g \in Lsns |-> free'[g]]
    BY <1>1
  <2> QED
    BY <1>3, <2>1
<1> QED
  BY <1>1, <1>3, <1>4 DEF PermitsConserved

\* A task of an accepted connection goes on, with its permit handled as above.
LEMMA TaskKeeps ==
    ASSUME ListenerInv, NEW c \in Conns, NEW r \in States,
           conn[c].st \in Live, conn' = [conn EXCEPT ![c] = r],
           UNCHANGED <<role, loop, stopAsked, lsn, latch, backlog>>,
           \/ /\ HoldsPermit(conn[c].st) <=> HoldsPermit(r.st)
              /\ HoldsPermit(r.st) => r.lsn = conn[c].lsn
              /\ free' = free
           \/ /\ HoldsPermit(conn[c].st) /\ ~HoldsPermit(r.st)
              /\ free' = [free EXCEPT ![conn[c].lsn] = @ + 1],
           role = "guarded" => r.st \notin {"handshake", "preamble"},
           role = "guarded" /\ r.st \in {"dial", "bridge"} /\ r.print # 0 => r.late
    PROVE  ListenerInv'
<1>1. PermitsConserved' /\ free' \in [Lsns -> 0..Permits] /\ conn' \in [Conns -> States]
  BY OneMoves DEF ListenerInv
<1>2. ListenerTypeOK'
  BY <1>1 DEF ListenerInv, ListenerTypeOK, States
<1>3. BacklogWaits'
  <2>1. \A i \in 1..Len(backlog) : backlog[i] \in Conns /\ backlog[i] # c
    BY DEF ListenerInv, ListenerTypeOK, BacklogWaits, Live, Setup
  <2> QED
    BY <2>1 DEF ListenerInv, ListenerTypeOK, BacklogWaits
<1>4. ListenerLeft' /\ GuardedSniffs' /\ NoFragmentBypass'
  <2>1. \A d \in Conns : conn'[d] = IF d = c THEN r ELSE conn[d]
    BY DEF ListenerInv, ListenerTypeOK
  <2> QED
    BY <2>1 DEF ListenerInv, ListenerLeft, GuardedSniffs, NoFragmentBypass
<1> QED
  BY <1>1, <1>2, <1>3, <1>4 DEF ListenerInv

LEMMA GoToKeeps ==
    ASSUME ListenerInv, NEW c \in Conns, NEW st \in {"preamble", "dial", "bridge"} \cup Ended,
           conn[c].st \in Live, GoTo(c, st),
           role = "guarded" => st # "preamble",
           role = "guarded" /\ st \in {"dial", "bridge"} /\ conn[c].print # 0 => conn[c].late
    PROVE  ListenerInv'
<1> DEFINE r == Moved(c, st)
<1>1. conn[c] \in States
  BY DEF ListenerInv, ListenerTypeOK, States
<1>2. r \in States /\ r.st = st /\ (st \notin Ended => r.lsn = conn[c].lsn /\ r.print = conn[c].print
                                                       /\ r.late = conn[c].late)
  <2>1. CASE st \in Ended
    <3>1. r = [NewConn EXCEPT !.st = st]
      BY <2>1 DEF Moved
    <3>2. 1 \in Lsns /\ 0 \in 0..LongestPrint /\ Targets \in 1..Targets
      BY ListenerAssumption DEF Lsns
    <3> QED
      BY <2>1, <3>1, <3>2 DEF NewConn, States
  <2>2. CASE st \notin Ended
    <3>1. r = [conn[c] EXCEPT !.st = st, !.seen = 0] /\ st \in Live
      BY <2>2 DEF Moved, Live, Setup
    <3>2. 0 \in 0..LongestPrint
      BY ListenerAssumption
    <3> HIDE DEF r
    <3> QED
      BY <1>1, <2>2, <3>1, <3>2 DEF States
  <2> QED
    BY <2>1, <2>2
<1>3. conn' = [conn EXCEPT ![c] = r] /\ UNCHANGED <<role, loop, stopAsked, lsn, latch, backlog>>
  BY DEF GoTo
<1>4. HoldsPermit(st) => HoldsPermit(conn[c].st) /\ st \notin Ended
  BY DEF HoldsPermit, HopRoles, Live, Setup, Ended
<1>5. \/ /\ HoldsPermit(conn[c].st) <=> HoldsPermit(r.st)
         /\ HoldsPermit(r.st) => r.lsn = conn[c].lsn
         /\ free' = free
      \/ /\ HoldsPermit(conn[c].st) /\ ~HoldsPermit(r.st)
         /\ free' = [free EXCEPT ![conn[c].lsn] = @ + 1]
  <2> HIDE DEF r
  <2> QED
    BY <1>2, <1>4 DEF GoTo
<1>6. st \notin {"handshake"}
  BY DEF Ended
<1> HIDE DEF r
<1> QED
  BY <1>2, <1>3, <1>5, <1>6, TaskKeeps DEF Ended

-----------------------------------------------------------------------------
LEMMA TaskStep ==
    ASSUME ListenerInv, NEW c \in Conns,
           \/ ByteArrives(c) \/ SniffBlocks(c) \/ SniffPasses(c) \/ SniffDeadline(c)
           \/ HandshakeOk(c) \/ HandshakeFails(c) \/ PreambleOk(c) \/ PreambleFails(c)
           \/ DialOpens(c) \/ TargetFails(c) \/ BridgeEnds(c) \/ Cancelled(c)
    PROVE  ListenerInv'
<1>1. conn[c] \in States /\ {"sniff", "handshake", "preamble", "dial", "bridge"} = Live
  BY DEF ListenerInv, ListenerTypeOK, States, Live, Setup
<1>2. role = "guarded" => conn[c].st \notin {"handshake", "preamble"}
  BY DEF ListenerInv, GuardedSniffs
<1>3. role = "guarded" /\ conn[c].st \in {"dial", "bridge"} /\ conn[c].print # 0 => conn[c].late
  BY DEF ListenerInv, NoFragmentBypass
<1>4. CASE ByteArrives(c)
  <2>1. PICK p \in 0..LongestPrint : conn' = [conn EXCEPT ![c].seen = @ + 1, ![c].print = p]
    BY <1>1, <1>4, ListenerAssumption DEF ByteArrives, States
  <2> DEFINE r == [conn[c] EXCEPT !.seen = @ + 1, !.print = p]
  <2>2. conn[c].seen + 1 \in 0..LongestPrint
    BY <1>1, <1>4, ListenerAssumption DEF ByteArrives, States
  <2>3. r \in States /\ r.st = "sniff" /\ r.lsn = conn[c].lsn /\ conn[c].st = "sniff"
    BY <1>1, <1>4, <2>2 DEF ByteArrives, States
  <2>4. conn' = [conn EXCEPT ![c] = r]
    BY <2>1
  <2>5. UNCHANGED <<role, loop, stopAsked, lsn, free, latch, backlog>>
    BY <1>4 DEF ByteArrives
  <2> HIDE DEF r
  <2> QED
    BY <1>1, <2>3, <2>4, <2>5, TaskKeeps
<1>5. CASE SniffDeadline(c)
  <2> DEFINE r == [conn[c] EXCEPT !.st = "dial", !.seen = 0, !.late = TRUE]
  <2>1. conn' = [conn EXCEPT ![c] = r] /\ conn[c].st = "sniff"
    BY <1>5 DEF SniffDeadline, Moved, Ended
  <2>2. r \in States /\ r.st = "dial" /\ r.lsn = conn[c].lsn /\ r.late = TRUE
    <3>1. 0 \in 0..LongestPrint
      BY ListenerAssumption
    <3> QED
      BY <1>1, <3>1 DEF States
  <2>3. UNCHANGED <<role, loop, stopAsked, lsn, free, latch, backlog>>
    BY <1>5 DEF SniffDeadline
  <2>4. HoldsPermit("sniff") <=> HoldsPermit("dial")
    BY DEF HoldsPermit, HopRoles, Live, Setup
  <2> HIDE DEF r
  <2> QED
    BY <1>1, <2>1, <2>2, <2>3, <2>4, TaskKeeps
<1>6. CASE SniffPasses(c)
  <2>1. conn[c].print = 0
    BY <1>1, <1>6, ListenerAssumption DEF SniffPasses, Recognised, CouldBe, MinSniff, States
  <2> QED
    BY <1>1, <1>6, <2>1, GoToKeeps DEF SniffPasses
<1>7. CASE TargetFails(c) /\ role \in Relays /\ conn[c].left > 1
  <2> DEFINE r == [conn[c] EXCEPT !.left = @ - 1]
  <2>1. conn' = [conn EXCEPT ![c] = r] /\ conn[c].st = "dial"
        /\ UNCHANGED <<role, loop, stopAsked, lsn, free, latch, backlog>>
    BY <1>7 DEF TargetFails
  <2>2. conn[c].left - 1 \in 1..Targets
    BY <1>1, <1>7, ListenerAssumption DEF States
  <2>3. r \in States /\ r.st = "dial" /\ r.lsn = conn[c].lsn /\ r.print = conn[c].print
        /\ r.late = conn[c].late
    BY <1>1, <2>1, <2>2 DEF States
  <2> HIDE DEF r
  <2> QED
    BY <1>1, <1>3, <2>1, <2>3, TaskKeeps
<1>8. CASE \/ SniffBlocks(c) \/ HandshakeFails(c) \/ PreambleFails(c) \/ BridgeEnds(c)
           \/ Cancelled(c) \/ (TargetFails(c) /\ ~(role \in Relays /\ conn[c].left > 1))
  <2>1. conn[c].st \in Live /\ \E st \in {"blocked", "closed"} : GoTo(c, st)
    BY <1>1, <1>8
       DEF SniffBlocks, HandshakeFails, PreambleFails, BridgeEnds, Cancelled, TargetFails
  <2> QED
    BY <2>1, GoToKeeps DEF Ended
<1>9. CASE HandshakeOk(c) \/ PreambleOk(c) \/ DialOpens(c)
  <2>1. \/ conn[c].st \in {"handshake", "preamble"} /\ \E st \in {"preamble", "dial"} : GoTo(c, st)
        \/ conn[c].st = "dial" /\ GoTo(c, "bridge")
    BY <1>9 DEF HandshakeOk, AfterHandshake, PreambleOk, DialOpens
  <2> QED
    BY <1>1, <1>2, <1>3, <2>1, GoToKeeps
<1> QED
  BY <1>4, <1>5, <1>6, <1>7, <1>8, <1>9

\* The loop takes the head of its backlog: the connection r it becomes.
LEMMA LoopKeeps ==
    ASSUME ListenerInv, backlog # <<>>, NEW r \in States,
           conn' = [conn EXCEPT ![Head(backlog)] = r], backlog' = Tail(backlog),
           UNCHANGED <<role, loop, stopAsked, lsn, latch>>,
           \/ ~HoldsPermit(r.st) /\ free' = free
           \/ /\ HoldsPermit(r.st) /\ free[r.lsn] > 0
              /\ free' = [free EXCEPT ![r.lsn] = @ - 1],
           r.st # "queued",
           role = "guarded" => r.st \notin {"handshake", "preamble", "dial", "bridge"}
    PROVE  ListenerInv'
<1> DEFINE c == Head(backlog)
<1>1. backlog \in Seq(Conns) /\ 1 \in 1..Len(backlog) /\ backlog[1] = c /\ c \in Conns
  BY DEF ListenerInv, ListenerTypeOK
<1>2. conn[c].st = "queued"
  BY <1>1 DEF ListenerInv, BacklogWaits
<1>3. ~HoldsPermit("queued")
  BY DEF HoldsPermit, Live, Setup
<1>4. PermitsConserved' /\ free' \in [Lsns -> 0..Permits] /\ conn' \in [Conns -> States]
  BY <1>1, <1>2, <1>3, OneMoves DEF ListenerInv
<1>5. Tail(backlog) \in Seq(Conns) /\ Len(Tail(backlog)) = Len(backlog) - 1
      /\ \A i \in 1..Len(Tail(backlog)) : Tail(backlog)[i] = backlog[i + 1] /\ i + 1 \in 1..Len(backlog)
  BY <1>1
<1>6. ListenerTypeOK'
  BY <1>4, <1>5 DEF ListenerInv, ListenerTypeOK, States
<1>7. \A d \in Conns : conn'[d] = IF d = c THEN r ELSE conn[d]
  BY DEF ListenerInv, ListenerTypeOK
<1>8. BacklogWaits'
  <2>1. \A i \in 1..Len(Tail(backlog)) : backlog[i + 1] # c /\ backlog[i + 1] \in Conns
    BY <1>1, <1>5 DEF ListenerInv, BacklogWaits
  <2>2. \A i \in 1..Len(backlog') : conn'[backlog'[i]].st = "queued"
    BY <1>5, <1>7, <2>1 DEF ListenerInv, BacklogWaits
  <2>3. \A i, j \in 1..Len(backlog') : backlog'[i] = backlog'[j] => i = j
    BY <1>5 DEF ListenerInv, BacklogWaits
  <2> QED
    BY <2>2, <2>3 DEF BacklogWaits
<1>9. ListenerLeft' /\ GuardedSniffs' /\ NoFragmentBypass'
  BY <1>7 DEF ListenerInv, ListenerLeft, GuardedSniffs, NoFragmentBypass
<1> QED
  BY <1>4, <1>6, <1>8, <1>9 DEF ListenerInv

LEMMA AcceptStep == ASSUME ListenerInv, Accept \/ AcceptAborted PROVE ListenerInv'
<1> DEFINE c == Head(backlog)
<1>1. c \in Conns /\ conn[c] \in States /\ backlog # <<>> /\ lsn \in Lsns
  BY DEF Accept, AcceptAborted, ListenerInv, ListenerTypeOK, States
<1>2. FirstStage \in Setup /\ HoldsPermit(FirstStage) /\ (role = "guarded" => FirstStage = "sniff")
  BY DEF ListenerInv, ListenerTypeOK, FirstStage, HoldsPermit, Live, Setup, HopRoles, Roles, Relays
<1>3. ~HoldsPermit("refused") /\ ~HoldsPermit("closed")
  BY DEF HoldsPermit, Live, Setup
<1>4. CASE Accept /\ free[lsn] > 0
  <2> DEFINE r == [conn[c] EXCEPT !.st = FirstStage, !.lsn = lsn]
  <2>1. r \in States /\ r.st = FirstStage /\ r.lsn = lsn
    BY <1>1, <1>2 DEF States, Live
  <2>2. /\ backlog' = Tail(backlog) /\ conn' = [conn EXCEPT ![c] = r]
        /\ free' = [free EXCEPT ![lsn] = @ - 1]
        /\ UNCHANGED <<role, loop, stopAsked, lsn, latch>>
    BY <1>4 DEF Accept
  <2>3. r.st # "queued"
    BY <1>2, <2>1 DEF Setup
  <2> HIDE DEF r
  <2> QED
    BY <1>1, <1>2, <1>4, <2>1, <2>2, <2>3, LoopKeeps
<1>5. CASE AcceptAborted \/ (Accept /\ ~(free[lsn] > 0))
  <2>1. PICK st \in {"refused", "closed"} : conn' = [conn EXCEPT ![c].st = st]
    BY <1>5 DEF Accept, AcceptAborted
  <2> DEFINE r == [conn[c] EXCEPT !.st = st]
  <2>2. r \in States /\ r.st = st
    BY <1>1 DEF States, Ended
  <2>3. conn' = [conn EXCEPT ![c] = r]
    BY <2>1
  <2>4. backlog' = Tail(backlog) /\ UNCHANGED <<role, loop, stopAsked, lsn, latch, free>>
    BY <1>5 DEF Accept, AcceptAborted
  <2> HIDE DEF r
  <2> QED
    BY <1>1, <1>3, <2>2, <2>3, <2>4, LoopKeeps
<1> QED
  BY <1>4, <1>5

LEMMA ArriveStep == ASSUME ListenerInv, NEW c \in Conns, Arrive(c) PROVE ListenerInv'
<1> DEFINE r == [conn[c] EXCEPT !.st = "queued"]
<1>1. conn[c] \in States /\ backlog \in Seq(Conns)
  BY DEF ListenerInv, ListenerTypeOK, States
<1>2. r \in States /\ r.st = "queued"
  BY <1>1 DEF States
<1>3. /\ conn[c].st = "idle" /\ conn' = [conn EXCEPT ![c] = r] /\ backlog' = Append(backlog, c)
      /\ UNCHANGED <<role, loop, stopAsked, lsn, free, latch>>
  BY DEF Arrive
<1>4. ~HoldsPermit("idle") /\ ~HoldsPermit("queued")
  BY DEF HoldsPermit, Live, Setup
<1> HIDE DEF r
<1>5. PermitsConserved' /\ conn' \in [Conns -> States]
  BY <1>2, <1>3, <1>4, OneMoves DEF ListenerInv
<1>6. backlog' \in Seq(Conns) /\ Len(backlog') = Len(backlog) + 1 /\ backlog'[Len(backlog) + 1] = c
      /\ \A i \in 1..Len(backlog) : backlog'[i] = backlog[i] /\ backlog[i] # c /\ backlog[i] \in Conns
  BY <1>1, <1>3 DEF ListenerInv, BacklogWaits
<1>7. \A d \in Conns : conn'[d] = IF d = c THEN r ELSE conn[d]
  BY <1>3 DEF ListenerInv, ListenerTypeOK
<1>8. ListenerTypeOK'
  BY <1>3, <1>5, <1>6 DEF ListenerInv, ListenerTypeOK, States
<1>9. BacklogWaits'
  <2>0. Len(backlog) \in Nat
    BY <1>1
  <2>1. \A i \in 1..Len(backlog') : conn'[backlog'[i]].st = "queued"
    BY <1>2, <1>6, <1>7, <2>0 DEF ListenerInv, BacklogWaits
  <2>2. \A i, j \in 1..Len(backlog') : backlog'[i] = backlog'[j] => i = j
    BY <1>6, <2>0 DEF ListenerInv, BacklogWaits
  <2> QED
    BY <2>1, <2>2 DEF BacklogWaits
<1>10. ListenerLeft' /\ GuardedSniffs' /\ NoFragmentBypass'
  BY <1>2, <1>3, <1>7 DEF ListenerInv, ListenerLeft, GuardedSniffs, NoFragmentBypass
<1> QED
  BY <1>5, <1>8, <1>9, <1>10 DEF ListenerInv

\* The rule manager, and the loop's sleep.
LEMMA LoopStep ==
    ASSUME ListenerInv, AcceptExhausted \/ BackoffEnds \/ AskStop \/ StopSeen \/ StartAgain
    PROVE  ListenerInv'
<1>1. CASE AcceptExhausted \/ BackoffEnds \/ AskStop \/ StartAgain
  <2>1. UNCHANGED <<role, free, latch, backlog, conn>>
    BY <1>1 DEF AcceptExhausted, BackoffEnds, AskStop, StartAgain
  <2>2. ListenerTypeOK' /\ ListenerLeft'
    <3>1. /\ loop' \in {"up", "backoff", "down"} /\ stopAsked' \in BOOLEAN /\ lsn' \in Lsns
          /\ stopAsked' \/ loop' = "down" => lsn' < Listeners
          /\ loop' = "down" => ~stopAsked'
      <4>1. /\ loop \in {"up", "backoff", "down"} /\ stopAsked \in BOOLEAN /\ lsn \in 1..Listeners
            /\ stopAsked \/ loop = "down" => lsn < Listeners
            /\ loop = "down" => ~stopAsked
        BY DEF ListenerInv, ListenerTypeOK, ListenerLeft, Lsns
      <4>2. CASE AcceptExhausted \/ BackoffEnds
        BY <4>1, <4>2 DEF AcceptExhausted, BackoffEnds, Lsns
      <4>3. CASE AskStop
        BY <4>1, <4>3 DEF AskStop, Lsns
      <4>4. CASE StartAgain
        BY <4>1, <4>4, ListenerAssumption DEF StartAgain, Lsns
      <4> QED
        BY <1>1, <4>2, <4>3, <4>4
    <3> QED
      BY <2>1, <3>1 DEF ListenerInv, ListenerTypeOK, ListenerLeft
  <2> QED
    BY <2>1, <2>2
       DEF ListenerInv, BacklogWaits, GuardedSniffs, PermitsConserved, Holders, HoldsPermit,
           NoFragmentBypass
<1>2. CASE StopSeen
  <2>1. /\ conn \in [Conns -> States] /\ lsn \in Lsns
        /\ conn' = [c \in Conns |-> IF conn[c].st = "queued"
                                    THEN [conn[c] EXCEPT !.st = "closed"] ELSE conn[c]]
        /\ loop' = "down" /\ stopAsked' = FALSE /\ backlog' = <<>> /\ latch' = latch \cup {lsn}
        /\ UNCHANGED <<role, lsn, free>>
    BY <1>2 DEF StopSeen, ListenerInv, ListenerTypeOK, States
  <2>2. conn' \in [Conns -> States]
    <3>1. \A c \in Conns : [conn[c] EXCEPT !.st = "closed"] \in States
      BY <2>1 DEF States, Ended
    <3> QED
      BY <2>1, <3>1
  <2>3. \A c \in Conns :
           \/ conn'[c] = conn[c]
           \/ conn[c].st = "queued" /\ conn'[c].st = "closed"
    BY <2>1 DEF States
  <2>4. ListenerTypeOK' /\ ListenerLeft' /\ BacklogWaits'
    <3>1. role' \in Roles /\ lsn' \in Lsns /\ latch' \subseteq Lsns /\ backlog' \in Seq(Conns)
          /\ free' \in [Lsns -> 0..Permits]
      BY <2>1 DEF ListenerInv, ListenerTypeOK
    <3>2. stopAsked /\ lsn' < Listeners
      BY <1>2, <2>1 DEF StopSeen, ListenerInv, ListenerLeft
    <3>3. Len(backlog') = 0
      BY <2>1
    <3>4. ListenerTypeOK'
      BY <2>1, <2>2, <3>1 DEF ListenerTypeOK, States
    <3>5. ListenerLeft'
      BY <2>1, <3>2 DEF ListenerLeft
    <3>6. BacklogWaits'
      BY <3>3 DEF BacklogWaits
    <3> QED
      BY <3>4, <3>5, <3>6
  <2>5. GuardedSniffs' /\ NoFragmentBypass'
    BY <2>1, <2>3 DEF ListenerInv, GuardedSniffs, NoFragmentBypass
  <2>6. \A g : Holders(g)' = Holders(g)
    <3>1. ~HoldsPermit("queued") /\ ~HoldsPermit("closed")
      BY DEF HoldsPermit, Live, Setup
    <3>2. \A g : Holders(g)' = {c \in Conns : conn'[c].lsn = g /\ HoldsPermit(conn'[c].st)}
      BY <2>1 DEF Holders, HoldsPermit
    <3>3. \A g : Holders(g) = {c \in Conns : conn[c].lsn = g /\ HoldsPermit(conn[c].st)}
      BY DEF Holders
    <3> HIDE DEF Holders, HoldsPermit
    <3> QED
      BY <2>3, <3>1, <3>2, <3>3
  <2>7. PermitsConserved'
    BY <2>1, <2>6 DEF ListenerInv, PermitsConserved
  <2> QED
    BY <2>4, <2>5, <2>7 DEF ListenerInv
<1> QED
  BY <1>1, <1>2

LEMMA InitListener == ListenerInit => ListenerInv
<1> SUFFICES ASSUME ListenerInit PROVE ListenerInv
  OBVIOUS
<1>1. NewConn \in States /\ NewConn.st = "idle" /\ 1 \in Lsns
  <2>1. 1 \in Lsns /\ 0 \in 0..LongestPrint /\ Targets \in 1..Targets
    BY ListenerAssumption DEF Lsns
  <2> QED
    BY <2>1 DEF NewConn, States
<1>2. ListenerTypeOK
  <2>1. conn \in [Conns -> States] /\ free \in [Lsns -> 0..Permits]
    BY <1>1, ListenerAssumption DEF ListenerInit
  <2> QED
    <3>1. role \in Roles /\ loop = "up" /\ stopAsked = FALSE /\ lsn \in Lsns /\ latch \subseteq Lsns
          /\ backlog \in Seq(Conns)
      BY <1>1 DEF ListenerInit
    <3> QED
      BY <2>1, <3>1 DEF ListenerTypeOK, States
<1>3. \A g : Holders(g) = {}
  BY <1>1 DEF ListenerInit, Holders, HoldsPermit, Live, Setup
<1>4. PermitsConserved
  <2> SUFFICES ASSUME NEW g \in Lsns PROVE free[g] + Cardinality(Holders(g)) = Permits
    BY DEF PermitsConserved
  <2>1. free[g] = Permits /\ Holders(g) = {} /\ Cardinality({}) = 0
    BY <1>3, FS_EmptySet DEF ListenerInit
  <2> QED
    BY <2>1, ListenerAssumption
<1>5. BacklogWaits /\ ListenerLeft /\ GuardedSniffs /\ NoFragmentBypass
  BY <1>1 DEF ListenerInit, BacklogWaits, ListenerLeft, GuardedSniffs, NoFragmentBypass
<1> QED
  BY <1>2, <1>4, <1>5 DEF ListenerInv

LEMMA ListenerStep == ListenerInv /\ [ListenerNext]_lsnVars => ListenerInv'
<1> SUFFICES ASSUME ListenerInv, [ListenerNext]_lsnVars PROVE ListenerInv'
  OBVIOUS
<1>1. CASE ListenerNext
  BY <1>1, TaskStep, AcceptStep, ArriveStep, LoopStep DEF ListenerNext
<1>2. CASE UNCHANGED lsnVars
  BY <1>2 DEF lsnVars, ListenerInv, ListenerTypeOK, BacklogWaits, ListenerLeft, GuardedSniffs,
              PermitsConserved, Holders, HoldsPermit, NoFragmentBypass
<1> QED
  BY <1>1, <1>2

\* For any number of connections, permits, listeners and targets, and in each
\* role: the inductive invariant of the loop, the tasks and their permits.
THEOREM ListenerInvariant == ListenerSpec => []ListenerInv
BY InitListener, ListenerStep, PTL DEF ListenerSpec

\* No way out of a connection loses a permit of max_connections (or a
\* handshake slot of a hop) or returns one twice (the OwnedSemaphorePermit of
\* relay/tcp.rs and tunnel/task.rs).
THEOREM PermitsAreConserved == ListenerSpec => []PermitsConserved
BY ListenerInvariant, PTL DEF ListenerInv

\* Only the sniff deadline lets a blocked protocol through, however its first
\* bytes are cut into segments (sniff_blocked and could_be_blocked of sniff.rs).
THEOREM FragmentsDoNotBypass == ListenerSpec => []NoFragmentBypass
BY ListenerInvariant, PTL DEF ListenerInv

-----------------------------------------------------------------------------
(* The TCP bridge: where every byte of a connection is. *)

Done(d, p) == pump[d][p].st = "done"
InHand == [st : {"read", "acquire", "write", "flush", "done"},
           left : 0..Chunk, size : 0..Chunk, due : 0..Chunk]

\* The one relay of a plain rule has the one pump of each direction.
OneHopIsShort == Hops = 1 => \A d \in Dirs : link[d][2] = 0 /\ pump[d][2] = Idle

\* Every unit sent is somewhere.
UnitsConserved ==
    \A d \in Dirs :
        sent[d] = got[d] + link[d][0] + link[d][1] + link[d][2]
                         + pump[d][1].left + pump[d][2].left

\* What relay 1 has written is beyond it.
PutIsBeyond ==
    \A d \in Dirs :
        put[d] = got[d] + link[d][2]
                 + (IF PumpOf(d, 1) = 1 THEN link[d][1] + pump[d][2].left ELSE 0)

\* What a pump may have in hand in each of its steps.
HandFits(d, p) ==
    LET hand == pump[d][p] IN
    /\ Spliced => hand.st \in {"read", "done"}
    /\ ~Spliced => hand.left <= hand.size /\ (hand.st \in {"read", "done"} => hand.size = 0)
    /\ hand.st = "done" => hand.left = 0
    /\ hand.st = "flush" => p = PumpOf(d, 1) /\ hand.left = 0 /\ route \in Tunnels
    /\ hand.due <= hand.size

HandsFit == \A d \in Dirs, p \in 1..2 : HandFits(d, p)

\* The counters lag by what is written of the chunk in hand.
CountedExactly ==
    \A d \in Dirs :
        LET hand == pump[d][PumpOf(d, 1)] IN
        put[d] = counted[d] + (IF Spliced THEN 0 ELSE hand.size - hand.left)

\* A pump ends when its source has, and no unit arrives there later.
DoneHasReadAll ==
    \A d \in Dirs, p \in 1..2 : Done(d, p) => link[d][p - 1] = 0 /\ eof[d][p - 1]

\* Without a failure only an ended pump shuts a link down, over WebSocket
\* either of the two that share it.
EndsAreTold ==
    ~failed => \A d \in Dirs, k \in 1..2 :
        eof[d][k] => Done(d, k) \/ (route = "wss" /\ k = 1 /\ Done(Back(d), 1))

BridgeInv ==
    /\ BridgeTypeOK /\ (limited => route = "pump")
    /\ OneHopIsShort /\ UnitsConserved /\ PutIsBeyond
    /\ HandsFit /\ CountedExactly /\ DoneHasReadAll /\ EndsAreTold

LEMMA DirFacts ==
    /\ \A d \in Dirs : Back(d) \in Dirs /\ Back(d) # d /\ Back(Back(d)) = d
    /\ Hops \in {1, 2} /\ (route \in Tunnels <=> Hops = 2)
    /\ PumpOf("tx", 1) = 1 /\ PumpOf("rx", 1) = Hops
    /\ \A d \in Dirs : PumpOf(d, 1) \in 1..Hops
    /\ \A d \in Dirs, p \in 1..Hops : Metered(d, p) <=> p = PumpOf(d, 1)
BY DEF Dirs, Back, Hops, Tunnels, PumpOf, RelayOf, Metered

LEMMA IdleIsInHand == Idle \in InHand /\ Idle.left = 0 /\ Idle.size = 0 /\ Idle.due = 0 /\ Idle.st = "read"
BY BridgeAssumption DEF Idle, InHand

LEMMA InitBridge == BridgeInit => BridgeInv
<1> SUFFICES ASSUME BridgeInit PROVE BridgeInv
  OBVIOUS
<1>1. /\ \A d \in Dirs : sent[d] = 0 /\ got[d] = 0 /\ put[d] = 0 /\ counted[d] = 0
      /\ \A d \in Dirs, k \in 0..2 : link[d][k] = 0 /\ eof[d][k] = FALSE
      /\ \A d \in Dirs, p \in 1..2 : pump[d][p] = Idle
  BY DEF BridgeInit, Zero, At, NoneInHand
<1>2. BridgeTypeOK
  <2>1. 0 \in 0..Most /\ 0 \in 0..LinkCap /\ Burst \in 0..Burst /\ 1..Hops \subseteq 1..2
    BY BridgeAssumption, DirFacts DEF Most
  <2>2. pump \in [Dirs -> [1..2 -> InHand]]
    BY IdleIsInHand DEF BridgeInit, NoneInHand
  <2> QED
    BY <2>1, <2>2 DEF BridgeInit, BridgeTypeOK, Zero, At, InHand
<1>3. (limited => route = "pump") /\ OneHopIsShort
  <2>1. limited => route = "pump"
    BY Zenon DEF BridgeInit, LimitedRoutes
  <2>2. OneHopIsShort
    BY <1>1 DEF OneHopIsShort
  <2> QED
    BY <2>1, <2>2
<1>6. UnitsConserved
  BY <1>1, IdleIsInHand DEF UnitsConserved
<1>7. PutIsBeyond
  BY <1>1, IdleIsInHand DEF PutIsBeyond
<1>4. HandsFit /\ CountedExactly
  BY <1>1, IdleIsInHand, DirFacts DEF HandsFit, HandFits, CountedExactly
<1>5. DoneHasReadAll /\ EndsAreTold
  BY <1>1, IdleIsInHand DEF DoneHasReadAll, EndsAreTold, Done
<1> QED
  BY <1>2, <1>3, <1>4, <1>5, <1>6, <1>7 DEF BridgeInv

(* The client and the target. *)

LEMMA AppSendsKeeps == ASSUME BridgeInv, NEW d \in Dirs, AppSends(d) PROVE BridgeInv'
<1>1. /\ link' \in [Dirs -> [0..2 -> 0..LinkCap]]
      /\ \A x \in Dirs, k \in 0..2 :
             link'[x][k] = IF x = d /\ k = 0 THEN link[d][0] + 1 ELSE link[x][k]
  BY BridgeAssumption DEF AppSends, BridgeInv, BridgeTypeOK
<1>2. /\ sent' \in [Dirs -> 0..Most]
      /\ \A x \in Dirs : sent'[x] = IF x = d THEN sent[d] + 1 ELSE sent[x]
  BY BridgeAssumption DEF AppSends, BridgeInv, BridgeTypeOK, Units, Most
<1>3. BridgeTypeOK' /\ (limited => route = "pump")' /\ HandsFit' /\ CountedExactly' /\ EndsAreTold'
  BY <1>1, <1>2 DEF AppSends, BridgeInv, BridgeTypeOK, Spliced, PumpOf, RelayOf, Hops, Done,
     HandsFit, HandFits, CountedExactly, EndsAreTold
<1>4. OneHopIsShort' /\ PutIsBeyond'
  BY <1>1 DEF AppSends, BridgeInv, OneHopIsShort, PutIsBeyond, PumpOf, RelayOf, Hops
<1>5. UnitsConserved'
  BY <1>1, <1>2 DEF AppSends, BridgeInv, BridgeTypeOK, UnitsConserved
<1>6. DoneHasReadAll'
  BY <1>1 DEF AppSends, BridgeInv, DoneHasReadAll, Done
<1> QED
  BY <1>3, <1>4, <1>5, <1>6 DEF BridgeInv

LEMMA AppReceivesKeeps == ASSUME BridgeInv, NEW d \in Dirs, AppReceives(d) PROVE BridgeInv'
<1>1. /\ link' \in [Dirs -> [0..2 -> 0..LinkCap]]
      /\ \A x \in Dirs, k \in 0..2 :
             link'[x][k] = IF x = d /\ k = Hops THEN link[d][Hops] - 1 ELSE link[x][k]
  BY BridgeAssumption, DirFacts DEF AppReceives, BridgeInv, BridgeTypeOK
<1>2. got[d] + 1 \in 0..Most
  <2>1. got[d] + link[d][Hops] <= sent[d]
    BY DirFacts, BridgeAssumption DEF BridgeInv, BridgeTypeOK, UnitsConserved
  <2> QED
    BY <2>1, BridgeAssumption, DirFacts DEF AppReceives, BridgeInv, BridgeTypeOK, Most
<1>3. /\ got' \in [Dirs -> 0..Most]
      /\ \A x \in Dirs : got'[x] = IF x = d THEN got[d] + 1 ELSE got[x]
  BY <1>2 DEF AppReceives, BridgeInv, BridgeTypeOK
<1>4. BridgeTypeOK' /\ (limited => route = "pump")' /\ HandsFit' /\ CountedExactly' /\ EndsAreTold'
  BY <1>1, <1>3 DEF AppReceives, BridgeInv, BridgeTypeOK, Spliced, PumpOf, RelayOf, Hops, Done,
     HandsFit, HandFits, CountedExactly, EndsAreTold
<1>5. OneHopIsShort'
  BY <1>1 DEF AppReceives, BridgeInv, OneHopIsShort, Hops
<1>6. PutIsBeyond'
  BY <1>1, <1>3, DirFacts
     DEF AppReceives, BridgeInv, BridgeTypeOK, PutIsBeyond, OneHopIsShort, PumpOf, RelayOf, Hops, Dirs
<1>7. UnitsConserved'
  BY <1>1, <1>3, DirFacts DEF AppReceives, BridgeInv, BridgeTypeOK, UnitsConserved
<1>8. DoneHasReadAll'
  BY <1>1, DirFacts DEF AppReceives, BridgeInv, BridgeTypeOK, DoneHasReadAll, Done
<1> QED
  BY <1>4, <1>5, <1>6, <1>7, <1>8 DEF BridgeInv

LEMMA AppClosesKeeps == ASSUME BridgeInv, NEW d \in Dirs, AppCloses(d) PROVE BridgeInv'
<1>1. /\ eof' \in [Dirs -> [0..2 -> BOOLEAN]]
      /\ \A x \in Dirs, k \in 0..2 : eof'[x][k] = IF x = d /\ k = 0 THEN TRUE ELSE eof[x][k]
  BY DEF AppCloses, BridgeInv, BridgeTypeOK
<1>2. BridgeTypeOK' /\ (limited => route = "pump")' /\ HandsFit' /\ CountedExactly'
  BY <1>1 DEF AppCloses, BridgeInv, BridgeTypeOK, Spliced, PumpOf, RelayOf, Hops,
     HandsFit, HandFits, CountedExactly
<1>3. OneHopIsShort' /\ UnitsConserved' /\ PutIsBeyond'
  BY DEF AppCloses, BridgeInv, OneHopIsShort, UnitsConserved, PutIsBeyond, PumpOf, RelayOf, Hops
<1>4. DoneHasReadAll' /\ EndsAreTold'
  BY <1>1 DEF AppCloses, BridgeInv, DoneHasReadAll, EndsAreTold, Done
<1> QED
  BY <1>2, <1>3, <1>4 DEF BridgeInv

(* One pump. *)

LEMMA ReadKeeps == ASSUME BridgeInv, NEW d \in Dirs, NEW p \in 1..2, Read(d, p) PROVE BridgeInv'
<1> DEFINE hand == pump[d][p]
<1>0. hand \in InHand /\ hand.st = "read" /\ hand.due <= hand.size /\ HandFits(d, p)
      /\ p \in 1..Hops /\ p - 1 \in 0..2 /\ p \in 1..2
  BY DirFacts DEF Read, Running, BridgeInv, BridgeTypeOK, InHand, HandsFit, HandFits
<1>r. link[d][p - 1] \in Nat /\ hand.left \in Nat /\ Chunk \in Nat
  BY <1>0, BridgeAssumption DEF BridgeInv, BridgeTypeOK, InHand
<1> DEFINE room == Chunk - hand.left
           most == IF link[d][p - 1] < room THEN link[d][p - 1] ELSE room
           Takes(n) == /\ link' = [link EXCEPT ![d][p - 1] = @ - n]
                       /\ pump' = [pump EXCEPT ![d][p] =
                              IF Spliced THEN [hand EXCEPT !.left = @ + n]
                              ELSE [st |-> IF limited /\ Metered(d, p) THEN "acquire" ELSE "write",
                                    left |-> n, size |-> n, due |-> n]]
<1>t. \E n \in 1..most : Takes(n)
  BY DEF Read
<1>1. PICK n \in Nat : n > 0 /\ n <= link[d][p - 1] /\ n <= Chunk - hand.left /\ Takes(n)
  <2> HIDE DEF Takes, hand
  <2> QED
    BY <1>t, <1>r
<1> DEFINE next == IF Spliced THEN [hand EXCEPT !.left = @ + n]
                   ELSE [st |-> IF limited /\ Metered(d, p) THEN "acquire" ELSE "write",
                         left |-> n, size |-> n, due |-> n]
<1>2. /\ link' \in [Dirs -> [0..2 -> 0..LinkCap]]
      /\ \A x \in Dirs, k \in 0..2 :
             link'[x][k] = IF x = d /\ k = p - 1 THEN link[d][p - 1] - n ELSE link[x][k]
  BY <1>0, <1>1, BridgeAssumption DEF BridgeInv, BridgeTypeOK
<1>3. /\ next \in InHand /\ next.left = hand.left + n /\ next.due <= next.size
      /\ next.st \in {"read", "acquire", "write"} /\ (Spliced => next.st = "read")
      /\ ~Spliced => /\ next.st # "read" /\ next.left = next.size /\ hand.left = 0
                     /\ hand.size = 0
  <2>1. CASE Spliced
    BY <1>0, <1>1, <2>1, BridgeAssumption DEF InHand
  <2>2. CASE ~Spliced
    BY <1>0, <1>1, <2>2, BridgeAssumption DEF InHand, HandFits
  <2> QED
    BY <2>1, <2>2
<1>4. /\ pump' \in [Dirs -> [1..2 -> InHand]]
      /\ \A x \in Dirs, q \in 1..2 :
             pump'[x][q] = IF x = d /\ q = p THEN next ELSE pump[x][q]
  <2>1. pump' = [pump EXCEPT ![d][p] = next]
    BY <1>1
  <2>2. pump \in [Dirs -> [1..2 -> InHand]]
    BY DEF BridgeInv, BridgeTypeOK, InHand
  <2> HIDE DEF next
  <2> QED
    BY <2>1, <2>2, <1>3
<1> HIDE DEF next
<1>5. BridgeTypeOK' /\ (limited => route = "pump")'
  BY <1>2, <1>4 DEF Read, BridgeInv, BridgeTypeOK, InHand
<1>6. OneHopIsShort'
  BY <1>0, <1>2, <1>4 DEF Read, BridgeInv, OneHopIsShort, Hops
<1>7. UnitsConserved' /\ PutIsBeyond'
  <2>1. UnitsConserved'
    <3> SUFFICES ASSUME NEW x \in Dirs
                 PROVE  sent[x] = got[x] + link'[x][0] + link'[x][1] + link'[x][2]
                                         + pump'[x][1].left + pump'[x][2].left
      BY DEF Read, UnitsConserved
    <3>1. sent[x] = got[x] + link[x][0] + link[x][1] + link[x][2]
                           + pump[x][1].left + pump[x][2].left
      BY DEF BridgeInv, UnitsConserved
    <3>2. /\ link[x][0] \in Nat /\ link[x][1] \in Nat /\ link[x][2] \in Nat
          /\ pump[x][1].left \in Nat /\ pump[x][2].left \in Nat /\ got[x] \in Nat
      BY BridgeAssumption DEF BridgeInv, BridgeTypeOK, InHand
    <3>3. CASE p = 1
      BY <1>0, <1>1, <1>2, <1>3, <1>4, <3>1, <3>2, <3>3
    <3>4. CASE p = 2
      BY <1>0, <1>1, <1>2, <1>3, <1>4, <3>1, <3>2, <3>4
    <3> QED
      BY <3>3, <3>4
  <2>2. PutIsBeyond'
    BY <1>0, <1>1, <1>2, <1>3, <1>4
       DEF Read, BridgeInv, BridgeTypeOK, PutIsBeyond, InHand, PumpOf, RelayOf, Hops, Dirs
  <2> QED
    BY <2>1, <2>2
<1>8. HandsFit'
  BY <1>0, <1>3, <1>4 DEF Read, BridgeInv, HandsFit, HandFits, Spliced, PumpOf, RelayOf, Hops
<1>9. CountedExactly'
  BY <1>0, <1>3, <1>4, DirFacts DEF Read, BridgeInv, BridgeTypeOK, InHand, CountedExactly, Spliced, PumpOf, RelayOf, Hops
<1>10. DoneHasReadAll'
  <2> SUFFICES ASSUME NEW x \in Dirs, NEW q \in 1..2, Done(x, q)'
               PROVE  (link[x][q - 1] = 0 /\ eof[x][q - 1])'
    BY DEF DoneHasReadAll
  <2>1. Done(x, q) /\ link[x][q - 1] = 0 /\ eof[x][q - 1]
    BY <1>3, <1>4 DEF Done, BridgeInv, DoneHasReadAll
  <2> QED
    BY <1>0, <1>1, <1>2, <2>1 DEF Read
<1>11. EndsAreTold'
  BY <1>0, <1>4, DirFacts DEF Read, BridgeInv, EndsAreTold, Done
<1> QED
  BY <1>5, <1>6, <1>7, <1>8, <1>9, <1>10, <1>11 DEF BridgeInv

\* A step that replaces what one pump has in hand, and moves no unit.
LEMMA HandKeeps ==
    ASSUME BridgeInv, NEW d \in Dirs, NEW p \in 1..2, p <= Hops, NEW next \in InHand,
           pump' = [pump EXCEPT ![d][p] = next],
           next.left = pump[d][p].left, next.due <= next.size,
           ~Done(d, p) \/ next.st = "done",
           Spliced => next.st \in {"read", "done"},
           ~Spliced => next.left <= next.size /\ (next.st \in {"read", "done"} => next.size = 0),
           next.st = "done" => next.left = 0 /\ link[d][p - 1] = 0 /\ eof'[d][p - 1],
           next.st = "flush" => pump[d][p].st = "flush",
           eof' \in [Dirs -> [0..2 -> BOOLEAN]],
           \A x \in Dirs, k \in 0..2 : eof[x][k] => eof'[x][k],
           ~failed => \A x \in Dirs, k \in 1..2 :
               eof'[x][k] => Done(x, k)' \/ (route = "wss" /\ k = 1 /\ Done(Back(x), 1)'),
           tokens' \in 0..Burst, counted' \in [Dirs -> 0..Most],
           CountedExactly',
           UNCHANGED <<route, limited, sent, got, link, put, up, failed>>
    PROVE  BridgeInv'
<1>1. /\ pump' \in [Dirs -> [1..2 -> InHand]]
      /\ \A x \in Dirs, q \in 1..2 :
             pump'[x][q] = IF x = d /\ q = p THEN next ELSE pump[x][q]
  <2>1. pump \in [Dirs -> [1..2 -> InHand]]
    BY DEF BridgeInv, BridgeTypeOK, InHand
  <2> QED
    BY <2>1
<1>2. BridgeTypeOK' /\ (limited => route = "pump")'
  BY <1>1 DEF BridgeInv, BridgeTypeOK, InHand
<1>3. OneHopIsShort'
  <2> SUFFICES ASSUME Hops = 1, NEW x \in Dirs PROVE link[x][2] = 0 /\ pump'[x][2] = Idle
    BY DEF OneHopIsShort, Hops
  <2> QED
    BY <1>1 DEF BridgeInv, OneHopIsShort
<1>4. UnitsConserved' /\ PutIsBeyond'
  BY <1>1 DEF BridgeInv, UnitsConserved, PutIsBeyond, PumpOf, RelayOf, Hops
<1>5. HandsFit'
  BY <1>1 DEF BridgeInv, HandsFit, HandFits, Spliced, PumpOf, RelayOf, Hops
<1>6. DoneHasReadAll'
  BY <1>1 DEF BridgeInv, DoneHasReadAll, Done
<1>7. EndsAreTold'
  BY <1>1 DEF EndsAreTold
<1> QED
  BY <1>2, <1>3, <1>4, <1>5, <1>6, <1>7 DEF BridgeInv

LEMMA AcquireKeeps == ASSUME BridgeInv, NEW d \in Dirs, NEW p \in 1..2, Acquire(d, p) PROVE BridgeInv'
<1> DEFINE hand == pump[d][p]
           segment == IF hand.due < Burst THEN hand.due ELSE Burst
           next == [hand EXCEPT !.due = @ - segment,
                                !.st = IF hand.due = segment THEN "write" ELSE @]
<1>1. hand \in InHand /\ HandFits(d, p) /\ p <= Hops /\ hand.st = "acquire" /\ ~Spliced
  BY DEF Acquire, Running, BridgeInv, BridgeTypeOK, InHand, HandsFit, HandFits
<1>2. segment \in Nat /\ segment <= hand.due /\ segment <= tokens /\ tokens' = tokens - segment
  BY <1>1, BridgeAssumption DEF Acquire, InHand
<1>3. /\ next \in InHand /\ next.left = hand.left /\ next.size = hand.size /\ next.due <= next.size
      /\ next.st \in {"acquire", "write"}
  <2>1. hand.due - segment \in 0..Chunk /\ hand.due <= hand.size
    BY <1>1, <1>2, BridgeAssumption DEF InHand, HandFits
  <2> DEFINE st == IF hand.due = segment THEN "write" ELSE hand.st
             due == hand.due - segment
  <2>2. next = [hand EXCEPT !.due = due, !.st = st] /\ st \in {"acquire", "write"}
    BY <1>1
  <2>3. due \in 0..Chunk /\ due <= hand.size
    BY <1>1, <1>2, <2>1, BridgeAssumption DEF InHand
  <2> HIDE DEF segment, st, due
  <2> QED
    BY <1>1, <2>2, <2>3 DEF InHand
<1>4. pump' = [pump EXCEPT ![d][p] = next]
  BY <1>1 DEF Acquire, BridgeInv, BridgeTypeOK, InHand
<1>5. tokens' \in 0..Burst
  BY <1>2, BridgeAssumption DEF BridgeInv, BridgeTypeOK
<1> HIDE DEF next
<1>6. \A x \in Dirs, q \in 1..2 :
          /\ x # d \/ q # p => pump'[x][q] = pump[x][q]
          /\ x = d /\ q = p => pump'[x][q] = next
  <2>1. pump \in [Dirs -> [1..2 -> InHand]]
    BY DEF BridgeInv, BridgeTypeOK, InHand
  <2> QED
    BY <1>4, <2>1
<1>7. CountedExactly'
  <2> SUFFICES ASSUME NEW x \in Dirs
               PROVE  put[x] = counted[x] + (pump'[x][PumpOf(x, 1)].size - pump'[x][PumpOf(x, 1)].left)
    BY <1>1 DEF Acquire, CountedExactly, Spliced, PumpOf, RelayOf, Hops
  <2>1. put[x] = counted[x] + (pump[x][PumpOf(x, 1)].size - pump[x][PumpOf(x, 1)].left)
    BY <1>1 DEF BridgeInv, CountedExactly
  <2>2. PumpOf(x, 1) \in 1..2
    BY DirFacts
  <2> HIDE DEF hand
  <2>3. CASE x = d /\ PumpOf(x, 1) = p
    BY <1>3, <1>6, <2>1, <2>3 DEF hand
  <2>4. CASE ~(x = d /\ PumpOf(x, 1) = p)
    BY <1>6, <2>1, <2>2, <2>4
  <2> QED
    BY <2>3, <2>4
<1>8. ~failed => \A x \in Dirs, k \in 1..2 :
          eof[x][k] => Done(x, k)' \/ (route = "wss" /\ k = 1 /\ Done(Back(x), 1)')
  BY <1>1, <1>6, DirFacts DEF BridgeInv, EndsAreTold, Done
<1> QED
  <2>1. UNCHANGED <<route, limited, sent, got, link, put, up, failed, eof, counted>>
    BY DEF Acquire
  <2>2. eof' \in [Dirs -> [0..2 -> BOOLEAN]] /\ counted' \in [Dirs -> 0..Most]
    BY <2>1 DEF BridgeInv, BridgeTypeOK
  <2> QED
    BY <1>1, <1>3, <1>4, <1>5, <1>7, <1>8, <2>1, <2>2, HandKeeps DEF HandFits, Done

LEMMA RefillKeeps == ASSUME BridgeInv, Refill PROVE BridgeInv'
<1>1. tokens' \in 0..Burst
  BY BridgeAssumption DEF Refill, BridgeInv, BridgeTypeOK
<1>2. UNCHANGED <<route, limited, sent, got, link, eof, pump, put, counted, up, failed>>
  BY DEF Refill
<1> QED
  BY <1>1, <1>2 DEF BridgeInv, BridgeTypeOK, OneHopIsShort, UnitsConserved, PutIsBeyond, HandsFit,
     HandFits, CountedExactly, DoneHasReadAll, EndsAreTold, Done, Spliced, PumpOf, RelayOf, Hops

LEMMA FlushKeeps == ASSUME BridgeInv, NEW d \in Dirs, NEW p \in 1..2, Flush(d, p) PROVE BridgeInv'
<1> DEFINE hand == pump[d][p]
<1>1. /\ hand \in InHand /\ HandFits(d, p) /\ p <= Hops /\ hand.st = "flush"
      /\ ~Spliced /\ p = PumpOf(d, 1) /\ hand.left = 0
  BY DEF Flush, Running, BridgeInv, BridgeTypeOK, InHand, HandsFit, HandFits
<1>2. put[d] = counted[d] + hand.size
  BY <1>1, BridgeAssumption DEF BridgeInv, BridgeTypeOK, InHand, CountedExactly
<1>3. /\ counted' \in [Dirs -> 0..Most]
      /\ \A x \in Dirs : counted'[x] = IF x = d THEN counted[d] + hand.size ELSE counted[x]
  <2>1. put[d] \in 0..Most /\ counted \in [Dirs -> 0..Most] /\ counted' = [counted EXCEPT ![d] = @ + hand.size]
    BY DEF Flush, BridgeInv, BridgeTypeOK
  <2> QED
    BY <1>2, <2>1
<1>4. pump' = [pump EXCEPT ![d][p] = Idle]
  BY DEF Flush
<1>5. \A x \in Dirs, q \in 1..2 :
          /\ x # d \/ q # p => pump'[x][q] = pump[x][q]
          /\ x = d /\ q = p => pump'[x][q] = Idle
  <2>1. pump \in [Dirs -> [1..2 -> InHand]]
    BY DEF BridgeInv, BridgeTypeOK, InHand
  <2> QED
    BY <1>4, <2>1
<1>6. CountedExactly'
  <2> SUFFICES ASSUME NEW x \in Dirs
               PROVE  put[x] = counted'[x] + (pump'[x][PumpOf(x, 1)].size - pump'[x][PumpOf(x, 1)].left)
    BY <1>1 DEF Flush, CountedExactly, Spliced, PumpOf, RelayOf, Hops
  <2>1. CASE x = d
    BY <1>1, <1>2, <1>3, <1>5, <2>1, IdleIsInHand, BridgeAssumption DEF BridgeInv, BridgeTypeOK, InHand
  <2>2. CASE x # d
    BY <1>1, <1>3, <1>5, <2>2, DirFacts DEF BridgeInv, CountedExactly
  <2> QED
    BY <2>1, <2>2
<1>7. ~failed => \A x \in Dirs, k \in 1..2 :
          eof[x][k] => Done(x, k)' \/ (route = "wss" /\ k = 1 /\ Done(Back(x), 1)')
  BY <1>1, <1>5, DirFacts DEF BridgeInv, EndsAreTold, Done
<1> QED
  <2>1. UNCHANGED <<route, limited, sent, got, link, put, up, failed, eof, tokens>>
    BY DEF Flush
  <2>2. eof' \in [Dirs -> [0..2 -> BOOLEAN]] /\ tokens' \in 0..Burst
    BY <2>1 DEF BridgeInv, BridgeTypeOK
  <2>3. ~Done(d, p)
    BY <1>1 DEF Done
  <2>4. \A x \in Dirs, k \in 0..2 : eof[x][k] => eof'[x][k]
    BY <2>1
  <2>5. Idle.left = hand.left /\ Idle.due <= Idle.size /\ Idle.left <= Idle.size
    BY <1>1, IdleIsInHand
  <2>6. Idle.st # "done" /\ Idle.st # "flush" /\ (~Spliced => Idle.size = 0)
    BY IdleIsInHand
  <2> QED
    BY <1>1, <1>3, <1>4, <1>6, <1>7, <2>1, <2>2, <2>3, <2>4, <2>5, <2>6, IdleIsInHand, HandKeeps

LEMMA ReadEndsKeeps == ASSUME BridgeInv, NEW d \in Dirs, NEW p \in 1..2, ReadEnds(d, p) PROVE BridgeInv'
<1> DEFINE hand == pump[d][p]
           next == [hand EXCEPT !.st = "done"]
<1>1. /\ hand \in InHand /\ HandFits(d, p) /\ p \in 1..Hops /\ hand.st = "read" /\ hand.left = 0
      /\ link[d][p - 1] = 0 /\ eof[d][p - 1]
  BY DirFacts DEF ReadEnds, Running, BridgeInv, BridgeTypeOK, InHand, HandsFit
<1>2. /\ next \in InHand /\ next.left = 0 /\ next.size = hand.size /\ next.due = hand.due
      /\ next.st = "done"
  BY <1>1, BridgeAssumption DEF InHand
<1>3. pump' = [pump EXCEPT ![d][p] = next]
  BY <1>1 DEF ReadEnds, BridgeInv, BridgeTypeOK, InHand
<1> HIDE DEF next
<1>4. \A x \in Dirs, q \in 1..2 :
          /\ x # d \/ q # p => pump'[x][q] = pump[x][q]
          /\ x = d /\ q = p => pump'[x][q] = next
  <2>1. pump \in [Dirs -> [1..2 -> InHand]]
    BY DEF BridgeInv, BridgeTypeOK, InHand
  <2> QED
    BY <1>3, <2>1
<1>5. /\ eof' \in [Dirs -> [0..2 -> BOOLEAN]]
      /\ \A x \in Dirs, k \in 0..2 :
             eof'[x][k] <=> \/ eof[x][k]
                            \/ x = d /\ k = p
                            \/ x = Back(d) /\ OverWss(p - 1) /\ k = Hops - (p - 1)
  BY DEF ReadEnds, BridgeInv, BridgeTypeOK
<1>6. CountedExactly'
  BY <1>2, <1>4, DirFacts, <1>1 DEF ReadEnds, BridgeInv, CountedExactly, Spliced, PumpOf, RelayOf, Hops
<1>7. ASSUME ~failed, NEW x \in Dirs, NEW k \in 1..2, eof'[x][k]
      PROVE  Done(x, k)' \/ (route = "wss" /\ k = 1 /\ Done(Back(x), 1)')
  <2>1. \A y \in Dirs, q \in 1..2 : Done(y, q) => Done(y, q)'
    BY <1>2, <1>4 DEF Done
  <2>2. CASE eof[x][k]
    BY <1>7, <2>1, <2>2, DirFacts DEF BridgeInv, EndsAreTold
  <2>3. CASE x = d /\ k = p
    BY <1>2, <1>4, <2>3 DEF Done
  <2>4. CASE x = Back(d) /\ OverWss(p - 1) /\ k = Hops - (p - 1)
    <3>1. p = 2 /\ Hops = 2 /\ k = 1 /\ route = "wss" /\ eof[d][1]
      BY <1>1, <2>4, DirFacts DEF OverWss, Tunnels
    <3>2. Done(d, 1) \/ Done(Back(d), 1)
      BY <3>1, <1>7 DEF BridgeInv, EndsAreTold
    <3> QED
      BY <2>1, <2>4, <3>1, <3>2, DirFacts
  <2> QED
    BY <1>5, <1>7, <2>2, <2>3, <2>4
<1> QED
  <2>1. UNCHANGED <<route, limited, sent, got, link, put, counted, tokens, up, failed>>
    BY DEF ReadEnds
  <2>2. counted' \in [Dirs -> 0..Most] /\ tokens' \in 0..Burst
    BY <2>1 DEF BridgeInv, BridgeTypeOK
  <2>3. eof'[d][p - 1] /\ \A x \in Dirs, k \in 0..2 : eof[x][k] => eof'[x][k]
    BY <1>1, <1>5, DirFacts
  <2>4. ~Done(d, p) /\ (~Spliced => next.size = 0) /\ next.due <= next.size
    BY <1>1, <1>2 DEF Done, HandFits
  <2>5. 0 <= 0 /\ p <= Hops
    BY <1>1, DirFacts
  <2> QED
    BY <1>1, <1>2, <1>3, <1>5, <1>6, <1>7, <2>1, <2>2, <2>3, <2>4, <2>5, HandKeeps

LEMMA WriteKeeps == ASSUME BridgeInv, NEW d \in Dirs, NEW p \in 1..2, Write(d, p) PROVE BridgeInv'
<1> DEFINE hand == pump[d][p]
           rest == [hand EXCEPT !.left = @ - 1]
           next == IF Spliced THEN rest ELSE Emptied(d, p, rest)
           passes == p = PumpOf(d, 1)
<1>1. /\ hand \in InHand /\ HandFits(d, p) /\ p \in 1..Hops /\ hand.left > 0
      /\ IF Spliced THEN hand.st = "read" ELSE hand.st = "write"
      /\ ~eof[d][p] /\ link[d][p] < LinkCap /\ (Metered(d, p) <=> passes)
      /\ Spliced <=> route = "splice"
  BY DirFacts DEF Write, CanWrite, Running, BridgeInv, BridgeTypeOK, InHand, HandsFit, HandFits, Spliced
<1>2. hand.left \in Nat /\ hand.size \in Nat /\ hand.left - 1 \in Nat
  BY <1>1, BridgeAssumption DEF InHand
<1>3. /\ rest \in InHand /\ rest.left = hand.left - 1 /\ rest.size = hand.size
      /\ rest.st = hand.st /\ rest.due = hand.due
  BY <1>1, <1>2, BridgeAssumption DEF InHand
<1> HIDE DEF rest
<1>4. /\ next \in InHand /\ next.left = hand.left - 1 /\ next.due <= next.size
      /\ next.st # "done" /\ (Spliced => next.st = "read")
      /\ next.st = "flush" => passes /\ next.left = 0 /\ route \in Tunnels
      /\ ~Spliced => next.left <= next.size /\ (next.st = "read" => next.size = 0)
  <2>1. CASE Spliced \/ rest.left > 0
    <3>1. next = rest
      BY <2>1 DEF Emptied
    <3> QED
      BY <1>1, <1>2, <1>3, <3>1 DEF HandFits
  <2>2. CASE ~Spliced /\ rest.left = 0 /\ Metered(d, p) /\ route \in Tunnels
    <3>1. next = [rest EXCEPT !.st = "flush"]
      BY <2>2 DEF Emptied
    <3> QED
      BY <1>1, <1>2, <1>3, <2>2, <3>1 DEF HandFits, InHand
  <2>3. CASE ~Spliced /\ rest.left = 0 /\ ~(Metered(d, p) /\ route \in Tunnels)
    <3>1. next = Idle
      BY <2>3 DEF Emptied
    <3> QED
      BY <1>1, <1>2, <1>3, <2>3, <3>1, IdleIsInHand
  <2> QED
    BY <1>2, <1>3, <2>1, <2>2, <2>3
<1>5. /\ next.size = (IF ~Spliced /\ rest.left = 0 /\ ~(passes /\ route \in Tunnels) THEN 0 ELSE hand.size)
  BY <1>1, <1>2, <1>3, IdleIsInHand DEF Emptied, InHand
<1> HIDE DEF next
<1>6. /\ pump' \in [Dirs -> [1..2 -> InHand]]
      /\ \A x \in Dirs, q \in 1..2 :
             /\ x = d /\ q = p => pump'[x][q] = next
             /\ x # d \/ q # p => pump'[x][q] = pump[x][q]
  <2>1. pump' = [pump EXCEPT ![d][p] = next]
    BY DEF Write, next, rest
  <2>2. pump \in [Dirs -> [1..2 -> InHand]]
    BY DEF BridgeInv, BridgeTypeOK, InHand
  <2> QED
    BY <1>4, <2>1, <2>2
<1>7. /\ link' \in [Dirs -> [0..2 -> 0..LinkCap]]
      /\ \A x \in Dirs, k \in 0..2 :
             /\ x = d /\ k = p => link'[x][k] = link[x][k] + 1
             /\ x # d \/ k # p => link'[x][k] = link[x][k]
  BY <1>1, BridgeAssumption DEF Write, BridgeInv, BridgeTypeOK
<1>8. UNCHANGED <<route, limited, sent, got, eof, tokens, up, failed>>
  BY DEF Write
<1>9. UnitsConserved'
  <2> SUFFICES ASSUME NEW x \in Dirs
               PROVE  sent[x] = got[x] + link'[x][0] + link'[x][1] + link'[x][2]
                                       + pump'[x][1].left + pump'[x][2].left
    BY <1>8 DEF UnitsConserved
  <2>1. sent[x] = got[x] + link[x][0] + link[x][1] + link[x][2]
                         + pump[x][1].left + pump[x][2].left
    BY DEF BridgeInv, UnitsConserved
  <2>2. /\ link[x][0] \in Nat /\ link[x][1] \in Nat /\ link[x][2] \in Nat
        /\ pump[x][1].left \in Nat /\ pump[x][2].left \in Nat /\ got[x] \in Nat
    BY BridgeAssumption DEF BridgeInv, BridgeTypeOK, InHand
  <2>3. CASE x # d
    BY <1>6, <1>7, <2>1, <2>3
  <2>4. CASE x = d /\ p = 1
    <3>1. /\ link'[x][0] = link[x][0] /\ link'[x][1] = link[x][1] + 1 /\ link'[x][2] = link[x][2]
          /\ pump'[x][1].left = pump[x][1].left - 1 /\ pump'[x][2].left = pump[x][2].left
      BY <1>4, <1>6, <1>7, <2>4
    <3> QED
      BY <1>1, <2>1, <2>2, <3>1
  <2>5. CASE x = d /\ p = 2
    <3>1. /\ link'[x][0] = link[x][0] /\ link'[x][1] = link[x][1] /\ link'[x][2] = link[x][2] + 1
          /\ pump'[x][1].left = pump[x][1].left /\ pump'[x][2].left = pump[x][2].left - 1
      BY <1>4, <1>6, <1>7, <2>5
    <3> QED
      BY <1>1, <2>1, <2>2, <3>1
  <2> QED
    BY <2>3, <2>4, <2>5
<1>10. /\ put' \in [Dirs -> Nat]
       /\ \A x \in Dirs : put'[x] = IF x = d /\ passes THEN put[x] + 1 ELSE put[x]
  BY <1>1 DEF Write, BridgeInv, BridgeTypeOK
<1>11. PutIsBeyond'
  <2> SUFFICES ASSUME NEW x \in Dirs
               PROVE  put'[x] = got[x] + link'[x][2]
                          + (IF PumpOf(x, 1) = 1 THEN link'[x][1] + pump'[x][2].left ELSE 0)
    BY <1>8 DEF PutIsBeyond, PumpOf, RelayOf, Hops
  <2>1. put[x] = got[x] + link[x][2] + (IF PumpOf(x, 1) = 1 THEN link[x][1] + pump[x][2].left ELSE 0)
    BY DEF BridgeInv, PutIsBeyond
  <2>2. /\ link[x][1] \in Nat /\ link[x][2] \in Nat /\ pump[x][2].left \in Nat
        /\ got[x] \in Nat /\ put[x] \in Nat
    BY BridgeAssumption DEF BridgeInv, BridgeTypeOK, InHand
  <2>3. PumpOf(x, 1) \in {1, 2} /\ (PumpOf(x, 1) = 2 => Hops = 2)
    BY DirFacts
  <2>4. CASE x # d
    BY <1>6, <1>7, <1>10, <2>1, <2>4
  <2>5. CASE x = d /\ p = 1
    BY <1>1, <1>4, <1>6, <1>7, <1>10, <2>1, <2>2, <2>3, <2>5
  <2>6. CASE x = d /\ p = 2
    BY <1>1, <1>4, <1>6, <1>7, <1>10, <2>1, <2>2, <2>3, <2>6
  <2> QED
    BY <2>4, <2>5, <2>6
<1>12. /\ counted' \in [Dirs -> Nat]
       /\ \A x \in Dirs :
              counted'[x] = IF x # d THEN counted[x]
                            ELSE IF Spliced THEN counted[x] + 1
                            ELSE IF route = "pump" /\ rest.left = 0 THEN counted[x] + hand.size
                            ELSE counted[x]
  <2>1. counted \in [Dirs -> Nat]
    BY DEF BridgeInv, BridgeTypeOK
  <2>2. counted' = IF Spliced THEN [counted EXCEPT ![d] = @ + 1]
                   ELSE IF route = "pump" /\ rest.left = 0 THEN [counted EXCEPT ![d] = @ + hand.size]
                   ELSE counted
    BY <1>3 DEF Write, rest
  <2> QED
    BY <1>2, <2>1, <2>2
<1>13. CountedExactly'
  <2> SUFFICES ASSUME NEW x \in Dirs
               PROVE  put'[x] = counted'[x] + (IF Spliced THEN 0 ELSE
                          pump'[x][PumpOf(x, 1)].size - pump'[x][PumpOf(x, 1)].left)
    BY <1>8 DEF CountedExactly, Spliced, PumpOf, RelayOf, Hops
  <2>1. put[x] = counted[x] + (IF Spliced THEN 0 ELSE
                     pump[x][PumpOf(x, 1)].size - pump[x][PumpOf(x, 1)].left)
    BY DEF BridgeInv, CountedExactly
  <2>2. PumpOf(x, 1) \in 1..2 /\ put[x] \in Nat /\ counted[x] \in Nat
    BY DirFacts DEF BridgeInv, BridgeTypeOK
  <2>3. CASE x # d
    BY <1>6, <1>10, <1>12, <2>1, <2>2, <2>3
  <2>4. CASE x = d /\ ~passes
    <3>1. Hops = 2 /\ ~Spliced /\ route # "pump"
      BY <1>1, <2>4, DirFacts DEF Tunnels
    <3> QED
      BY <1>6, <1>10, <1>12, <2>1, <2>2, <2>4, <3>1
  <2>5. CASE x = d /\ passes
    <3>1. put'[x] = put[x] + 1
      BY <1>10, <2>5
    <3>2. CASE Spliced
      BY <1>12, <2>1, <2>2, <2>5, <3>1, <3>2
    <3>3. CASE ~Spliced
      <4>1. put[x] = counted[x] + (hand.size - hand.left)
        BY <2>1, <2>5, <3>3
      <4>2. pump'[x][PumpOf(x, 1)] = next
        BY <1>6, <2>5
      <4>3. ~(route \in Tunnels) => route = "pump"
        BY <1>1, <3>3 DEF BridgeInv, BridgeTypeOK
      <4>4. route = "pump" => ~(route \in Tunnels)
        BY DEF Tunnels
      <4>5. counted'[x] = IF route = "pump" /\ rest.left = 0 THEN counted[x] + hand.size ELSE counted[x]
        BY <1>12, <2>5, <3>3
      <4> SUFFICES put'[x] = counted'[x] + (next.size - next.left)
        BY <3>3, <4>2
      <4> HIDE DEF hand, passes
      <4>6. CASE rest.left = 0 /\ route = "pump"
        <5>1. next.size = 0
          BY <1>5, <3>3, <4>4, <4>6
        <5>2. next.left = 0 /\ hand.left = 1
          BY <1>2, <1>3, <1>4, <4>6
        <5> QED
          BY <1>2, <2>2, <3>1, <4>1, <4>5, <4>6, <5>1, <5>2
      <4>7. CASE ~(rest.left = 0 /\ route = "pump")
        <5>1. next.size = hand.size
          BY <1>5, <2>5, <3>3, <4>3, <4>7
        <5> QED
          BY <1>2, <1>3, <1>4, <2>2, <3>1, <4>1, <4>5, <4>7, <5>1
      <4> QED
        BY <4>6, <4>7
    <3> QED
      BY <3>2, <3>3
  <2> QED
    BY <2>3, <2>4, <2>5
<1>14. put' \in [Dirs -> 0..Most] /\ counted' \in [Dirs -> 0..Most]
  <2> SUFFICES ASSUME NEW x \in Dirs PROVE put'[x] \in 0..Most /\ counted'[x] \in 0..Most
    BY <1>10, <1>12
  <2>1. put'[x] \in Nat /\ counted'[x] \in Nat /\ sent[x] \in 0..Most /\ got[x] \in Nat /\ Most \in Nat
    BY <1>10, <1>12, BridgeAssumption DEF BridgeInv, BridgeTypeOK, Most
  <2>2. /\ link'[x][0] \in Nat /\ link'[x][1] \in Nat /\ link'[x][2] \in Nat
        /\ pump'[x][1].left \in Nat /\ pump'[x][2].left \in Nat
    BY <1>6, <1>7, BridgeAssumption DEF InHand
  <2>3. put'[x] <= sent[x]
    BY <1>8, <1>9, <1>11, <2>1, <2>2 DEF UnitsConserved, PutIsBeyond
  <2>4. counted'[x] <= put'[x]
    <3>1. PumpOf(x, 1)' \in 1..2
      BY <1>8, DirFacts DEF PumpOf, RelayOf, Hops
    <3>2. ~Spliced => pump'[x][PumpOf(x, 1)'].left <= pump'[x][PumpOf(x, 1)'].size
      BY <1>4, <1>6, <3>1 DEF BridgeInv, HandsFit, HandFits
    <3>3. pump'[x][PumpOf(x, 1)'].left \in Nat /\ pump'[x][PumpOf(x, 1)'].size \in Nat
      BY <1>6, <3>1, BridgeAssumption DEF InHand
    <3> QED
      BY <1>8, <1>13, <2>1, <3>2, <3>3 DEF CountedExactly, Spliced
  <2> QED
    BY <2>1, <2>3, <2>4
<1>15. BridgeTypeOK' /\ (limited => route = "pump")'
  BY <1>6, <1>7, <1>8, <1>14 DEF BridgeInv, BridgeTypeOK, InHand
<1>16. OneHopIsShort'
  BY <1>1, <1>6, <1>7, <1>8 DEF BridgeInv, OneHopIsShort, Hops
<1>17. HandsFit'
  BY <1>1, <1>4, <1>6, <1>8 DEF BridgeInv, HandsFit, HandFits, Spliced, PumpOf, RelayOf, Hops
<1>18. DoneHasReadAll' /\ EndsAreTold'
  <2>1. \A x \in Dirs, q \in 1..2 : Done(x, q)' <=> Done(x, q)
    BY <1>1, <1>4, <1>6 DEF Done
  <2>2. EndsAreTold'
    BY <1>8, <2>1, DirFacts DEF BridgeInv, EndsAreTold
  <2>3. DoneHasReadAll'
    BY <1>1, <1>7, <1>8, <2>1 DEF BridgeInv, DoneHasReadAll
  <2> QED
    BY <2>2, <2>3
<1> QED
  BY <1>9, <1>11, <1>13, <1>15, <1>16, <1>17, <1>18 DEF BridgeInv

(* One bridge. *)

LEMMA BridgeDoneKeeps == ASSUME BridgeInv, NEW r \in 1..2, BridgeDone(r) PROVE BridgeInv'
<1>1. up' \subseteq 1..2
  BY DEF BridgeDone, BridgeInv, BridgeTypeOK
<1>2. UNCHANGED <<route, limited, sent, got, link, eof, pump, put, counted, tokens, failed>>
  BY DEF BridgeDone
<1> QED
  BY <1>1, <1>2 DEF BridgeInv, BridgeTypeOK, OneHopIsShort, UnitsConserved, PutIsBeyond, HandsFit,
     HandFits, CountedExactly, DoneHasReadAll, EndsAreTold, Done, Spliced, PumpOf, RelayOf, Hops

LEMMA FailKeeps == ASSUME BridgeInv, NEW r \in 1..2, Fail(r) PROVE BridgeInv'
<1>1. up' \subseteq 1..2 /\ failed' = TRUE
  BY DEF Fail, BridgeInv, BridgeTypeOK
<1>2. /\ eof' \in [Dirs -> [0..2 -> BOOLEAN]]
      /\ \A d \in Dirs, k \in 0..2 : eof[d][k] => eof'[d][k]
  BY DEF Fail, BridgeInv, BridgeTypeOK
<1>3. UNCHANGED <<route, limited, sent, got, link, pump, put, counted, tokens>>
  BY DEF Fail
<1>4. BridgeTypeOK'
  BY <1>1, <1>2, <1>3 DEF BridgeInv, BridgeTypeOK
<1>5. DoneHasReadAll' /\ EndsAreTold'
  BY <1>1, <1>2, <1>3 DEF BridgeInv, DoneHasReadAll, EndsAreTold, Done
<1> QED
  BY <1>3, <1>4, <1>5 DEF BridgeInv, OneHopIsShort, UnitsConserved, PutIsBeyond, HandsFit,
     HandFits, CountedExactly, Spliced, PumpOf, RelayOf, Hops

LEMMA NextConnectionKeeps == ASSUME BridgeInv, NextConnection PROVE BridgeInv'
<1> HIDE DEF BridgeInv
<1>0. route' = route /\ limited' = limited /\ tokens' = tokens /\ (limited => route = "pump") /\ BridgeTypeOK
  BY DEF NextConnection, BridgeInv
<1>1. /\ \A d \in Dirs : sent'[d] = 0 /\ got'[d] = 0 /\ put'[d] = 0 /\ counted'[d] = 0
      /\ \A d \in Dirs, k \in 0..2 : link'[d][k] = 0 /\ eof'[d][k] = FALSE
      /\ \A d \in Dirs, p \in 1..2 : pump'[d][p] = Idle
  BY DEF NextConnection, Zero, At, NoneInHand
<1>2. BridgeTypeOK'
  <2>1. 0 \in 0..Most /\ 0 \in 0..LinkCap /\ 1..Hops \subseteq 1..2
    BY BridgeAssumption, DirFacts DEF Most
  <2>2. pump' \in [Dirs -> [1..2 -> InHand]]
    BY IdleIsInHand DEF NextConnection, NoneInHand
  <2> QED
    BY <1>0, <2>1, <2>2 DEF NextConnection, BridgeTypeOK, Zero, At, InHand
<1>3. OneHopIsShort' /\ UnitsConserved' /\ PutIsBeyond'
  BY <1>0, <1>1, IdleIsInHand DEF OneHopIsShort, UnitsConserved, PutIsBeyond, PumpOf, RelayOf, Hops
<1>4. HandsFit' /\ CountedExactly'
  <2>1. \A d \in Dirs : PumpOf(d, 1)' \in 1..2
    BY <1>0, DirFacts DEF PumpOf, RelayOf, Hops
  <2>2. HandsFit'
    BY <1>0, <1>1, IdleIsInHand DEF HandsFit, HandFits
  <2>3. CountedExactly'
    BY <1>0, <1>1, <2>1, IdleIsInHand DEF CountedExactly
  <2> QED
    BY <2>2, <2>3
<1>5. DoneHasReadAll' /\ EndsAreTold'
  BY <1>0, <1>1, IdleIsInHand DEF DoneHasReadAll, EndsAreTold, Done
<1> QED
  BY <1>0, <1>2, <1>3, <1>4, <1>5 DEF BridgeInv

LEMMA BridgeStep == BridgeInv /\ [BridgeNext]_brVars => BridgeInv'
<1> SUFFICES ASSUME BridgeInv, [BridgeNext]_brVars PROVE BridgeInv'
  OBVIOUS
<1>1. CASE \E d \in Dirs : AppSends(d) \/ AppReceives(d) \/ AppCloses(d)
  BY <1>1, AppSendsKeeps, AppReceivesKeeps, AppClosesKeeps
<1>2. ASSUME NEW d \in Dirs, NEW p \in 1..2, PumpStep(d, p) PROVE BridgeInv'
  <2>1. CASE Read(d, p)
    BY <2>1, ReadKeeps
  <2>2. CASE Acquire(d, p)
    BY <2>2, AcquireKeeps
  <2>3. CASE Write(d, p)
    BY <2>3, WriteKeeps
  <2>4. CASE Flush(d, p)
    BY <2>4, FlushKeeps
  <2>5. CASE ReadEnds(d, p)
    BY <2>5, ReadEndsKeeps
  <2>6. CASE WriteFails(d, p)
    <3>1. RelayOf(d, p) \in 1..2 /\ Fail(RelayOf(d, p))
      BY <2>6 DEF WriteFails, CanWrite, Running, BridgeInv, BridgeTypeOK
    <3> QED
      BY <3>1, FailKeeps
  <2> QED
    BY <1>2, <2>1, <2>2, <2>3, <2>4, <2>5, <2>6 DEF PumpStep
<1>3. CASE \E r \in 1..2 : BridgeDone(r) \/ Broken(r)
  BY <1>3, BridgeDoneKeeps, FailKeeps DEF Broken
<1>4. CASE Refill \/ NextConnection
  BY <1>4, RefillKeeps, NextConnectionKeeps
<1>5. CASE UNCHANGED brVars
  BY <1>5 DEF brVars, BridgeInv, BridgeTypeOK, OneHopIsShort, UnitsConserved, PutIsBeyond, HandsFit,
     HandFits, CountedExactly, DoneHasReadAll, EndsAreTold, Done, Spliced, PumpOf, RelayOf, Hops
<1> QED
  BY <1>1, <1>2, <1>3, <1>4, <1>5 DEF BridgeNext

\* For any number of units, any buffer, link and bucket, and on each of the
\* four routes: the inductive invariant of the bytes of one connection.  Every
\* unit sent is read, in a link or in a pump's hand.
THEOREM BridgeInvariant == BridgeSpec => []BridgeInv
BY InitBridge, BridgeStep, PTL DEF BridgeSpec

\* The counters never run ahead of what was written to the other side and lag
\* it by at most the chunk in hand, wherever the connection is cut: pump and
\* copy_counted count a whole chunk after the write (the flush), splice each
\* transfer.
THEOREM BilledUnitsWereWritten == BridgeSpec => []BilledIsWritten
<1>1. ASSUME BridgeInv PROVE BilledIsWritten
  <2> SUFFICES ASSUME NEW d \in Dirs, NEW p \in 1..2, p = PumpOf(d, 1)
               PROVE  /\ counted[d] <= put[d]
                      /\ put[d] <= counted[d] + (IF Spliced THEN 0
                                                 ELSE pump[d][p].size - pump[d][p].left)
                      /\ pump[d][p].st = "done" => counted[d] = put[d]
    BY DirFacts DEF BilledIsWritten
  <2>1. /\ counted[d] \in Nat /\ put[d] \in Nat
        /\ pump[d][p].size \in Nat /\ pump[d][p].left \in Nat
    BY <1>1, BridgeAssumption DEF BridgeInv, BridgeTypeOK
  <2>2. put[d] = counted[d] + (IF Spliced THEN 0 ELSE pump[d][p].size - pump[d][p].left)
    BY <1>1 DEF BridgeInv, CountedExactly
  <2>3. HandFits(d, p)
    BY <1>1 DEF BridgeInv, HandsFit
  <2> QED
    BY <2>1, <2>2, <2>3 DEF HandFits
<1> QED
  BY <1>1, BridgeInvariant, PTL

\* Without an error, a receiver that reads the end of the stream has got all
\* its source sent: no relay shuts down the next link before it has passed on
\* what it read, a half-close included (shutdown after the last write in
\* relay/tcp.rs, splice.rs and tunnel/task.rs).
THEOREM EndOfStreamIsTrue == BridgeSpec => []CleanEndMeansAll
<1>1. ASSUME BridgeInv PROVE CleanEndMeansAll
  <2> SUFFICES ASSUME NEW d \in Dirs, SeesEnd(d), ~failed, route = "wss" => ~eof[Back(d)][0]
               PROVE  eof[d][0] /\ got[d] = sent[d]
    BY DEF CleanEndMeansAll
  <2>1. \A p \in 1..2 : Done(d, p) => link[d][p - 1] = 0 /\ eof[d][p - 1] /\ pump[d][p].left = 0
    BY <1>1 DEF BridgeInv, DoneHasReadAll, HandsFit, HandFits, Done
  <2>2. \A k \in 1..2 : eof[d][k] => Done(d, k)
    <3>1. route = "wss" => ~Done(Back(d), 1)
      BY <1>1, DirFacts DEF BridgeInv, DoneHasReadAll
    <3> QED
      BY <1>1, <3>1 DEF BridgeInv, EndsAreTold
  <2>3. /\ sent[d] = got[d] + link[d][0] + link[d][1] + link[d][2] + pump[d][1].left + pump[d][2].left
        /\ sent[d] \in Nat /\ got[d] \in Nat
    BY <1>1 DEF BridgeInv, UnitsConserved, BridgeTypeOK
  <2>4. CASE Hops = 1
    <3>1. link[d][2] = 0 /\ pump[d][2].left = 0
      BY <1>1, <2>4, IdleIsInHand DEF BridgeInv, OneHopIsShort
    <3>2. link[d][1] = 0 /\ Done(d, 1)
      BY <2>2, <2>4 DEF SeesEnd
    <3> QED
      BY <2>1, <2>3, <3>1, <3>2
  <2>5. CASE Hops = 2
    <3>1. link[d][2] = 0 /\ Done(d, 2)
      BY <2>2, <2>5 DEF SeesEnd
    <3>2. link[d][1] = 0 /\ pump[d][2].left = 0 /\ Done(d, 1)
      BY <2>1, <2>2, <3>1
    <3> QED
      BY <2>1, <2>3, <3>1, <3>2
  <2> QED
    BY <2>4, <2>5, DirFacts
<1> QED
  BY <1>1, BridgeInvariant, PTL

-----------------------------------------------------------------------------
(* The composition. *)

\* The data plane of a rule implements each of its parts: what is proved of
\* UdpSpec, ListenerSpec and BridgeSpec holds of the specification the runs
\* check.
THEOREM DataPlaneImplementsParts == DataSpec => UdpSpec /\ ListenerSpec /\ BridgeSpec
<1>1. DataInit => UdpInit /\ ListenerInit /\ BridgeInit
  BY DEF DataInit
<1>2. [DataNext]_dataVars => [UdpNext]_udpVars /\ [ListenerNext]_lsnVars /\ [BridgeNext]_brVars
  BY DEF DataNext, dataVars
<1> QED
  BY <1>1, <1>2, PTL DEF DataSpec, UdpSpec, ListenerSpec, BridgeSpec
=============================================================================
