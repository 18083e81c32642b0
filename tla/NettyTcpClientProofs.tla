------------------------ MODULE NettyTcpClientProofs ------------------------
(***************************************************************************)
(* Theorems about NettyTcpClient for every set of threads and every bound. *)
(***************************************************************************)
EXTENDS NettyTcpClient, FiniteSetTheorems, TLAPS

-----------------------------------------------------------------------------
(* The inductive invariant *)

\* Attempts are dialled in the order of their groups, and a thread that waits
\* for an attempt has made one.
LinkOrder ==
  /\ \A a \in Attempts : link[a] = "none" <=> a > group
  /\ (\E t \in Threads : pc[t] = "sync") => group > 0

\* What the budget has left pays for the re-dials to come, the one a sleeping
\* thread has already been charged for included.
BudgetBalance ==
  /\ retries <= MaxConnectTimes
  /\ retries + reconnectNum <= MaxConnectTimes + 1
  /\ (\E t \in Threads : pc[t] = "sleep") => retries + reconnectNum <= MaxConnectTimes

\* A final disconnect() leaves no thread that will dial, nor the wish to.
StoppedQuiet ==
  stopped => ~isNeedReconnect /\ \A t \in Threads : pc[t] \notin OnTheWay

IInv == /\ TypeOK /\ MonitorExcludes /\ LinkOrder /\ OneLink
        /\ BudgetBalance /\ StoppedQuiet

-----------------------------------------------------------------------------
LEMMA TypeHolds == TypeOK /\ [Next]_vars => TypeOK'
<1> SUFFICES ASSUME TypeOK, [Next]_vars PROVE TypeOK'
  OBVIOUS
<1> USE ClientAssumption DEF TypeOK, Attempts, OnTheWay, Inside, fields, threads, network, history
<1>1. CASE Disconnect
  BY <1>1 DEF Disconnect
<1>2. CASE DisconnectThrows
  BY <1>2 DEF DisconnectThrows
<1>3. ASSUME NEW t \in Threads, Connect(t) PROVE TypeOK'
  BY <1>3 DEF Connect, Goto
<1>4. ASSUME NEW t \in Threads, ThreadStep(t) PROVE TypeOK'
  <2>1. CASE Run(t)        BY <2>1 DEF Run, Goto
  <2>2. CASE Enter(t)      BY <2>2 DEF Enter, Goto, Return
  <2>3. CASE Begin(t)      BY <2>3 DEF Begin, Goto
  <2>4. CASE Open(t)       BY <2>4 DEF Open, Goto
  <2>5. CASE Finally(t)    BY <2>5 DEF Finally, Goto
  <2>6. CASE Reconnect(t)  BY <2>6 DEF Reconnect, MayReconnect, Goto, Return
  <2>7. CASE Wake(t)       BY <2>7 DEF Wake, Goto, Return
  <2> QED BY <1>4, <2>1, <2>2, <2>3, <2>4, <2>5, <2>6, <2>7 DEF ThreadStep
<1>5. ASSUME NEW a \in Attempts, Listener(a) PROVE TypeOK'
  <2>1. CASE OnSuccess(a)  BY <2>1 DEF OnSuccess, Tell
  <2>2. CASE OnPublish(a)
    <3>1. channel' \in 0..MaxAttempts
      BY <2>2 DEF OnPublish
    <3>2. late' \in BOOLEAN /\ event' = [event EXCEPT ![a] = "done"]
      BY <2>2 DEF OnPublish, Tell
    <3> QED BY <2>2, <3>1, <3>2 DEF OnPublish
  <2>3. CASE OnFailure(a)  BY <2>3 DEF OnFailure, Tell
  <2>4. CASE OnClear(a)    BY <2>4 DEF OnClear, Tell
  <2> QED BY <1>5, <2>1, <2>2, <2>3, <2>4 DEF Listener
<1>6. ASSUME NEW a \in Attempts, Accept(a) \/ Refuse(a) PROVE TypeOK'
  BY <1>6 DEF Accept, Refuse, Outcome
<1>7. ASSUME NEW a \in Attempts, Close(a) PROVE TypeOK'
  BY <1>7 DEF Close
<1>8. CASE UNCHANGED vars
  BY <1>8 DEF vars
<1> QED BY <1>1, <1>2, <1>3, <1>4, <1>5, <1>6, <1>7, <1>8 DEF Next

-----------------------------------------------------------------------------
(* Mutual exclusion *)

LEMMA MonitorHolds ==
  TypeOK /\ MonitorExcludes /\ [Next]_vars => MonitorExcludes'
<1> SUFFICES ASSUME TypeOK, MonitorExcludes, [Next]_vars PROVE MonitorExcludes'
  OBVIOUS
<1> USE ClientAssumption DEF TypeOK, MonitorExcludes, OnTheWay, Inside, Goto, Return,
        fields, threads
<1>1. ASSUME NEW t \in Threads, Connect(t) PROVE MonitorExcludes'
  BY <1>1 DEF Connect
<1>2. ASSUME NEW t \in Threads, ThreadStep(t) PROVE MonitorExcludes'
  <2>1. CASE Run(t)        BY <2>1 DEF Run
  <2>2. CASE Enter(t)      BY <2>2 DEF Enter
  <2>3. CASE Begin(t)      BY <2>3 DEF Begin
  <2>4. CASE Open(t)       BY <2>4 DEF Open
  <2>5. CASE Finally(t)    BY <2>5 DEF Finally
  <2>6. CASE Reconnect(t)  BY <2>6 DEF Reconnect
  <2>7. CASE Wake(t)       BY <2>7 DEF Wake
  <2> QED BY <1>2, <2>1, <2>2, <2>3, <2>4, <2>5, <2>6, <2>7 DEF ThreadStep
<1>3. ASSUME UNCHANGED <<monitor, pc>> PROVE MonitorExcludes'
  BY <1>3
<1>4. CASE Disconnect \/ DisconnectThrows
  BY <1>3, <1>4 DEF Disconnect, DisconnectThrows
<1>5. ASSUME NEW a \in Attempts, Listener(a) \/ Accept(a) \/ Refuse(a) \/ Close(a)
      PROVE  MonitorExcludes'
  BY <1>3, <1>5 DEF Listener, OnSuccess, OnPublish, OnFailure, OnClear, Accept, Refuse,
                    Outcome, Close
<1>6. CASE UNCHANGED vars
  BY <1>3, <1>6 DEF vars
<1> QED BY <1>1, <1>2, <1>4, <1>5, <1>6 DEF Next

-----------------------------------------------------------------------------
(* One link at a time *)

LEMMA LinkHolds ==
  /\ TypeOK /\ MonitorExcludes /\ LinkOrder /\ OneLink
  /\ [Next]_vars
  => (LinkOrder /\ OneLink)'
<1> SUFFICES ASSUME TypeOK, MonitorExcludes, LinkOrder, OneLink, [Next]_vars
             PROVE  (LinkOrder /\ OneLink)'
  OBVIOUS
<1> USE ClientAssumption DEF TypeOK, MonitorExcludes, LinkOrder, OneLink, Busy, Attempts,
        OnTheWay, Inside, Goto, Return, fields, threads, network
<1>1. ASSUME NEW t \in Threads, Connect(t) PROVE (LinkOrder /\ OneLink)'
  BY <1>1 DEF Connect
<1>2. ASSUME NEW t \in Threads, ThreadStep(t) PROVE (LinkOrder /\ OneLink)'
  <2>1. CASE Run(t)        BY <2>1 DEF Run
  <2>2. CASE Enter(t)      BY <2>2 DEF Enter
  <2>3. CASE Begin(t)      BY <2>3 DEF Begin
  \* The one thread in the monitor is this one, so no channel is busy yet.
  <2>4. CASE Open(t)       BY <2>4 DEF Open
  \* The channel of the newest group is no longer busy, and it was the only one.
  <2>5. CASE Finally(t)    BY <2>5 DEF Finally
  <2>6. CASE Reconnect(t)  BY <2>6 DEF Reconnect
  <2>7. CASE Wake(t)       BY <2>7 DEF Wake
  <2> QED BY <1>2, <2>1, <2>2, <2>3, <2>4, <2>5, <2>6, <2>7 DEF ThreadStep
<1>3. ASSUME UNCHANGED <<group, link, pc>> PROVE (LinkOrder /\ OneLink)'
  BY <1>3
<1>4. CASE Disconnect \/ DisconnectThrows
  BY <1>3, <1>4 DEF Disconnect, DisconnectThrows
<1>5. ASSUME NEW a \in Attempts, Listener(a) PROVE (LinkOrder /\ OneLink)'
  BY <1>3, <1>5 DEF Listener, OnSuccess, OnPublish, OnFailure, OnClear
<1>6. ASSUME NEW a \in Attempts, Accept(a) \/ Refuse(a) \/ Close(a)
      PROVE  (LinkOrder /\ OneLink)'
  BY <1>6 DEF Accept, Refuse, Outcome, Close
<1>7. CASE UNCHANGED vars
  BY <1>3, <1>7 DEF vars
<1> QED BY <1>1, <1>2, <1>4, <1>5, <1>6, <1>7 DEF Next

-----------------------------------------------------------------------------
(* The budget of re-dials *)

LEMMA BudgetHolds ==
  /\ TypeOK /\ MonitorExcludes /\ BudgetBalance
  /\ [Next]_vars
  => BudgetBalance'
<1> SUFFICES ASSUME TypeOK, MonitorExcludes, BudgetBalance, [Next]_vars
             PROVE  BudgetBalance'
  OBVIOUS
<1> USE ClientAssumption DEF TypeOK, MonitorExcludes, BudgetBalance, Inside, OnTheWay,
        Goto, Return, fields, threads, history
<1>1. ASSUME NEW t \in Threads, Connect(t) PROVE BudgetBalance'
  BY <1>1 DEF Connect
<1>2. ASSUME NEW t \in Threads, ThreadStep(t) PROVE BudgetBalance'
  <2>1. CASE Run(t)        BY <2>1 DEF Run
  <2>2. CASE Enter(t)      BY <2>2 DEF Enter
  <2>3. CASE Begin(t)      BY <2>3 DEF Begin
  <2>4. CASE Open(t)       BY <2>4 DEF Open
  <2>5. CASE Finally(t)    BY <2>5 DEF Finally
  \* What is taken from reconnectNum is kept for the sleeping thread.
  <2>6. CASE Reconnect(t)  BY <2>6 DEF Reconnect, MayReconnect
  \* The sleeper was the only one: it alone may be in the monitor.
  <2>7. CASE Wake(t)       BY <2>7 DEF Wake, MayReconnect
  <2> QED BY <1>2, <2>1, <2>2, <2>3, <2>4, <2>5, <2>6, <2>7 DEF ThreadStep
<1>3. ASSUME UNCHANGED <<reconnectNum, retries, pc>> PROVE BudgetBalance'
  BY <1>3
<1>4. CASE Disconnect \/ DisconnectThrows
  BY <1>3, <1>4 DEF Disconnect, DisconnectThrows
<1>5. ASSUME NEW a \in Attempts, Listener(a) PROVE BudgetBalance'
  BY <1>3, <1>5 DEF Listener, OnSuccess, OnPublish, OnFailure, OnClear
<1>6. ASSUME NEW a \in Attempts, Accept(a) \/ Refuse(a) \/ Close(a) PROVE BudgetBalance'
  BY <1>3, <1>6 DEF Accept, Refuse, Outcome, Close
<1>7. CASE UNCHANGED vars
  BY <1>3, <1>7 DEF vars
<1> QED BY <1>1, <1>2, <1>4, <1>5, <1>6, <1>7 DEF Next

-----------------------------------------------------------------------------
(* A final disconnect *)

LEMMA StoppedHolds == TypeOK /\ StoppedQuiet /\ [Next]_vars => StoppedQuiet'
<1> SUFFICES ASSUME TypeOK, StoppedQuiet, [Next]_vars PROVE StoppedQuiet'
  OBVIOUS
<1> USE DEF TypeOK, StoppedQuiet, OnTheWay, Inside, Goto, Return, fields, threads, history
<1>1. ASSUME NEW t \in Threads, Connect(t) PROVE StoppedQuiet'
  BY <1>1 DEF Connect
<1>2. ASSUME NEW t \in Threads, ThreadStep(t) PROVE StoppedQuiet'
  \* A thread on its way to a dial is none that stopped speaks of; the others
  \* find isNeedReconnect FALSE before they could be.
  BY <1>2 DEF ThreadStep, Run, Enter, Begin, Open, Finally, Reconnect, Wake, MayReconnect
<1>3. CASE Disconnect \/ DisconnectThrows
  BY <1>3 DEF Disconnect, DisconnectThrows
<1>4. ASSUME NEW a \in Attempts, Listener(a) \/ Accept(a) \/ Refuse(a) \/ Close(a)
      PROVE  StoppedQuiet'
  BY <1>4 DEF Listener, OnSuccess, OnPublish, OnFailure, OnClear, Accept, Refuse,
              Outcome, Close
<1>5. CASE UNCHANGED vars
  BY <1>5 DEF vars
<1> QED BY <1>1, <1>2, <1>3, <1>4, <1>5 DEF Next

-----------------------------------------------------------------------------
LEMMA InitIInv == Init => IInv
<1> SUFFICES ASSUME Init PROVE IInv
  OBVIOUS
<1> USE ClientAssumption DEF Init, Attempts, OnTheWay, Inside
<1>1. TypeOK
  <2>1. /\ link \in [Attempts -> {"none"}]
        /\ shut \in [Attempts -> {FALSE}]
        /\ event \in [Attempts -> {"none"}]
    OBVIOUS
  <2>2. pc \in [Threads -> {"unused"}]
    OBVIOUS
  <2>3. /\ reconnectNum \in 0..MaxConnectTimes
        /\ group \in 0..MaxAttempts
        /\ channel \in 0..MaxAttempts
        /\ retries \in Nat
    OBVIOUS
  <2> QED BY <2>1, <2>2, <2>3 DEF TypeOK
<1>2. MonitorExcludes /\ StoppedQuiet
  BY DEF MonitorExcludes, StoppedQuiet
<1>3. LinkOrder /\ OneLink
  BY DEF LinkOrder, OneLink, Busy
<1>4. BudgetBalance
  <2>1. retries = 0 /\ reconnectNum = MaxConnectTimes
    OBVIOUS
  <2>2. \A t \in Threads : pc[t] # "sleep"
    OBVIOUS
  <2> QED BY ONLY <2>1, <2>2, ClientAssumption DEF BudgetBalance
<1> QED BY <1>1, <1>2, <1>3, <1>4 DEF IInv

LEMMA NextIInv == IInv /\ [Next]_vars => IInv'
BY TypeHolds, MonitorHolds, LinkHolds, BudgetHolds, StoppedHolds DEF IInv

LEMMA Invariance == Spec => []IInv
BY InitIInv, NextIInv, PTL DEF Spec

-----------------------------------------------------------------------------
(* Theorems *)

\* Every variable keeps its type.
THEOREM TypeCorrect == Spec => []TypeOK
BY Invariance, PTL DEF IInv

\* At most one client-Netty thread is ever inside connectServer().
THEOREM MutualExclusion == Spec => []MonitorExcludes
BY Invariance, PTL DEF IInv

\* At most one channel is ever connecting or open, and its thread waits for it.
THEOREM SingleLink == Spec => []OneLink
BY Invariance, PTL DEF IInv

\* At most MaxConnectTimes re-dials follow one another without a refill.
THEOREM BudgetKept == Spec => []RetryBudget
<1>1. IInv => RetryBudget
  BY DEF IInv, BudgetBalance, RetryBudget
<1> QED BY <1>1, Invariance, PTL

\* Nothing is dialled after a final disconnect() until connect() is called.
THEOREM FinalDisconnect == Spec => DisconnectIsFinal
<1>1. IInv /\ [Next]_vars => [stopped /\ stopped' => group' = group]_vars
  <2> SUFFICES ASSUME IInv, Next, stopped, stopped' PROVE group' = group
    BY DEF vars, fields
  <2>1. ASSUME NEW t \in Threads PROVE ~Open(t)
    BY DEF IInv, StoppedQuiet, Open, OnTheWay
  <2> QED
    BY <2>1 DEF Next, Connect, Disconnect, DisconnectThrows, ThreadStep, Run, Enter, Begin,
       Finally, Reconnect, Wake, Listener, OnSuccess, OnPublish, OnFailure, OnClear,
       Accept, Refuse, Outcome, Close, fields
<1> QED BY <1>1, Invariance, PTL DEF Spec, DisconnectIsFinal

\* A step of the client is a step of the abstract link, or none.
LEMMA LinkStep == IInv /\ [Next]_vars => [Link!LinkNext]_(Link!linkVars)
<1> SUFFICES ASSUME IInv, [Next]_vars PROVE [Link!LinkNext]_(Link!linkVars)
  OBVIOUS
<1> USE ClientAssumption DEF IInv, TypeOK, MonitorExcludes, LinkOrder, OneLink, Busy, Attempts,
        Inside, OnTheWay, linkState, Link!LinkNext, Link!linkVars
<1>1. ASSUME UNCHANGED <<group, link>> PROVE UNCHANGED <<group, linkState>>
  BY <1>1
<1>2. ASSUME NEW t \in Threads, Open(t) PROVE Link!Dial
  BY <1>2 DEF Open, Link!Dial
<1>3. ASSUME NEW a \in Attempts, Accept(a) PROVE Link!Establish
  BY <1>3 DEF Accept, Outcome, Link!Establish, fields
<1>4. ASSUME NEW a \in Attempts, Refuse(a) PROVE Link!Fail
  BY <1>4 DEF Refuse, Outcome, Link!Fail, fields
<1>5. ASSUME NEW a \in Attempts, Close(a) PROVE Link!Lose
  BY <1>5 DEF Close, Link!Lose, fields
<1>6. CASE \/ Disconnect \/ DisconnectThrows \/ UNCHANGED vars
           \/ \E t \in Threads : Connect(t) \/ (ThreadStep(t) /\ ~Open(t))
           \/ \E a \in Attempts : Listener(a)
  BY <1>1, <1>6 DEF Connect, Disconnect, DisconnectThrows, ThreadStep, Run, Enter, Begin,
       Finally, Reconnect, Wake, Listener, OnSuccess, OnPublish, OnFailure, OnClear,
       fields, network, vars
<1> QED BY <1>2, <1>3, <1>4, <1>5, <1>6 DEF Next

\* The client's link is a TcpLink: dialled, up or refused, down again, in turn.
THEOREM LinkImplemented == Spec => ImplementsTcpLink
<1>1. Init => Link!LinkInit
  BY DEF Init, Link!LinkInit, linkState
<1> QED BY <1>1, LinkStep, Invariance, PTL DEF Spec, ImplementsTcpLink, Link!LinkSpec

-----------------------------------------------------------------------------
(* The flags *)

Waiting == \E t \in Threads : pc[t] = "sync"

\* A listener speaks of what its attempt came to.
ListenerAgrees ==
  \A a \in Attempts :
    /\ link[a] \in {"none", "connecting"} <=> event[a] = "none"
    /\ event[a] \in {"success", "publish"} => a \in Accepted
    /\ event[a] \in {"failure", "clear"} => link[a] = "refused"

\* While no listener has been late, isConnect is TRUE only while the thread waits
\* for a link that came up, and how far the listener of that link has come tells
\* which of its writes have been made.
FlagsFollow ==
  /\ channel # 0 => channel \in Accepted
  /\ ~late /\ isConnect => group \in Accepted /\ Waiting
  /\ ~late /\ Waiting /\ group \in Accepted
       => /\ event[group] \in {"publish", "done"} => isConnect
          /\ event[group] = "done" => channel = group /\ ~isConnecting

LEMMA ListenerHolds ==
  TypeOK /\ LinkOrder /\ ListenerAgrees /\ [Next]_vars => ListenerAgrees'
<1> SUFFICES ASSUME TypeOK, LinkOrder, ListenerAgrees, [Next]_vars PROVE ListenerAgrees'
  OBVIOUS
<1> USE ClientAssumption DEF TypeOK, LinkOrder, ListenerAgrees, Accepted, Attempts,
        fields, network
<1>1. ASSUME UNCHANGED <<link, event>> PROVE ListenerAgrees'
  BY <1>1
<1>2. ASSUME NEW t \in Threads, Connect(t) \/ ThreadStep(t) PROVE ListenerAgrees'
  <2>1. CASE Open(t)
    BY <2>1 DEF Open
  <2>2. CASE ~Open(t)
    BY <1>1, <1>2, <2>2 DEF Connect, ThreadStep, Run, Enter, Begin, Finally, Reconnect, Wake
  <2> QED BY <2>1, <2>2
<1>3. ASSUME NEW a \in Attempts, Listener(a) PROVE ListenerAgrees'
  BY <1>3 DEF Listener, OnSuccess, OnPublish, OnFailure, OnClear, Tell
<1>4. ASSUME NEW a \in Attempts, Accept(a) \/ Refuse(a) PROVE ListenerAgrees'
  BY <1>4 DEF Accept, Refuse, Outcome
<1>5. ASSUME NEW a \in Attempts, Close(a) PROVE ListenerAgrees'
  BY <1>5 DEF Close
<1>6. CASE Disconnect \/ DisconnectThrows \/ UNCHANGED vars
  BY <1>1, <1>6 DEF Disconnect, DisconnectThrows, vars
<1> QED BY <1>2, <1>3, <1>4, <1>5, <1>6 DEF Next

LEMMA FlagsHold ==
  IInv /\ ListenerAgrees /\ FlagsFollow /\ [Next]_vars => FlagsFollow'
<1> SUFFICES ASSUME IInv, ListenerAgrees, FlagsFollow, [Next]_vars PROVE FlagsFollow'
  OBVIOUS
<1> USE ClientAssumption DEF IInv, TypeOK, MonitorExcludes, LinkOrder, ListenerAgrees,
        FlagsFollow, Accepted, Waiting, Attempts, Inside, OnTheWay, Goto, Return
<1>1. ASSUME UNCHANGED <<isConnect, isConnecting, group, channel, link, event, late>>,
             Waiting' = Waiting
      PROVE  FlagsFollow'
  BY <1>1
<1>2. ASSUME NEW t \in Threads, Connect(t) PROVE FlagsFollow'
  BY <1>2 DEF Connect, fields, network
<1>3. ASSUME NEW t \in Threads, ThreadStep(t) PROVE FlagsFollow'
  <2>1. CASE Run(t)        BY <2>1 DEF Run, network
  <2>2. CASE Enter(t)      BY <2>2 DEF Enter, fields, network, history
  \* Nobody waits while this thread is in the monitor.
  <2>3. CASE Begin(t)      BY <2>3 DEF Begin, network, history
  \* isConnect is FALSE here, and the listener of the new attempt has not run.
  <2>4. CASE Open(t)       BY <2>4 DEF Open, history
  <2>5. CASE Finally(t)    BY <2>5 DEF Finally, history
  <2>6. CASE Reconnect(t)  BY <2>6 DEF Reconnect, network, history
  <2>7. CASE Wake(t)       BY <2>7 DEF Wake, fields, network
  <2> QED BY <1>3, <2>1, <2>2, <2>3, <2>4, <2>5, <2>6, <2>7 DEF ThreadStep
<1>4. CASE Disconnect
  BY <1>4 DEF Disconnect, threads
<1>5. CASE DisconnectThrows
  BY <1>5 DEF DisconnectThrows, network, history
\* A listener that is not late is the one of the attempt a thread waits for.
<1>6. ASSUME NEW a \in Attempts, Listener(a) PROVE FlagsFollow'
  <2> USE DEF Tell, Overdue, threads
  <2>1. CASE OnSuccess(a)  BY <2>1 DEF OnSuccess
  <2>2. CASE OnPublish(a)  BY <2>2 DEF OnPublish
  <2>3. CASE OnFailure(a)  BY <2>3 DEF OnFailure
  <2>4. CASE OnClear(a)    BY <2>4 DEF OnClear
  <2> QED BY <1>6, <2>1, <2>2, <2>3, <2>4 DEF Listener
<1>7. ASSUME NEW a \in Attempts, Accept(a) \/ Refuse(a) PROVE FlagsFollow'
  BY <1>7 DEF Accept, Refuse, Outcome, fields, threads, history
<1>8. ASSUME NEW a \in Attempts, Close(a) PROVE FlagsFollow'
  BY <1>8 DEF Close, fields, threads, history
<1>9. CASE UNCHANGED vars
  BY <1>1, <1>9 DEF vars, fields, threads, network, history
<1> QED BY <1>2, <1>3, <1>4, <1>5, <1>6, <1>7, <1>8, <1>9 DEF Next

\* Until a listener first writes after its attempt's finally block, an open link
\* whose listener is done is reported and can be sent on, and neither isConnect nor
\* the channel speaks of a link that did not come up.
THEOREM TruthfulFlags == Spec => []FlagsTruthful
<1>1. Init => ListenerAgrees /\ FlagsFollow
  BY ClientAssumption DEF Init, ListenerAgrees, FlagsFollow, Attempts, Waiting
<1>2. IInv /\ ListenerAgrees /\ FlagsFollow /\ [Next]_vars => (ListenerAgrees /\ FlagsFollow)'
  BY ListenerHolds, FlagsHold DEF IInv
<1>3. IInv /\ ListenerAgrees /\ FlagsFollow => FlagsTruthful
  BY DEF IInv, OneLink, Busy, FlagsFollow, FlagsTruthful, Waiting, Accepted
<1> QED BY <1>1, <1>2, <1>3, Invariance, PTL DEF Spec

-----------------------------------------------------------------------------
(* What pays for the dials *)

WillDial == OnTheWay \cup {"sleep"}
Started == {t \in Threads : pc[t] # "unused"}
Fresh == {t \in Threads : pc[t] = "new"}        \* will refill the budget
Due == {t \in Threads : pc[t] \in WillDial}    \* have a dial paid for
Refills == {a \in Attempts : event[a] = "success"}      \* accepted, the refill still to come

\* What is left of the budget; before a thread has run it is nobody's.
Left == IF \E t \in Threads : pc[t] \notin {"unused", "new"} THEN reconnectNum ELSE 0

\* The dials made, those paid for and those the budget and the refills to come can
\* still pay for are covered by the threads started and the connections accepted.
Accounts ==
  group + Cardinality(Due) + Left
    + MaxConnectTimes * (Cardinality(Fresh) + Cardinality(Refills))
  <= Cardinality(Started) + MaxConnectTimes * (Cardinality(Started) + Cardinality(Accepted))

\* Sets that differ at one point differ by one.
LEMMA CountMoves ==
  ASSUME NEW D, IsFiniteSet(D), NEW A \in SUBSET D, NEW B \in SUBSET D, NEW d \in D,
         \A x \in D : x # d => (x \in A <=> x \in B)
  PROVE  /\ Cardinality(A) \in Nat
         /\ Cardinality(B)
              = Cardinality(A) + (IF d \in B THEN 1 ELSE 0) - (IF d \in A THEN 1 ELSE 0)
<1>1. IsFiniteSet(A) /\ Cardinality(A) \in Nat
  BY FS_Subset, FS_CardinalityType
<1>2. CASE d \in A <=> d \in B
  <2>1. A = B
    BY <1>2
  <2> QED
    BY <1>1, <1>2, <2>1
<1>3. CASE d \in B /\ d \notin A
  <2>1. B = A \cup {d}
    BY <1>3
  <2>2. Cardinality(A \cup {d}) = Cardinality(A) + 1
    BY <1>1, <1>3, FS_AddElement
  <2> QED
    BY <1>1, <1>3, <2>1, <2>2
<1>4. CASE d \notin B /\ d \in A
  <2>1. B = A \ {d}
    BY <1>4
  <2>2. Cardinality(A \ {d}) = Cardinality(A) - 1
    BY <1>1, <1>4, FS_RemoveElement
  <2> QED
    BY <1>1, <1>4, <2>1, <2>2
<1> QED
  BY <1>2, <1>3, <1>4

\* The places of a thread that has been started.
Begun == {"done", "dead"} \cup OnTheWay \cup Inside

\* The counts are numbers.
LEMMA Counts ==
  ASSUME TypeOK
  PROVE  /\ Cardinality(Due) \in Nat /\ Cardinality(Fresh) \in Nat /\ Cardinality(Started) \in Nat
         /\ Cardinality(Refills) \in Nat /\ Cardinality(Accepted) \in Nat
         /\ Left \in 0..MaxConnectTimes
         /\ IsFiniteSet(Attempts)
<1>1. IsFiniteSet(Attempts)
  BY FS_Interval, ClientAssumption DEF Attempts
<1>2. /\ Due \subseteq Threads /\ Fresh \subseteq Threads /\ Started \subseteq Threads
      /\ Refills \subseteq Attempts /\ Accepted \subseteq Attempts
  BY DEF Due, Fresh, Started, Refills, Accepted
<1>3. /\ IsFiniteSet(Due) /\ IsFiniteSet(Fresh) /\ IsFiniteSet(Started)
      /\ IsFiniteSet(Refills) /\ IsFiniteSet(Accepted)
  BY <1>1, <1>2, FinitelyManyCalls, FS_Subset
<1>4. Left \in 0..MaxConnectTimes
  BY ClientAssumption DEF Left, TypeOK
<1> QED
  BY <1>1, <1>3, <1>4, FS_CardinalityType

\* How a thread that goes from one place to another changes the counts of threads.
LEMMA ThreadMoves ==
  ASSUME TypeOK, NEW t \in Threads, NEW w \in Begun, pc' = [pc EXCEPT ![t] = w]
  PROVE  /\ w \in WillDial /\ pc[t] \notin WillDial => Cardinality(Due)' = Cardinality(Due) + 1
         /\ w \in WillDial /\ pc[t] \in WillDial => Cardinality(Due)' = Cardinality(Due)
         /\ w \notin WillDial /\ pc[t] \in WillDial => Cardinality(Due)' = Cardinality(Due) - 1
         /\ w \notin WillDial /\ pc[t] \notin WillDial => Cardinality(Due)' = Cardinality(Due)
         /\ w = "new" /\ pc[t] # "new" => Cardinality(Fresh)' = Cardinality(Fresh) + 1
         /\ w # "new" /\ pc[t] = "new" => Cardinality(Fresh)' = Cardinality(Fresh) - 1
         /\ w # "new" /\ pc[t] # "new" => Cardinality(Fresh)' = Cardinality(Fresh)
         /\ pc[t] = "unused" => Cardinality(Started)' = Cardinality(Started) + 1
         /\ pc[t] # "unused" => Cardinality(Started)' = Cardinality(Started)
<1>1. /\ pc'[t] = w /\ w # "unused"
      /\ \A x \in Threads : x # t => pc'[x] = pc[x]
  BY DEF TypeOK, Begun, OnTheWay, Inside
<1>2. /\ Due \in SUBSET Threads /\ Due' \in SUBSET Threads
      /\ \A x \in Threads : x # t => (x \in Due <=> x \in Due')
      /\ t \in Due <=> pc[t] \in WillDial
      /\ t \in Due' <=> w \in WillDial
  BY <1>1 DEF Due
<1>3. /\ Fresh \in SUBSET Threads /\ Fresh' \in SUBSET Threads
      /\ \A x \in Threads : x # t => (x \in Fresh <=> x \in Fresh')
      /\ t \in Fresh <=> pc[t] = "new"
      /\ t \in Fresh' <=> w = "new"
  BY <1>1 DEF Fresh
<1>4. /\ Started \in SUBSET Threads /\ Started' \in SUBSET Threads
      /\ \A x \in Threads : x # t => (x \in Started <=> x \in Started')
      /\ t \in Started <=> pc[t] # "unused"
      /\ t \in Started'
  BY <1>1 DEF Started
<1>5. /\ Cardinality(Due)' = Cardinality(Due)
           + (IF t \in Due' THEN 1 ELSE 0) - (IF t \in Due THEN 1 ELSE 0)
      /\ Cardinality(Fresh)' = Cardinality(Fresh)
           + (IF t \in Fresh' THEN 1 ELSE 0) - (IF t \in Fresh THEN 1 ELSE 0)
      /\ Cardinality(Started)' = Cardinality(Started)
           + (IF t \in Started' THEN 1 ELSE 0) - (IF t \in Started THEN 1 ELSE 0)
  BY ONLY <1>2, <1>3, <1>4, FinitelyManyCalls, CountMoves, t \in Threads
<1> QED
  BY <1>2, <1>3, <1>4, <1>5, Counts

\* The balance is kept if what a step adds on the left is not more than what it
\* adds on the right; x counts the refills to come, y those that were paid for.
LEMMA Balance ==
  ASSUME NEW M \in Nat, NEW n \in Int, NEW x \in Int, NEW s \in Int, NEW y \in Int,
         n + M * x <= s + M * (s + y),
         NEW dn \in Int, NEW dx \in {-1, 0, 1}, NEW ds \in {0, 1}, NEW dy \in {0, 1},
         \/ dx = 0 /\ ds = 0 /\ dy = 0 /\ dn <= 0
         \/ dx = -1 /\ ds = 0 /\ dy = 0 /\ dn <= M
         \/ dx = 1 /\ ds = 1 /\ dy = 0 /\ dn <= 1
         \/ dx = 1 /\ ds = 0 /\ dy = 1 /\ dn <= 0
  PROVE  (n + dn) + M * (x + dx) <= (s + ds) + M * ((s + ds) + (y + dy))
<1>1. \A k \in Int : M * k \in Int /\ M * (k + 1) = M * k + M /\ M * (k + (-1)) = M * k - M
  OBVIOUS
<1>2. CASE dx = 0 /\ ds = 0 /\ dy = 0 /\ dn <= 0
  BY <1>1, <1>2
<1>3. CASE dx = -1 /\ ds = 0 /\ dy = 0 /\ dn <= M
  <2>1. M * (x + dx) = M * x - M /\ M * (s + y) \in Int /\ M * x \in Int
    BY <1>1, <1>3
  <2>2. (s + ds) + (y + dy) = s + y
    BY <1>3
  <2> QED
    BY <1>3, <2>1, <2>2
<1>4. CASE dx = 1 /\ ds = 1 /\ dy = 0 /\ dn <= 1
  <2>1. (s + ds) + (y + dy) = (s + y) + 1 /\ s + y \in Int
    BY <1>4
  <2>2. M * ((s + y) + 1) = M * (s + y) + M /\ M * (x + dx) = M * x + M
    BY <1>1, <1>4, <2>1
  <2>3. M * (s + y) \in Int /\ M * x \in Int
    BY <1>1, <2>1
  <2> QED
    BY <1>4, <2>1, <2>2, <2>3
<1>5. CASE dx = 1 /\ ds = 0 /\ dy = 1 /\ dn <= 0
  <2>1. (s + ds) + (y + dy) = (s + y) + 1 /\ s + y \in Int
    BY <1>5
  <2>2. M * ((s + y) + 1) = M * (s + y) + M /\ M * (x + dx) = M * x + M
    BY <1>1, <1>5, <2>1
  <2>3. M * (s + y) \in Int /\ M * x \in Int
    BY <1>1, <2>1
  <2> QED
    BY <1>5, <2>1, <2>2, <2>3
<1> QED
  BY <1>2, <1>3, <1>4, <1>5

\* The same for the counts of a step.
LEMMA AccountsBy ==
  ASSUME TypeOK, Accounts,
         NEW dn \in Int, NEW dx \in {-1, 0, 1}, NEW ds \in {0, 1}, NEW dy \in {0, 1},
         (group + Cardinality(Due) + Left)' = (group + Cardinality(Due) + Left) + dn,
         (Cardinality(Fresh) + Cardinality(Refills))'
           = (Cardinality(Fresh) + Cardinality(Refills)) + dx,
         Cardinality(Started)' = Cardinality(Started) + ds,
         Cardinality(Accepted)' = Cardinality(Accepted) + dy,
         \/ dx = 0 /\ ds = 0 /\ dy = 0 /\ dn <= 0
         \/ dx = -1 /\ ds = 0 /\ dy = 0 /\ dn <= MaxConnectTimes
         \/ dx = 1 /\ ds = 1 /\ dy = 0 /\ dn <= 1
         \/ dx = 1 /\ ds = 0 /\ dy = 1 /\ dn <= 0
  PROVE  Accounts'
<1> DEFINE n == group + Cardinality(Due) + Left
           x == Cardinality(Fresh) + Cardinality(Refills)
<1>1. /\ n \in Int /\ x \in Int
      /\ Cardinality(Started) \in Int /\ Cardinality(Accepted) \in Int
      /\ MaxConnectTimes \in Nat
  BY Counts, ClientAssumption DEF TypeOK
<1>2. n + MaxConnectTimes * x
        <= Cardinality(Started) + MaxConnectTimes * (Cardinality(Started) + Cardinality(Accepted))
  BY DEF Accounts
<1>3. n' = n + dn /\ x' = x + dx
  OBVIOUS
<1> HIDE DEF n, x
<1>4. (n + dn) + MaxConnectTimes * (x + dx)
        <= (Cardinality(Started) + ds)
             + MaxConnectTimes * ((Cardinality(Started) + ds) + (Cardinality(Accepted) + dy))
  BY <1>1, <1>2, Balance
<1>5. n' + MaxConnectTimes * x'
        <= Cardinality(Started)'
             + MaxConnectTimes * (Cardinality(Started)' + Cardinality(Accepted)')
  BY <1>3, <1>4
<1> QED
  BY <1>5 DEF n, x, Accounts

\* A thread that has run keeps the budget in the account.
LEMMA LeftIs ==
  ASSUME TypeOK, NEW t \in Threads, pc[t] \notin {"unused", "new"}
  PROVE  Left = reconnectNum
BY DEF Left

\* Every step keeps the account.
LEMMA AccountsHold ==
  IInv /\ ListenerAgrees /\ Accounts /\ [Next]_vars => Accounts'
<1> SUFFICES ASSUME IInv, ListenerAgrees, Accounts, [Next]_vars PROVE Accounts'
  OBVIOUS
<1>1. TypeOK /\ TypeOK'
  BY TypeHolds DEF IInv
<1>2. /\ Cardinality(Due) \in Nat /\ Cardinality(Fresh) \in Nat /\ Cardinality(Started) \in Nat
      /\ Cardinality(Refills) \in Nat /\ Cardinality(Accepted) \in Nat
      /\ Left \in 0..MaxConnectTimes /\ Left' \in 0..MaxConnectTimes
      /\ MaxConnectTimes \in Nat /\ group \in Nat
  <2>1. Left' \in 0..MaxConnectTimes
    BY <1>1, ClientAssumption DEF Left, TypeOK
  <2> QED
    BY <1>1, <2>1, Counts, ClientAssumption DEF TypeOK
<1>3. ASSUME UNCHANGED pc
      PROVE  Due' = Due /\ Fresh' = Fresh /\ Started' = Started
  BY <1>3 DEF Due, Fresh, Started
<1>4. ASSUME UNCHANGED event PROVE Refills' = Refills
  BY <1>4 DEF Refills
<1>5. ASSUME UNCHANGED link PROVE Accepted' = Accepted
  BY <1>5 DEF Accepted
<1>6. ASSUME UNCHANGED <<pc, reconnectNum>> PROVE Left' = Left
  BY <1>6 DEF Left
<1>7. ASSUME UNCHANGED <<pc, event, link, reconnectNum, group>> PROVE Accounts'
  BY <1>3, <1>4, <1>5, <1>6, <1>7 DEF Accounts
<1>8. ASSUME NEW t \in Threads, Connect(t) PROVE Accounts'
  <2>1. pc[t] = "unused" /\ pc' = [pc EXCEPT ![t] = "new"]
    BY <1>8 DEF Connect, Goto
  <2>2. UNCHANGED <<group, event, link, reconnectNum>>
    BY <1>8 DEF Connect, fields, network
  <2>3. /\ Cardinality(Due)' = Cardinality(Due) + 1
        /\ Cardinality(Fresh)' = Cardinality(Fresh) + 1
        /\ Cardinality(Started)' = Cardinality(Started) + 1
    <3>1. "new" \in Begun
      BY DEF Begun, OnTheWay
    <3> QED
      BY <1>1, <1>2, <2>1, <3>1, ThreadMoves DEF WillDial, OnTheWay
  <2>4. Left' = Left
    BY <1>1, <2>1, <2>2 DEF Left, TypeOK
  <2>5. Refills' = Refills /\ Accepted' = Accepted
    BY <1>4, <1>5, <2>2
  <2> QED
    BY <1>1, <1>2, <2>2, <2>3, <2>4, <2>5, AccountsBy
<1>9. ASSUME NEW t \in Threads, ThreadStep(t) PROVE Accounts'
  <2>1. CASE Run(t)
    <3>1. pc[t] = "new" /\ pc' = [pc EXCEPT ![t] = "enter"]
      BY <2>1 DEF Run, Goto
    <3>2. UNCHANGED <<group, event, link>>
      BY <2>1 DEF Run, network
    <3>3. "enter" \in Begun
      BY DEF Begun, OnTheWay
    <3>4. /\ Cardinality(Due)' = Cardinality(Due)
          /\ Cardinality(Fresh)' = Cardinality(Fresh) - 1
          /\ Cardinality(Started)' = Cardinality(Started)
      BY <1>1, <1>2, <3>1, <3>3, ThreadMoves DEF WillDial, OnTheWay
    <3>5. Refills' = Refills /\ Accepted' = Accepted
      BY <1>4, <1>5, <3>2
    <3>6. (Left' - Left) \in Int /\ Left' - Left <= MaxConnectTimes
      <4>1. \A m \in Nat : \A a, b \in 0..m : (a - b) \in Int /\ a - b <= m
        OBVIOUS
      <4> QED
        BY <1>2, <4>1
    <3>7. /\ (group + Cardinality(Due) + Left)' = (group + Cardinality(Due) + Left) + (Left' - Left)
          /\ (Cardinality(Fresh) + Cardinality(Refills))'
               = (Cardinality(Fresh) + Cardinality(Refills)) + (-1)
          /\ Cardinality(Started)' = Cardinality(Started) + 0
          /\ Cardinality(Accepted)' = Cardinality(Accepted) + 0
      BY <1>2, <3>2, <3>4, <3>5
    <3> QED
      BY <1>1, <3>6, <3>7, AccountsBy
  <2>2. ASSUME NEW w \in Begun \ {"new"}, pc' = [pc EXCEPT ![t] = w],
               pc[t] \notin {"unused", "new"}, UNCHANGED <<event, link>>,
               (group + Cardinality(Due) + reconnectNum)' <= group + Cardinality(Due) + reconnectNum
        PROVE  Accounts'
    <3>1. Cardinality(Fresh)' = Cardinality(Fresh) /\ Cardinality(Started)' = Cardinality(Started)
      BY <1>1, <1>2, <2>2, ThreadMoves
    <3>2. Refills' = Refills /\ Accepted' = Accepted
      BY <1>4, <1>5, <2>2
    <3>3. Left = reconnectNum
      BY <1>1, <2>2, LeftIs
    <3>4. pc'[t] \notin {"unused", "new"}
      BY <1>1, <2>2 DEF TypeOK, Begun, OnTheWay, Inside
    <3>5. Left' = reconnectNum'
      BY <3>4 DEF Left
    <3> DEFINE n == group + Cardinality(Due) + Left
    <3>6. n \in Int /\ n' \in Int /\ n' - n <= 0
      <4>1. Cardinality(Due)' \in Int
        <5>1. \/ Cardinality(Due)' = Cardinality(Due) \/ Cardinality(Due)' = Cardinality(Due) + 1
              \/ Cardinality(Due)' = Cardinality(Due) - 1
          BY <1>1, <2>2, ThreadMoves
        <5> QED
          BY <1>2, <5>1
      <4>2. group' \in Nat /\ reconnectNum' \in Nat
        BY <1>1, ClientAssumption DEF TypeOK
      <4> QED
        BY <1>2, <2>2, <3>3, <3>5, <4>1, <4>2
    <3>7. n' = n + (n' - n) /\ (n' - n) \in Int
      BY <3>6
    <3>8. /\ (Cardinality(Fresh) + Cardinality(Refills))'
               = (Cardinality(Fresh) + Cardinality(Refills)) + 0
          /\ Cardinality(Started)' = Cardinality(Started) + 0
          /\ Cardinality(Accepted)' = Cardinality(Accepted) + 0
      BY <1>2, <3>1, <3>2
    <3> QED
      BY <1>1, <3>6, <3>7, <3>8, AccountsBy
  <2>3. /\ \A w \in Begun : pc' = [pc EXCEPT ![t] = w] =>
              /\ w \in WillDial /\ pc[t] \notin WillDial => Cardinality(Due)' = Cardinality(Due) + 1
              /\ w \in WillDial /\ pc[t] \in WillDial => Cardinality(Due)' = Cardinality(Due)
              /\ w \notin WillDial /\ pc[t] \in WillDial => Cardinality(Due)' = Cardinality(Due) - 1
              /\ w \notin WillDial /\ pc[t] \notin WillDial => Cardinality(Due)' = Cardinality(Due)
        /\ {"enter", "begin", "open", "sync", "reconnect", "sleep", "done"} \subseteq Begun \ {"new"}
        /\ reconnectNum \in Nat
    BY <1>1, ThreadMoves, ClientAssumption DEF Begun, OnTheWay, Inside, TypeOK
  <2> USE DEF WillDial, OnTheWay, Goto, Return, network
  <2>4. CASE Enter(t)
    BY <1>2, <2>2, <2>3, <2>4 DEF Enter, fields
  <2>5. CASE Begin(t)
    <3>1. /\ pc[t] = "begin" /\ pc' = [pc EXCEPT ![t] = "open"]
          /\ UNCHANGED <<event, link, group, reconnectNum>>
      BY <2>5 DEF Begin
    <3>2. Cardinality(Due)' = Cardinality(Due)
      BY <2>3, <3>1
    <3>3. (group + Cardinality(Due) + reconnectNum)' <= group + Cardinality(Due) + reconnectNum
      BY <1>2, <2>3, <3>1, <3>2
    <3> QED
      BY <2>2, <2>3, <3>1, <3>3
  \* The dial made was paid for; the new channel is not accepted yet.
  <2>6. CASE Open(t)
    <3>1. /\ pc[t] = "open" /\ pc' = [pc EXCEPT ![t] = "sync"] /\ group' = group + 1
          /\ UNCHANGED <<event, reconnectNum>>
      BY <2>6 DEF Open
    <3>2. /\ Cardinality(Due)' = Cardinality(Due) - 1
          /\ Cardinality(Fresh)' = Cardinality(Fresh) /\ Cardinality(Started)' = Cardinality(Started)
      BY <1>1, <2>3, <3>1, ThreadMoves
    <3>3. Left = reconnectNum
      BY <1>1, <3>1, LeftIs
    <3>4. pc'[t] = "sync"
      BY <1>1, <3>1 DEF TypeOK
    <3>5. Left' = reconnectNum'
      BY <3>4 DEF Left
    <3>6. Refills' = Refills
      BY <1>4, <3>1
    <3>7. Accepted' = Accepted
      <4>1. /\ group + 1 \in Attempts => link[group + 1] = "none"
            /\ link' = [link EXCEPT ![group + 1] = "connecting"]
        BY <2>6, ClientAssumption DEF Open, IInv, TypeOK, LinkOrder, Attempts
      <4> QED
        BY <1>1, <4>1 DEF Accepted, TypeOK
    <3>8. /\ (group + Cardinality(Due) + Left)' = (group + Cardinality(Due) + Left) + 0
          /\ (Cardinality(Fresh) + Cardinality(Refills))'
               = (Cardinality(Fresh) + Cardinality(Refills)) + 0
          /\ Cardinality(Started)' = Cardinality(Started) + 0
          /\ Cardinality(Accepted)' = Cardinality(Accepted) + 0
      BY <1>2, <3>1, <3>2, <3>3, <3>5, <3>6, <3>7
    <3> QED
      BY <1>1, <3>8, AccountsBy
  <2>7. CASE Finally(t)
    <3>1. /\ pc[t] = "sync" /\ pc' = [pc EXCEPT ![t] = "reconnect"]
          /\ UNCHANGED <<event, link, group, reconnectNum>>
      BY <2>7 DEF Finally
    <3>2. Cardinality(Due)' = Cardinality(Due)
      BY <2>3, <3>1
    <3>3. (group + Cardinality(Due) + reconnectNum)' <= group + Cardinality(Due) + reconnectNum
      BY <1>2, <2>3, <3>1, <3>2
    <3> QED
      BY <2>2, <2>3, <3>1, <3>3
  <2>8. CASE Reconnect(t)
    BY <1>2, <2>2, <2>3, <2>8 DEF Reconnect, MayReconnect
  <2>9. CASE Wake(t)
    BY <1>2, <2>2, <2>3, <2>9 DEF Wake, fields
  <2> QED
    BY <1>9, <2>1, <2>4, <2>5, <2>6, <2>7, <2>8, <2>9 DEF ThreadStep
\* The process ends before a group was made: nothing was dialled or accepted.
<1>10. CASE DisconnectThrows
  <2>1. /\ group' = 0 /\ pc' = [t \in Threads |-> "dead"]
        /\ UNCHANGED <<event, link, reconnectNum>>
    BY <1>10 DEF DisconnectThrows, network
  <2>2. Due' = {} /\ Fresh' = {} /\ Started' = Threads
    BY <2>1 DEF Due, Fresh, Started, WillDial, OnTheWay
  <2>3. Refills' = {}
    <3>1. \A a \in Attempts : event[a] # "success"
      BY <1>10, ClientAssumption
         DEF DisconnectThrows, IInv, TypeOK, LinkOrder, ListenerAgrees, Accepted, Attempts
    <3> QED
      BY <2>1, <3>1 DEF Refills
  <2>4. Cardinality({}) = 0
    BY FS_EmptySet
  <2>5. Cardinality(Threads) \in Nat /\ Cardinality(Threads) # 0
    BY <1>10, FinitelyManyCalls, FS_EmptySet, FS_CardinalityType DEF DisconnectThrows
  <2>6. Accepted' = Accepted
    BY <1>5, <2>1
  <2> DEFINE n == Cardinality(Threads)
             a == Cardinality(Accepted)
  <2>7. n \in Nat /\ n # 0 /\ a \in Nat /\ Left' <= MaxConnectTimes /\ Left' \in Nat
    BY <1>2, <2>5
  <2> HIDE DEF n, a
  <2>8. MaxConnectTimes <= MaxConnectTimes * (n + a) /\ MaxConnectTimes * (n + a) \in Int
    <3>1. \A m, k \in Nat : k # 0 => m <= m * k /\ m * k \in Int
      OBVIOUS
    <3>2. n + a \in Nat /\ n + a # 0
      BY <2>7
    <3> QED
      BY <1>2, <3>1, <3>2
  <2>9. 0 + 0 + Left' + MaxConnectTimes * (0 + 0) <= n + MaxConnectTimes * (n + a)
    <3> DEFINE z == MaxConnectTimes * (0 + 0)
               p == MaxConnectTimes * (n + a)
    <3>1. z = 0 /\ p \in Int /\ MaxConnectTimes <= p
      BY <1>2, <2>8
    <3> HIDE DEF z, p
    <3>2. 0 + 0 + Left' + z <= n + p
      <4>1. \A m, l, k \in Nat : \A i \in Int : l <= m /\ m <= i => 0 + 0 + l + 0 <= k + i
        OBVIOUS
      <4>2. Left' \in Nat /\ Left' <= MaxConnectTimes /\ n \in Nat /\ MaxConnectTimes \in Nat
        BY <1>2, <2>7
      <4>3. 0 + 0 + Left' + 0 <= n + p
        BY ONLY <3>1, <4>1, <4>2
      <4> QED
        BY ONLY <3>1, <4>3
    <3> QED
      BY <3>2 DEF z, p
  <2> QED
    BY <2>1, <2>2, <2>3, <2>4, <2>6, <2>9 DEF Accounts, n, a
\* A success refills the budget, and is no longer to come.
<1>11. ASSUME NEW a \in Attempts, Listener(a) PROVE Accounts'
  <2>1. UNCHANGED <<pc, link, group>>
    BY <1>11 DEF Listener, OnSuccess, OnPublish, OnFailure, OnClear, threads
  <2>2. /\ event' \in [Attempts -> {"none", "success", "publish", "failure", "clear", "done"}]
        /\ \A b \in Attempts : b # a => event'[b] = event[b]
        /\ event'[a] # "success"
    BY <1>1, <1>11 DEF Listener, OnSuccess, OnPublish, OnFailure, OnClear, Tell, TypeOK
  <2>3. /\ Refills \in SUBSET Attempts /\ Refills' \in SUBSET Attempts
        /\ \A b \in Attempts : b # a => (b \in Refills <=> b \in Refills')
        /\ a \notin Refills' /\ (a \in Refills <=> event[a] = "success")
    BY <2>2 DEF Refills
  <2>4. Cardinality(Refills)' = Cardinality(Refills) + (IF a \in Refills' THEN 1 ELSE 0)
                                  - (IF a \in Refills THEN 1 ELSE 0)
    BY <1>1, <2>3, Counts, CountMoves
  <2>5. Due' = Due /\ Fresh' = Fresh /\ Started' = Started /\ Accepted' = Accepted
    BY <1>3, <1>5, <2>1
  <2>6. CASE event[a] = "success"
    <3>1. Cardinality(Refills)' = Cardinality(Refills) - 1
      BY <1>2, <2>3, <2>4, <2>6
    <3>2. (Left' - Left) \in Int /\ Left' - Left <= MaxConnectTimes
      <4>1. \A m \in Nat : \A i, j \in 0..m : (i - j) \in Int /\ i - j <= m
        OBVIOUS
      <4> QED
        BY <1>2, <4>1
    <3>3. /\ (group + Cardinality(Due) + Left)' = (group + Cardinality(Due) + Left) + (Left' - Left)
          /\ (Cardinality(Fresh) + Cardinality(Refills))'
               = (Cardinality(Fresh) + Cardinality(Refills)) + (-1)
          /\ Cardinality(Started)' = Cardinality(Started) + 0
          /\ Cardinality(Accepted)' = Cardinality(Accepted) + 0
      BY <1>2, <2>1, <2>5, <3>1
    <3> QED
      BY <1>1, <3>2, <3>3, AccountsBy
  <2>7. CASE event[a] # "success"
    <3>1. reconnectNum' = reconnectNum
      BY <1>11, <2>7 DEF Listener, OnSuccess, OnPublish, OnFailure, OnClear
    <3>2. Refills' = Refills
      BY <2>3, <2>7
    <3> QED
      BY <1>6, <2>1, <2>5, <3>1, <3>2 DEF Accounts
  <2> QED
    BY <2>6, <2>7
\* An accepted connection pays for the refill its listener will make.
<1>12. ASSUME NEW a \in Attempts, Accept(a) PROVE Accounts'
  <2>1. UNCHANGED <<pc, group, reconnectNum>>
    BY <1>12 DEF Accept, Outcome, threads, fields
  <2>2. /\ link[a] = "connecting" /\ link' = [link EXCEPT ![a] = "open"]
        /\ event' = [event EXCEPT ![a] = "success"] /\ event[a] = "none"
    BY <1>12 DEF Accept, Outcome, ListenerAgrees
  <2>3. /\ Refills \in SUBSET Attempts /\ Refills' \in SUBSET Attempts
        /\ \A b \in Attempts : b # a => (b \in Refills <=> b \in Refills')
        /\ a \in Refills' /\ a \notin Refills
    BY <1>1, <2>2 DEF Refills, TypeOK
  <2>4. /\ Accepted \in SUBSET Attempts /\ Accepted' \in SUBSET Attempts
        /\ \A b \in Attempts : b # a => (b \in Accepted <=> b \in Accepted')
        /\ a \in Accepted' /\ a \notin Accepted
    BY <1>1, <2>2 DEF Accepted, TypeOK
  <2>5. Cardinality(Refills)' = Cardinality(Refills) + 1
    BY <1>1, <2>3, Counts, CountMoves
  <2>6. Cardinality(Accepted)' = Cardinality(Accepted) + 1
    BY <1>1, <2>4, Counts, CountMoves
  <2>7. Due' = Due /\ Fresh' = Fresh /\ Started' = Started /\ Left' = Left
    BY <1>3, <1>6, <2>1
  <2>8. /\ (group + Cardinality(Due) + Left)' = (group + Cardinality(Due) + Left) + 0
        /\ (Cardinality(Fresh) + Cardinality(Refills))'
             = (Cardinality(Fresh) + Cardinality(Refills)) + 1
        /\ Cardinality(Started)' = Cardinality(Started) + 0
    BY <1>2, <2>1, <2>5, <2>7
  <2> QED
    BY <1>1, <2>6, <2>8, AccountsBy
<1>13. ASSUME NEW a \in Attempts, Refuse(a) \/ Close(a) PROVE Accounts'
  <2>1. UNCHANGED <<pc, group, reconnectNum>>
    BY <1>13 DEF Refuse, Outcome, Close, threads, fields
  <2>2. Refills' = Refills
    BY <1>1, <1>13 DEF Refuse, Outcome, Close, Refills, ListenerAgrees, TypeOK
  <2>3. Accepted' = Accepted
    BY <1>1, <1>13 DEF Refuse, Outcome, Close, Accepted, TypeOK
  <2> QED
    BY <1>3, <1>6, <2>1, <2>2, <2>3 DEF Accounts
<1>14. CASE Disconnect \/ UNCHANGED vars
  BY <1>7, <1>14 DEF Disconnect, vars, fields, threads, network
<1> QED
  BY <1>8, <1>9, <1>10, <1>11, <1>12, <1>13, <1>14 DEF Next

\* However many threads race and whatever refills the budget: each connect() and
\* each accepted connection pays for MaxConnectTimes dials at most, and one more
\* for the first of a thread.
THEOREM PaidFor == Spec => []DialsArePaidFor
<1>1. Init => ListenerAgrees /\ Accounts
  <2> SUFFICES ASSUME Init PROVE ListenerAgrees /\ Accounts
    OBVIOUS
  <2>1. ListenerAgrees
    BY ClientAssumption DEF Init, ListenerAgrees, Attempts
  <2>2. /\ Due = {} /\ Fresh = {} /\ Started = {} /\ Refills = {} /\ Accepted = {}
        /\ Left = 0 /\ group = 0
    BY DEF Init, Due, WillDial, OnTheWay, Fresh, Started, Refills, Accepted, Left
  <2>3. 0 + 0 + 0 + MaxConnectTimes * (0 + 0) <= 0 + MaxConnectTimes * (0 + 0)
    BY ClientAssumption
  <2>4. Accounts
    BY <2>2, <2>3, FS_EmptySet DEF Accounts
  <2> QED
    BY <2>1, <2>4
<1>2. IInv /\ ListenerAgrees /\ Accounts /\ [Next]_vars => (ListenerAgrees /\ Accounts)'
  BY ListenerHolds, AccountsHold DEF IInv
<1>3. IInv /\ Accounts => DialsArePaidFor
  <2> SUFFICES ASSUME IInv, Accounts PROVE DialsArePaidFor
    OBVIOUS
  <2>1. /\ Cardinality(Due) \in Nat /\ Cardinality(Fresh) \in Nat /\ Cardinality(Started) \in Nat
        /\ Cardinality(Refills) \in Nat /\ Cardinality(Accepted) \in Nat
        /\ Left \in Nat /\ MaxConnectTimes \in Nat /\ group \in Nat
    BY Counts, ClientAssumption DEF IInv, TypeOK
  <2>2. MaxConnectTimes * (Cardinality(Fresh) + Cardinality(Refills)) \in Nat
    <3>1. \A m, k \in Nat : m * k \in Nat
      OBVIOUS
    <3>2. Cardinality(Fresh) + Cardinality(Refills) \in Nat
      BY <2>1
    <3> QED
      BY <2>1, <3>1, <3>2
  <2> DEFINE p == MaxConnectTimes * (Cardinality(Fresh) + Cardinality(Refills))
             q == MaxConnectTimes * (Cardinality(Started) + Cardinality(Accepted))
  <2>3. q \in Int
    BY <2>1
  <2>4. group + Cardinality(Due) + Left + p <= Cardinality(Started) + q
    BY DEF Accounts
  <2>5. p \in Nat
    BY <2>2
  <2> HIDE DEF p, q
  <2>6. group <= Cardinality(Started) + q
    BY <2>1, <2>3, <2>4, <2>5
  <2> QED
    BY <2>6 DEF q, DialsArePaidFor, Started
<1> QED
  BY <1>1, <1>2, <1>3, Invariance, PTL DEF Spec

-----------------------------------------------------------------------------
(* After a final disconnect *)

\* The monitor is left by its owner and by nobody else, unless the process has
\* ended; what ends it finds that no group was ever made.  A final disconnect()
\* has shut the newest group, and no other follows.
WindInv ==
  /\ (\E t \in Threads : pc[t] = "dead") => group = 0 /\ \A t \in Threads : pc[t] = "dead"
  /\ monitor # NoThread => pc[monitor] \in Inside \cup {"enter", "dead"}
  /\ stopped => group # 0 /\ shut[group]

\* What is left of the client after a disconnect() that met no thread on its way
\* to a dial: a link that is still open is on a group that was shut, which closes
\* it, and whoever holds the monitor waits for that, or is past it.
WindsDown ==
  stopped => /\ \A a \in Attempts : link[a] = "open" => shut[a]
             /\ monitor # NoThread => pc[monitor] \in {"sync", "reconnect", "sleep"}

\* From then on a thread only goes the short way out: it tests isNeedReconnect once
\* more, or wakes to test it, and returns (NettyTcpClient.java:225-236).
WayOut ==
  stopped /\ stopped' =>
    \A t \in Threads : \/ (pc[t])' = pc[t]
                       \/ pc[t] = "sync" /\ (pc[t])' = "reconnect"
                       \/ pc[t] \in {"reconnect", "sleep"} /\ (pc[t])' = "done"

LEMMA WindHolds == IInv /\ WindInv /\ [Next]_vars => WindInv'
<1> SUFFICES ASSUME IInv, WindInv, [Next]_vars PROVE WindInv'
  OBVIOUS
<1> USE ClientAssumption DEF IInv, TypeOK, WindInv, StoppedQuiet, Attempts, OnTheWay, Inside,
        Goto, Return, fields, threads, network, history
<1>1. ASSUME NEW t \in Threads, Connect(t) PROVE WindInv'
  BY <1>1 DEF Connect
<1>2. ASSUME NEW t \in Threads, ThreadStep(t) PROVE WindInv'
  <2>1. CASE Run(t)        BY <2>1 DEF Run
  <2>2. CASE Enter(t)      BY <2>2 DEF Enter
  <2>3. CASE Begin(t)      BY <2>3 DEF Begin, MonitorExcludes
  <2>4. CASE Open(t)       BY <2>4 DEF Open, MonitorExcludes
  <2>5. CASE Finally(t)    BY <2>5 DEF Finally, MonitorExcludes
  <2>6. CASE Reconnect(t)  BY <2>6 DEF Reconnect, MonitorExcludes
  <2>7. CASE Wake(t)       BY <2>7 DEF Wake, MonitorExcludes
  <2> QED BY <1>2, <2>1, <2>2, <2>3, <2>4, <2>5, <2>6, <2>7 DEF ThreadStep
<1>3. CASE Disconnect
  BY <1>3 DEF Disconnect
<1>4. CASE DisconnectThrows
  BY <1>4 DEF DisconnectThrows
<1>5. ASSUME NEW a \in Attempts, Listener(a) \/ Accept(a) \/ Refuse(a) \/ Close(a)
      PROVE  WindInv'
  <2>1. UNCHANGED <<group, pc, monitor, shut, stopped>>
    BY <1>5 DEF Listener, OnSuccess, OnPublish, OnFailure, OnClear, Accept, Refuse,
                Outcome, Close
  <2> QED BY <2>1
<1>6. CASE UNCHANGED vars
  BY <1>6 DEF vars
<1> QED BY <1>1, <1>2, <1>3, <1>4, <1>5, <1>6 DEF Next

\* A final disconnect() leaves the client on its way out: the open link's group is
\* shut, and the thread that waits for it is two steps from leaving the monitor.
THEOREM DisconnectWindsDown == Spec => []WindsDown /\ [][WayOut]_vars
<1>1. Init => WindInv
  BY DEF Init, WindInv
<1>2. IInv /\ WindInv => WindsDown
  <2> SUFFICES ASSUME IInv, WindInv, stopped PROVE
        /\ \A a \in Attempts : link[a] = "open" => shut[a]
        /\ monitor # NoThread => pc[monitor] \in {"sync", "reconnect", "sleep"}
    BY DEF WindsDown
  <2>1. \A a \in Attempts : link[a] = "open" => shut[a]
    BY DEF IInv, OneLink, Busy, WindInv
  <2>2. monitor # NoThread => pc[monitor] \in {"sync", "reconnect", "sleep"}
    BY DEF IInv, TypeOK, StoppedQuiet, WindInv, Inside, OnTheWay
  <2> QED BY <2>1, <2>2
<1>3. IInv /\ WindInv /\ [Next]_vars => [WayOut]_vars
  <2> SUFFICES ASSUME IInv, WindInv, Next, stopped, stopped', NEW t \in Threads
               PROVE  \/ (pc[t])' = pc[t]
                      \/ pc[t] = "sync" /\ (pc[t])' = "reconnect"
                      \/ pc[t] \in {"reconnect", "sleep"} /\ (pc[t])' = "done"
    BY DEF WayOut
  <2> USE DEF IInv, TypeOK, StoppedQuiet, OnTheWay, Inside, Goto, Return, fields, threads
  <2>1. ASSUME NEW u \in Threads, ThreadStep(u)
        PROVE  \/ (pc[t])' = pc[t]
               \/ pc[t] = "sync" /\ (pc[t])' = "reconnect"
               \/ pc[t] \in {"reconnect", "sleep"} /\ (pc[t])' = "done"
    BY <2>1 DEF ThreadStep, Run, Enter, Begin, Open, Finally, Reconnect, Wake, MayReconnect
  <2>2. ASSUME NEW u \in Threads PROVE ~Connect(u)
    BY DEF Connect
  <2>3. ~DisconnectThrows
    BY DEF DisconnectThrows, WindInv
  <2>4. ASSUME Disconnect \/ \E a \in Attempts : Listener(a) \/ Accept(a) \/ Refuse(a) \/ Close(a)
        PROVE  pc' = pc
    BY <2>4 DEF Disconnect, Listener, OnSuccess, OnPublish, OnFailure, OnClear, Accept,
                Refuse, Outcome, Close
  <2> QED
    BY <2>1, <2>2, <2>3, <2>4 DEF Next
<1> QED
  BY <1>1, <1>2, <1>3, WindHolds, Invariance, PTL DEF Spec

=============================================================================
