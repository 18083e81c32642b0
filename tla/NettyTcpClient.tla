--------------------------- MODULE NettyTcpClient ---------------------------
(***************************************************************************)
(* util/Netty/NettyTcpClient.java: the TCP client that keeps the remote    *)
(* control connected to the robot.                                         *)
(*                                                                         *)
(* Every connect() starts a "client-Netty" thread.  The thread holds the   *)
(* object's monitor from its first connectServer() to the end of the last  *)
(* one it reaches by recursion through reconnect().  Each connectServer()  *)
(* makes an event loop group and dials once; the outcome is told twice and *)
(* in no fixed order: to the thread, which sync() wakes, and to the        *)
(* listener added to the connect future, which runs on the attempt's own   *)
(* event loop.  The main thread calls connect() and disconnect() without   *)
(* the monitor.  No field is volatile; reads and writes are taken to be    *)
(* sequentially consistent.                                                *)
(*                                                                         *)
(* An attempt is numbered by its group: the k-th NioEventLoopGroup made is *)
(* k, and so are its channel and the connect future's listener.            *)
(***************************************************************************)
EXTENDS Integers, FiniteSets

CONSTANTS Threads,          \* the client-Netty threads connect() may start
          NoThread,         \* owner of the monitor when it is free
          MaxConnectTimes,  \* MAX_CONNECT_TIMES, from setMaxReconnectTimes
          MaxAttempts,      \* bound: event loop groups ever made
          MaxAccepts        \* bound: connections the robot accepts

ASSUME ClientAssumption == /\ NoThread \notin Threads
                           /\ MaxConnectTimes \in Nat
                           /\ MaxAttempts \in Nat
                           /\ MaxAccepts \in Nat

\* A process makes finitely many calls of connect(): they are counted below.
ASSUME FinitelyManyCalls == IsFiniteSet(Threads)

Attempts == 1..MaxAttempts

VARIABLES
  \* fields of the object
  isConnect, isConnecting, isNeedReconnect, reconnectNum,
  group,        \* the newest event loop group, 0 for null
  channel,      \* the attempt whose channel is stored, 0 for null
  \* threads
  monitor,      \* the thread inside synchronized(NettyTcpClient.this)
  pc,           \* where each client-Netty thread is
  \* Netty and the network
  link,         \* the channel of each attempt
  shut,         \* the groups on which shutdownGracefully() was called
  event,        \* how far each connect future's listener has come
  \* history, read by no action
  retries,      \* re-dials since reconnectNum was last refilled
  stopped,      \* a disconnect() met no thread on its way to a dial
  late          \* a listener wrote after its attempt's finally block

fields  == <<isConnect, isConnecting, isNeedReconnect, reconnectNum, group, channel>>
threads == <<monitor, pc>>
network == <<link, shut, event>>
history == <<retries, stopped, late>>
vars == <<fields, threads, network, history>>

-----------------------------------------------------------------------------
OnTheWay == {"new", "enter", "begin", "open"}     \* will dial unless refused
Inside   == {"begin", "open", "sync", "reconnect", "sleep"}   \* in the monitor

TypeOK ==
  /\ isConnect \in BOOLEAN /\ isConnecting \in BOOLEAN /\ isNeedReconnect \in BOOLEAN
  /\ reconnectNum \in 0..MaxConnectTimes
  /\ group \in 0..MaxAttempts /\ channel \in 0..MaxAttempts
  /\ monitor \in Threads \cup {NoThread}
  /\ pc \in [Threads -> {"unused", "done", "dead"} \cup OnTheWay \cup Inside]
  /\ link \in [Attempts -> {"none", "connecting", "open", "refused", "closed"}]
  /\ shut \in [Attempts -> BOOLEAN]
  /\ event \in [Attempts -> {"none", "success", "publish", "failure", "clear", "done"}]
  /\ retries \in Nat /\ stopped \in BOOLEAN /\ late \in BOOLEAN

Init ==
  /\ isConnect = FALSE /\ isConnecting = FALSE /\ isNeedReconnect = TRUE
  /\ reconnectNum = MaxConnectTimes
  /\ group = 0 /\ channel = 0
  /\ monitor = NoThread /\ pc = [t \in Threads |-> "unused"]
  /\ link = [a \in Attempts |-> "none"] /\ shut = [a \in Attempts |-> FALSE]
  /\ event = [a \in Attempts |-> "none"]
  /\ retries = 0 /\ stopped = FALSE /\ late = FALSE

Goto(t, where) == pc' = [pc EXCEPT ![t] = where]

\* The outermost connectServer() returns: the frames above it change nothing.
Return(t) == Goto(t, "done") /\ monitor' = NoThread

Busy(a) == link[a] \in {"connecting", "open"}

-----------------------------------------------------------------------------
(* The main thread *)

\* connect(), and the branch of tcpClientConntion that calls it.
Connect(t) ==
  /\ ~isConnecting
  /\ pc[t] = "unused"
  /\ Goto(t, "new")
  /\ stopped' = FALSE
  /\ UNCHANGED <<fields, monitor, network, retries, late>>

\* Seeded fault: the group is not shut.
Disconnect_KeepsGroup ==
  /\ isNeedReconnect' = FALSE
  /\ group # 0
  /\ stopped' = (stopped \/ \A t \in Threads : pc[t] \notin OnTheWay)
  /\ UNCHANGED <<isConnect, isConnecting, reconnectNum, group, channel,
                 threads, network, retries, late>>

\* disconnect(), called by onDestroy and by the other branch.
Disconnect ==
  /\ isNeedReconnect' = FALSE
  /\ group # 0
  /\ shut' = [shut EXCEPT ![group] = TRUE]
  /\ stopped' = (stopped \/ \A t \in Threads : pc[t] \notin OnTheWay)
  /\ UNCHANGED <<isConnect, isConnecting, reconnectNum, group, channel,
                 threads, link, event, retries, late>>

\* disconnect() before the first thread has made a group: group is null, and the
\* exception nobody catches on the main thread ends the process.
DisconnectThrows ==
  /\ group = 0
  /\ \E t \in Threads : pc[t] \notin {"unused", "dead"}
  /\ isNeedReconnect' = FALSE
  /\ pc' = [t \in Threads |-> "dead"]
  /\ UNCHANGED <<isConnect, isConnecting, reconnectNum, group, channel,
                 monitor, network, history>>

-----------------------------------------------------------------------------
(* A client-Netty thread *)

\* run() up to the call of connectServer().
Run(t) ==
  /\ pc[t] = "new"
  /\ isNeedReconnect' = TRUE
  /\ reconnectNum' = MaxConnectTimes
  /\ Goto(t, "enter")
  /\ retries' = 0
  /\ UNCHANGED <<isConnect, isConnecting, group, channel, monitor,
                 network, stopped, late>>

\* synchronized, and the test of isConnect.
Enter(t) ==
  /\ pc[t] = "enter"
  /\ monitor \in {NoThread, t}
  /\ \/ isConnect /\ Return(t)
     \/ ~isConnect /\ Goto(t, "begin") /\ monitor' = t
  /\ UNCHANGED <<fields, network, history>>

Begin(t) ==
  /\ pc[t] = "begin"
  /\ isConnecting' = TRUE
  /\ Goto(t, "open")
  /\ UNCHANGED <<isConnect, isNeedReconnect, reconnectNum, group, channel,
                 monitor, network, history>>

\* A new group, and bootstrap.connect() on it.
Open(t) ==
  /\ pc[t] = "open"
  /\ group < MaxAttempts
  /\ group' = group + 1
  /\ link' = [link EXCEPT ![group + 1] = "connecting"]
  /\ Goto(t, "sync")
  /\ UNCHANGED <<isConnect, isConnecting, isNeedReconnect, reconnectNum, channel,
                 monitor, shut, event, history>>

\* Seeded fault: closeFuture().sync() is missing.
Finally_NoWait(t) ==
  /\ pc[t] = "sync"
  /\ link[group] # "connecting"
  /\ isConnect' = FALSE
  /\ shut' = [shut EXCEPT ![group] = TRUE]
  /\ Goto(t, "reconnect")
  /\ UNCHANGED <<isConnecting, isNeedReconnect, reconnectNum, group, channel,
                 monitor, link, event, history>>

\* connect().sync() has thrown or closeFuture().sync() has returned; the
\* finally block up to reconnect().  The channel is closed already.
Finally(t) ==
  /\ pc[t] = "sync"
  /\ ~Busy(group)
  /\ isConnect' = FALSE
  /\ shut' = [shut EXCEPT ![group] = TRUE]
  /\ Goto(t, "reconnect")
  /\ UNCHANGED <<isConnecting, isNeedReconnect, reconnectNum, group, channel,
                 monitor, link, event, history>>

MayReconnect == isNeedReconnect /\ reconnectNum > 0 /\ ~isConnect

\* Seeded fault: reconnectNum-- is missing.
Reconnect_NoDecrement(t) ==
  /\ pc[t] = "reconnect"
  /\ \/ MayReconnect /\ Goto(t, "sleep") /\ UNCHANGED monitor
     \/ ~MayReconnect /\ Return(t)
  /\ UNCHANGED <<fields, network, history>>

\* Seeded fault: giving up, the thread leaves without releasing the monitor.
Reconnect_KeepsMonitor(t) ==
  /\ pc[t] = "reconnect"
  /\ \/ MayReconnect /\ reconnectNum' = reconnectNum - 1 /\ Goto(t, "sleep")
     \/ ~MayReconnect /\ Goto(t, "done") /\ UNCHANGED reconnectNum
  /\ UNCHANGED <<isConnect, isConnecting, isNeedReconnect, group, channel,
                 monitor, network, history>>

\* reconnect() up to the sleep.
Reconnect(t) ==
  /\ pc[t] = "reconnect"
  /\ \/ /\ MayReconnect
        /\ reconnectNum' = reconnectNum - 1
        /\ Goto(t, "sleep")
        /\ UNCHANGED monitor
     \/ ~MayReconnect /\ Return(t) /\ UNCHANGED reconnectNum
  /\ UNCHANGED <<isConnect, isConnecting, isNeedReconnect, group, channel,
                 network, history>>

\* Seeded fault: reconnect() does not test again after its sleep.
Wake_NoSecondTest(t) ==
  /\ pc[t] = "sleep"
  /\ Goto(t, "enter") /\ retries' = retries + 1
  /\ UNCHANGED <<fields, monitor, network, stopped, late>>

\* The second test of reconnect(), after the sleep.
Wake(t) ==
  /\ pc[t] = "sleep"
  /\ \/ MayReconnect /\ Goto(t, "enter") /\ retries' = retries + 1 /\ UNCHANGED monitor
     \/ ~MayReconnect /\ Return(t) /\ UNCHANGED retries
  /\ UNCHANGED <<fields, network, stopped, late>>

-----------------------------------------------------------------------------
(* The listener on the connect future, on the event loop of attempt a *)

Overdue(a) == ~(a = group /\ \E t \in Threads : pc[t] = "sync")

Tell(a, stage) == event' = [event EXCEPT ![a] = stage] /\ late' = (late \/ Overdue(a))

OnSuccess(a) ==
  /\ event[a] = "success"
  /\ reconnectNum' = MaxConnectTimes
  /\ isConnect' = TRUE
  /\ Tell(a, "publish")
  /\ retries' = 0
  /\ UNCHANGED <<isConnecting, isNeedReconnect, group, channel, threads, link, shut, stopped>>

\* Seeded fault: isConnecting is reset in the failure branch only.
OnPublish_NoReset(a) ==
  /\ event[a] = "publish"
  /\ channel' = a
  /\ Tell(a, "done")
  /\ UNCHANGED <<isConnect, isConnecting, isNeedReconnect, reconnectNum, group, threads,
                 link, shut, retries, stopped>>

OnPublish(a) ==
  /\ event[a] = "publish"
  /\ channel' = a
  /\ isConnecting' = FALSE
  /\ Tell(a, "done")
  /\ UNCHANGED <<isConnect, isNeedReconnect, reconnectNum, group, threads, link, shut,
                 retries, stopped>>

OnFailure(a) ==
  /\ event[a] = "failure"
  /\ isConnect' = FALSE
  /\ Tell(a, "clear")
  /\ UNCHANGED <<isConnecting, isNeedReconnect, reconnectNum, group, channel, threads,
                 link, shut, retries, stopped>>

OnClear(a) ==
  /\ event[a] = "clear"
  /\ isConnecting' = FALSE
  /\ Tell(a, "done")
  /\ UNCHANGED <<isConnect, isNeedReconnect, reconnectNum, group, channel, threads,
                 link, shut, retries, stopped>>

-----------------------------------------------------------------------------
(* Netty and the network *)

Outcome(a, linkNow, listenerNow) ==
  /\ link[a] = "connecting"
  /\ link' = [link EXCEPT ![a] = linkNow]
  /\ event' = [event EXCEPT ![a] = listenerNow]
  /\ UNCHANGED <<fields, threads, shut, history>>

Accepted == {a \in Attempts : link[a] \in {"open", "closed"}}

Accept(a) == Cardinality(Accepted) < MaxAccepts /\ Outcome(a, "open", "success")

\* Refused, timed out after CONNECT_TIMEOUT_MILLIS, or dialled on a shut group.
Refuse(a) == Outcome(a, "refused", "failure")

Close(a) ==
  /\ link[a] = "open"
  /\ link' = [link EXCEPT ![a] = "closed"]
  /\ UNCHANGED <<fields, threads, shut, event, history>>

\* A group that shuts down closes its channel.
CloseShut(a) == shut[a] /\ Close(a)

-----------------------------------------------------------------------------
ThreadStep(t) == \/ Run(t) \/ Enter(t) \/ Begin(t) \/ Open(t)
                 \/ Finally(t) \/ Reconnect(t) \/ Wake(t)

Listener(a) == OnSuccess(a) \/ OnPublish(a) \/ OnFailure(a) \/ OnClear(a)

Next ==
  \/ Disconnect \/ DisconnectThrows
  \/ \E t \in Threads : Connect(t) \/ ThreadStep(t)
  \/ \E a \in Attempts : Listener(a) \/ Accept(a) \/ Refuse(a) \/ Close(a)

Spec == Init /\ [][Next]_vars

\* A runnable thread runs, an event loop runs its listener, a dial has an
\* outcome within its timeout, a group that is shut closes its channel.  The
\* robot need not accept, nor close; nobody need call connect or disconnect.
FairSpec ==
  /\ Spec
  /\ \A t \in Threads : WF_vars(ThreadStep(t))
  /\ \A a \in Attempts : /\ WF_vars(Listener(a))
                         /\ WF_vars(Refuse(a))
                         /\ WF_vars(CloseShut(a))

-----------------------------------------------------------------------------
(* Properties *)

\* Only the owner of the monitor is inside connectServer(), whatever threads
\* repeated connect() calls have started.
MonitorExcludes ==
  \A t \in Threads : pc[t] \in Inside => monitor = t

\* One link at a time: a dial is never made while an earlier attempt's channel
\* is connecting or open, and a busy channel is the one its thread waits for.
OneLink ==
  \A a \in Attempts : Busy(a) => a = group /\ \E t \in Threads : pc[t] = "sync"

\* The budget of setMaxReconnectTimes is never overdrawn: whatever refills and
\* racing threads do to reconnectNum, at most MaxConnectTimes re-dials follow
\* one another without a success or a new connect().
RetryBudget == retries <= MaxConnectTimes

\* The dials of a whole life are bounded by what refills the budget: each
\* connect() and each accepted connection pays for MaxConnectTimes dials at most
\* (one more for the first of a thread), so the bound MaxAttempts never binds.
DialsArePaidFor ==
  LET started == {t \in Threads : pc[t] # "unused"}
  IN group <= Cardinality(started)
              + MaxConnectTimes * (Cardinality(started) + Cardinality(Accepted))

\* A disconnect() that meets no thread on its way to a dial is final: no group
\* is made and nothing is dialled until connect() is called again.
DisconnectIsFinal == [][stopped /\ stopped' => group' = group]_vars

\* Until a listener, of a success or of a failure, first writes after its attempt's
\* finally block: an open link whose listener is done can be sent on, isConnect is
\* set only for a newest attempt that came up, be its link closed by now, and the
\* stored channel is one that came up (NettyTcpClient.java:184-200: the writes of
\* the listener and those of the client thread are ordered by nothing).
FlagsTruthful ==
  ~late => /\ \A a \in Attempts : link[a] = "open" /\ event[a] = "done"
                                    => isConnect /\ channel = a /\ ~isConnecting
           /\ isConnect => group \in Accepted
           /\ channel # 0 => channel \in Accepted

\* A disconnect() that met no thread on its way to a dial ends the client: its
\* threads leave the monitor, however the robot answers.
DisconnectEnds == stopped ~> (~stopped \/ monitor = NoThread)

\* "最大重连次数", the number of reconnects asked for: when the client has given
\* up on a robot that does not answer, it has re-dialled that many times.
GivesUpAfterMaxReconnects ==
  (/\ isNeedReconnect /\ ~isConnect
   /\ \E t \in Threads : pc[t] = "done"
   /\ \A t \in Threads : pc[t] \in {"unused", "done"})
     => retries >= MaxConnectTimes

LinkUp == \E a \in Attempts : link[a] = "open"

\* No thread dials for ever: each either finds the robot or gives up.
ThreadSettles ==
  \A t \in Threads : pc[t] = "new" ~> (pc[t] \in {"done", "dead"} \/ LinkUp)

\* The robot's link is a TcpLink.
linkState == IF group = 0 \/ ~Busy(group) THEN "down"
             ELSE IF link[group] = "open" THEN "up" ELSE "dialling"

Link == INSTANCE TcpLink WITH MaxDials <- MaxAttempts, dials <- group, state <- linkState

ImplementsTcpLink == Link!LinkSpec
=============================================================================
