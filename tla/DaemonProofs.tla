---------------------------- MODULE DaemonProofs ----------------------------
(***************************************************************************)
(* Proofs about the threads of lianad, for any connections clients make,   *)
(* any number of slots, of broadcasts and of panics.                       *)
(***************************************************************************)
EXTENDS Daemon, FiniteSetTheorems, SequenceTheorems, TLAPS

ConnState == {"closed", "backlog", "accepted", "reading", "sending", "receiving",
              "panicked"}

InSlot == {"reading", "sending", "receiving", "panicked"}

\* The counter of the accept loop, without its bound.
Counted == IsFiniteSet(Handled) /\ counter = Cardinality(Handled)

\* The accept loop holds a connection which has no handler yet, and the poller answers
\* a connection that asked: a slot is never taken or given back for anything else.
IInv ==
    /\ DaemonTypeOK
    /\ Counted
    /\ held # NoConn => conn[held] = "accepted"
    /\ poller = "replying" => asking \in Conn

-----------------------------------------------------------------------------
(* Counters and the channel stay in their bounds. *)

\* The bounds are naturals.
LEMMA Bounds == MaxConnections \in Nat /\ MaxBroadcasts \in Nat /\ MaxPanics \in Nat
BY DaemonAssumption

\* A counter below its bound may be raised.
LEMMA OneMore ==
    ASSUME NEW m \in Nat, NEW n \in 0 .. m, n < m
    PROVE  n + 1 \in 0 .. m
OBVIOUS

\* A queue of one message is within the bound.
LEMMA OneMessage ==
    ASSUME NEW S, NEW e \in S
    PROVE  <<e>> \in Seq(S) /\ Len(<<e>>) <= 1
OBVIOUS

-----------------------------------------------------------------------------
(* What one connection does to the slots. *)

\* Only the connection that moves can enter or leave the set.
LEMMA HandledMove ==
    ASSUME NEW c \in Conn, NEW s \in ConnState, conn \in [Conn -> ConnState],
           conn' = [conn EXCEPT ![c] = s]
    PROVE  /\ conn' \in [Conn -> ConnState]
           /\ Handled' = IF s \in InSlot THEN Handled \cup {c} ELSE Handled \ {c}
           /\ c \in Handled <=> conn[c] \in InSlot
BY DEF Handled, InSlot

\* A handler that goes on keeps its slot, and a connection without one takes none.
LEMMA SlotKept ==
    ASSUME NEW c \in Conn, NEW s \in ConnState, conn \in [Conn -> ConnState],
           Counted, conn' = [conn EXCEPT ![c] = s], counter' = counter,
           conn[c] \in InSlot <=> s \in InSlot
    PROVE  Counted'
<1>1. /\ Handled' = IF s \in InSlot THEN Handled \cup {c} ELSE Handled \ {c}
      /\ c \in Handled <=> s \in InSlot
    BY HandledMove
<1>2. Handled' = Handled
    BY <1>1
<1>3. QED BY <1>2 DEF Counted

\* A new handler takes one slot.
LEMMA SlotTaken ==
    ASSUME NEW c \in Conn, conn \in [Conn -> ConnState], Counted,
           conn[c] \notin InSlot, conn' = [conn EXCEPT ![c] = "reading"],
           counter' = counter + 1
    PROVE  Counted'
<1>1. "reading" \in ConnState /\ "reading" \in InSlot
    BY DEF ConnState, InSlot
<1>2. Handled' = Handled \cup {c} /\ c \notin Handled
    BY <1>1, HandledMove
<1>3. QED BY <1>2, FS_AddElement DEF Counted

\* A handler that returns gives back one slot, and there was one.
LEMMA SlotFreed ==
    ASSUME NEW c \in Conn, conn \in [Conn -> ConnState], Counted,
           conn[c] \in InSlot, Close(c)
    PROVE  /\ Counted'
           /\ counter' \in Nat /\ counter' < counter
<1>1. "closed" \in ConnState /\ "closed" \notin InSlot
    BY DEF ConnState, InSlot
<1>2. Handled' = Handled \ {c} /\ c \in Handled
    BY <1>1, HandledMove DEF Close
<1>3. /\ IsFiniteSet(Handled \ {c})
      /\ Cardinality(Handled \ {c}) = Cardinality(Handled) - 1
    BY <1>2, FS_RemoveElement DEF Counted
<1>4. Cardinality(Handled) \in Nat /\ Cardinality(Handled \ {c}) \in Nat
    BY <1>3, FS_CardinalityType DEF Counted
<1>5. QED BY <1>2, <1>3, <1>4 DEF Counted, Close

\* After a response the handler reads again, or returns.
LEMMA SlotResponded ==
    ASSUME NEW c \in Conn, conn \in [Conn -> ConnState], Counted,
           counter \in 0 .. MaxConnections, conn[c] \in InSlot, Responded(c)
    PROVE  /\ Counted'
           /\ conn' \in [Conn -> ConnState]
           /\ counter' \in 0 .. MaxConnections
           /\ \A d \in Conn : conn[d] = "accepted" => conn'[d] = "accepted"
<1>1. CASE shutdown
    <2>1. Close(c)
        BY <1>1 DEF Responded
    <2>2. Counted' /\ counter' \in Nat /\ counter' < counter
        BY <2>1, SlotFreed
    <2>3. QED BY <2>1, <2>2, DaemonAssumption DEF Close, ConnState, InSlot
<1>2. CASE ~shutdown
    <2>1. conn' = [conn EXCEPT ![c] = "reading"] /\ counter' = counter
        BY <1>2 DEF Responded
    <2>2. "reading" \in ConnState /\ "reading" \in InSlot
        BY DEF ConnState, InSlot
    <2>3. Counted'
        BY <2>1, <2>2, SlotKept
    <2>4. QED BY <2>1, <2>2, <2>3 DEF ConnState, InSlot
<1>3. QED BY <1>1, <1>2
-----------------------------------------------------------------------------
(* The invariant holds at the start. *)

\* So is the empty queue.
LEMMA EmptyQueue == <<>> \in Seq(Conn \cup {Shutdown}) /\ Len(<<>>) <= 1
OBVIOUS

\* What the poller leaves in the channel when it takes a message.
LEMMA TakeMessage ==
    ASSUME NEW S, NEW q \in Seq(S), q # <<>>, Len(q) <= 1
    PROVE  Head(q) \in S /\ Tail(q) \in Seq(S) /\ Len(Tail(q)) <= 1
OBVIOUS

\* The initial states satisfy the invariant.
LEMMA InitIInv == DaemonInit => IInv
<1> SUFFICES ASSUME DaemonInit PROVE IInv
    OBVIOUS
<1>1. DaemonTypeOK
    <2>1. queue \in Seq(Conn \cup {Shutdown}) /\ Len(queue) <= 1
        BY EmptyQueue DEF DaemonInit
    <2>2. conn \in [Conn -> ConnState]
        BY DEF DaemonInit, ConnState
    <2>3. /\ counter \in 0 .. MaxConnections
          /\ broadcasts \in 0 .. MaxBroadcasts
          /\ panics \in 0 .. MaxPanics
        BY DaemonAssumption DEF DaemonInit
    <2>4. QED BY <2>1, <2>2, <2>3 DEF DaemonInit, DaemonTypeOK, ConnState
<1>2. Handled = {}
    BY DEF DaemonInit, Handled
<1>3. Counted
    BY <1>2, FS_EmptySet DEF DaemonInit, Counted
<1>4. QED BY <1>1, <1>3 DEF DaemonInit, IInv

\* The slots do not change when the connections do not.
LEMMA SameConn ==
    ASSUME IInv, UNCHANGED <<held, counter, conn>>
    PROVE  Counted' /\ (held' # NoConn => conn'[held'] = "accepted")
BY DEF IInv, Counted, Handled

-----------------------------------------------------------------------------
(* The poller. *)

\* The poller receiving a message keeps the invariant.
LEMMA ReceiveStep ==
    ASSUME IInv, Receive
    PROVE  IInv'
<1>1. DaemonTypeOK
    BY DEF IInv
<1>2. /\ UNCHANGED <<main, shutdown, server, held, counter, conn>>
      /\ UNCHANGED <<broadcasts, unseen, panics>>
    BY DEF Receive, PollerFrame
<1>3. Head(queue) \in Conn \cup {Shutdown} /\ Tail(queue) \in Seq(Conn \cup {Shutdown})
      /\ Len(Tail(queue)) <= 1
    BY <1>1, TakeMessage DEF Receive, DaemonTypeOK
<1>4. /\ poller' \in {"returned", "polling", "replying"}
      /\ synced' \in BOOLEAN
      /\ asking' \in Conn \cup {NoConn}
      /\ poller' = "replying" => asking' \in Conn
      /\ queue' \in Seq(Conn \cup {Shutdown}) /\ Len(queue') <= 1
      /\ looking' \subseteq unseen
    <2>1. CASE Head(queue) = Shutdown
        BY <1>1, <2>1, EmptyQueue DEF Receive, Leave, DaemonTypeOK
    <2>2. CASE Head(queue) # Shutdown
        BY <1>1, <1>3, <2>2 DEF Receive, PollFor, DaemonTypeOK
    <2>3. QED BY <2>1, <2>2
<1>5. DaemonTypeOK'
    BY <1>1, <1>2, <1>4 DEF DaemonTypeOK
<1>6. QED BY <1>2, <1>4, <1>5, SameConn DEF IInv

\* The poller starting a poll by itself keeps the invariant.
LEMMA TimeoutStep ==
    ASSUME IInv, Timeout
    PROVE  IInv'
<1>1. DaemonTypeOK
    BY DEF IInv
<1>2. /\ UNCHANGED <<main, shutdown, server, held, counter, conn>>
      /\ UNCHANGED <<queue, broadcasts, unseen, panics>>
    BY DEF Timeout, PollerFrame
<1>3. /\ poller' \in {"waiting", "polling"}
      /\ synced' \in BOOLEAN
      /\ asking' = NoConn
      /\ looking' \subseteq unseen
    BY <1>1 DEF Timeout, PollFor, DaemonTypeOK
<1>4. DaemonTypeOK'
    BY <1>1, <1>2, <1>3 DEF DaemonTypeOK
<1>5. QED BY <1>2, <1>3, <1>4, SameConn DEF IInv

\* The end of a poll keeps the invariant.
LEMMA FinishPollStep ==
    ASSUME IInv, FinishPoll
    PROVE  IInv'
<1>1. DaemonTypeOK'
    BY DEF IInv, DaemonTypeOK, FinishPoll, PollerFrame
<1>2. poller' = "replying" => asking' \in Conn
    BY DEF IInv, DaemonTypeOK, FinishPoll
<1>3. QED BY <1>1, <1>2, SameConn DEF IInv, FinishPoll, PollerFrame

\* The poller's reply keeps the invariant.
LEMMA ReplyStep ==
    ASSUME IInv, Reply
    PROVE  IInv'
<1>1. asking \in Conn /\ conn[asking] \in InSlot
    BY DEF IInv, Reply, InSlot
<1>2. /\ Counted' /\ conn' \in [Conn -> ConnState] /\ counter' \in 0 .. MaxConnections
      /\ \A d \in Conn : conn[d] = "accepted" => conn'[d] = "accepted"
    BY <1>1, SlotResponded DEF IInv, DaemonTypeOK, Reply, ConnState
<1>3. DaemonTypeOK'
    BY <1>2 DEF IInv, DaemonTypeOK, Reply, ConnState
<1>4. held' # NoConn => conn'[held'] = "accepted"
    BY <1>2 DEF IInv, DaemonTypeOK, Reply
<1>5. QED BY <1>2, <1>3, <1>4 DEF IInv, Reply

\* A panic of the poller keeps the invariant.
LEMMA PollerPanicsStep ==
    ASSUME IInv, PollerPanics
    PROVE  IInv'
<1>1. panics' \in 0 .. MaxPanics
    BY Bounds, OneMore DEF IInv, DaemonTypeOK, PollerPanics
<1>2. /\ queue' \in Seq(Conn \cup {Shutdown}) /\ Len(queue') <= 1
      /\ poller' = "panicked" /\ asking' = NoConn /\ looking' = {}
    BY EmptyQueue DEF PollerPanics, Leave
<1>3. DaemonTypeOK'
    BY <1>1, <1>2 DEF IInv, DaemonTypeOK, PollerPanics, PollerFrame
<1>4. QED BY <1>3, SameConn DEF IInv, PollerPanics, Leave, PollerFrame

-----------------------------------------------------------------------------
(* The handlers and their clients.  Each step moves one connection that the accept *)
(* loop does not hold, between two states of the same kind or out of its slot.     *)

\* A handler or a client that keeps the slots as they are.
LEMMA ConnKeeps ==
    ASSUME IInv, NEW c \in Conn, NEW s \in ConnState \ {"accepted"},
           conn[c] # "accepted", conn[c] \in InSlot <=> s \in InSlot,
           conn' = [conn EXCEPT ![c] = s], UNCHANGED <<counter, held>>
    PROVE  /\ Counted' /\ conn' \in [Conn -> ConnState]
           /\ held' # NoConn => conn'[held'] = "accepted"
<1>1. conn \in [Conn -> ConnState] /\ Counted
    BY DEF IInv, DaemonTypeOK, ConnState
<1>2. Counted'
    BY <1>1, SlotKept
<1>3. QED BY <1>1, <1>2 DEF IInv, DaemonTypeOK

\* A handler that returns.
LEMMA ConnCloses ==
    ASSUME IInv, NEW c \in Conn, conn[c] \in InSlot, Close(c), UNCHANGED held
    PROVE  /\ Counted' /\ conn' \in [Conn -> ConnState]
           /\ counter' \in 0 .. MaxConnections
           /\ held' # NoConn => conn'[held'] = "accepted"
<1>1. conn \in [Conn -> ConnState] /\ Counted /\ counter \in 0 .. MaxConnections
    BY DEF IInv, DaemonTypeOK, ConnState
<1>2. Counted' /\ counter' \in Nat /\ counter' < counter
    BY <1>1, SlotFreed
<1>3. counter' \in 0 .. MaxConnections
    BY <1>1, <1>2, Bounds
<1>4. conn' = [conn EXCEPT ![c] = "closed"] /\ conn[c] # "accepted"
    BY DEF Close, InSlot
<1>5. conn' \in [Conn -> ConnState]
    BY <1>1, <1>4 DEF ConnState
<1>6. held' # NoConn => conn'[held'] = "accepted"
    BY <1>1, <1>4 DEF IInv, DaemonTypeOK
<1>7. QED BY <1>2, <1>3, <1>5, <1>6

\* A client connecting keeps the invariant.
LEMMA ConnectStep ==
    ASSUME IInv, NEW c \in Conn, Connect(c)
    PROVE  IInv'
<1>1. /\ Counted' /\ conn' \in [Conn -> ConnState]
      /\ held' # NoConn => conn'[held'] = "accepted"
    BY ConnKeeps DEF Connect, ConnFrame, ConnState, InSlot
<1>2. DaemonTypeOK'
    BY <1>1 DEF IInv, DaemonTypeOK, Connect, ConnFrame, ConnState
<1>3. QED BY <1>1, <1>2 DEF IInv, Connect, ConnFrame

\* The end of a client's commands keeps the invariant.
LEMMA EndOfCommandsStep ==
    ASSUME IInv, NEW c \in Conn, EndOfCommands(c)
    PROVE  IInv'
<1>1. /\ Counted' /\ conn' \in [Conn -> ConnState]
      /\ counter' \in 0 .. MaxConnections
      /\ held' # NoConn => conn'[held'] = "accepted"
    BY ConnCloses DEF EndOfCommands, ConnFrame, InSlot
<1>2. DaemonTypeOK'
    BY <1>1 DEF IInv, DaemonTypeOK, EndOfCommands, ConnFrame, ConnState
<1>3. QED BY <1>1, <1>2 DEF IInv, EndOfCommands, ConnFrame

\* A stop command keeps the invariant.
LEMMA StopStep ==
    ASSUME IInv, NEW c \in Conn, Stop(c)
    PROVE  IInv'
<1>1. /\ Counted' /\ conn' \in [Conn -> ConnState]
      /\ counter' \in 0 .. MaxConnections
      /\ held' # NoConn => conn'[held'] = "accepted"
    BY ConnCloses DEF Stop, ConnFrame, InSlot
<1>2. DaemonTypeOK'
    BY <1>1 DEF IInv, DaemonTypeOK, Stop, ConnFrame, ConnState
<1>3. QED BY <1>1, <1>2 DEF IInv, Stop, ConnFrame

\* A broadcast keeps the invariant.
LEMMA BroadcastStep ==
    ASSUME IInv, NEW c \in Conn, Broadcast(c)
    PROVE  IInv'
<1>1. /\ Counted' /\ conn' \in [Conn -> ConnState]
      /\ held' # NoConn => conn'[held'] = "accepted"
    BY ConnKeeps DEF Broadcast, ConnFrame, ConnState, InSlot
<1>2. broadcasts' \in 0 .. MaxBroadcasts
    BY Bounds, OneMore DEF IInv, DaemonTypeOK, Broadcast
<1>3. DaemonTypeOK'
    BY <1>1, <1>2 DEF IInv, DaemonTypeOK, Broadcast, ConnFrame, ConnState
<1>4. QED BY <1>1, <1>3 DEF IInv, Broadcast, ConnFrame

\* A handler's message to the poller keeps the invariant.
LEMMA SendStep ==
    ASSUME IInv, NEW c \in Conn, Send(c)
    PROVE  IInv'
<1>1. /\ Counted' /\ conn' \in [Conn -> ConnState]
      /\ held' # NoConn => conn'[held'] = "accepted"
    BY ConnKeeps DEF Send, ConnFrame, ConnState, InSlot
<1>2. queue' \in Seq(Conn \cup {Shutdown}) /\ Len(queue') <= 1
    BY OneMessage DEF IInv, DaemonTypeOK, Send
<1>3. DaemonTypeOK'
    BY <1>1, <1>2 DEF IInv, DaemonTypeOK, Send, ConnFrame, ConnState
<1>4. QED BY <1>1, <1>3 DEF IInv, Send, ConnFrame

\* A handler that finds the poller gone keeps the invariant.
LEMMA DisconnectedStep ==
    ASSUME IInv, NEW c \in Conn, Disconnected(c)
    PROVE  IInv'
<1>1. conn[c] \in InSlot
    BY DEF Disconnected, InSlot
<1>2. /\ Counted' /\ conn' \in [Conn -> ConnState] /\ counter' \in 0 .. MaxConnections
      /\ \A d \in Conn : conn[d] = "accepted" => conn'[d] = "accepted"
    BY <1>1, SlotResponded DEF IInv, DaemonTypeOK, Disconnected, ConnState
<1>3. DaemonTypeOK'
    BY <1>2 DEF IInv, DaemonTypeOK, Disconnected, ConnFrame, ConnState
<1>4. QED BY <1>2, <1>3 DEF IInv, DaemonTypeOK, Disconnected, ConnFrame

\* A panic of a handler keeps the invariant.
LEMMA HandlerPanicsStep ==
    ASSUME IInv, NEW c \in Conn, HandlerPanics(c)
    PROVE  IInv'
<1>1. /\ Counted' /\ conn' \in [Conn -> ConnState]
      /\ held' # NoConn => conn'[held'] = "accepted"
    BY ConnKeeps DEF HandlerPanics, ConnFrame, ConnState, InSlot
<1>2. panics' \in 0 .. MaxPanics
    BY Bounds, OneMore DEF IInv, DaemonTypeOK, HandlerPanics
<1>3. DaemonTypeOK'
    BY <1>1, <1>2 DEF IInv, DaemonTypeOK, HandlerPanics, ConnFrame, ConnState
<1>4. QED BY <1>1, <1>3 DEF IInv, HandlerPanics, ConnFrame

-----------------------------------------------------------------------------
(* The accept loop. *)

\* Accepting a connection keeps the invariant.
LEMMA AcceptStep ==
    ASSUME IInv, NEW c \in Conn, Accept(c)
    PROVE  IInv'
<1>1. conn \in [Conn -> ConnState] /\ Counted
    BY DEF IInv, DaemonTypeOK, ConnState
<1>2. Counted' /\ conn' \in [Conn -> ConnState]
    BY <1>1, SlotKept DEF Accept, ConnState, InSlot
<1>3. conn'[held'] = "accepted"
    BY <1>1 DEF Accept
<1>4. DaemonTypeOK'
    BY <1>2 DEF IInv, DaemonTypeOK, Accept, ServerFrame, ConnState
<1>5. QED BY <1>2, <1>3, <1>4 DEF IInv, Accept, ServerFrame

\* Starting a handler keeps the invariant.
LEMMA SpawnHandlerStep ==
    ASSUME IInv, SpawnHandler
    PROVE  IInv'
<1>1. /\ conn \in [Conn -> ConnState] /\ Counted
      /\ held \in Conn /\ conn[held] \notin InSlot
    BY DEF IInv, DaemonTypeOK, SpawnHandler, ConnState, InSlot
<1>2. Counted' /\ conn' \in [Conn -> ConnState] /\ counter' \in 0 .. MaxConnections
    <2>1. CASE shutdown
        <3>1. conn' = [conn EXCEPT ![held] = "closed"] /\ counter' = counter
            BY <2>1 DEF SpawnHandler
        <3>2. Counted'
            BY <1>1, <3>1, SlotKept DEF ConnState, InSlot
        <3>3. QED BY <1>1, <3>1, <3>2 DEF IInv, DaemonTypeOK, ConnState
    <2>2. CASE ~shutdown
        <3>1. conn' = [conn EXCEPT ![held] = "reading"] /\ counter' = counter + 1
            BY <2>2 DEF SpawnHandler
        <3>2. Counted'
            BY <1>1, <3>1, SlotTaken
        <3>3. counter' \in 0 .. MaxConnections
            BY <3>1, Bounds, OneMore DEF IInv, DaemonTypeOK, SpawnHandler, FreeSlot
        <3>4. QED BY <1>1, <3>1, <3>2, <3>3 DEF ConnState
    <2>3. QED BY <2>1, <2>2
<1>3. DaemonTypeOK'
    BY <1>2 DEF IInv, DaemonTypeOK, SpawnHandler, ServerFrame, ConnState
<1>4. QED BY <1>2, <1>3 DEF IInv, SpawnHandler, ServerFrame

\* The end of the server keeps the invariant.
LEMMA ServerReturnsStep ==
    ASSUME IInv, ServerReturns
    PROVE  IInv'
<1>1. conn' \in [Conn -> ConnState]
    BY DEF IInv, DaemonTypeOK, ServerReturns, ConnState
<1>2. Handled' = Handled
    BY DEF IInv, DaemonTypeOK, ServerReturns, Handled
<1>3. DaemonTypeOK'
    BY <1>1 DEF IInv, DaemonTypeOK, ServerReturns, ServerFrame, ConnState
<1>4. QED BY <1>2, <1>3 DEF IInv, Counted, ServerReturns, ServerFrame

-----------------------------------------------------------------------------
(* The main thread, which moves no connection. *)

\* The main thread's steps keep the invariant.
LEMMA MainThreadStep ==
    ASSUME IInv, MainThread
    PROVE  IInv'
<1>1. UNCHANGED <<poller, synced, asking, server, held, counter, conn>>
      /\ UNCHANGED <<unseen, looking, broadcasts, panics>>
    BY DEF MainThread, NoticeEnd, SendShutdown, SetFlag, JoinServer, JoinPoller, MainFrame
<1>2. queue' \in Seq(Conn \cup {Shutdown}) /\ Len(queue') <= 1
    <2>1. queue' = queue \/ queue' = <<Shutdown>>
        BY DEF MainThread, NoticeEnd, SendShutdown, SetFlag, JoinServer, JoinPoller
    <2>2. QED BY <2>1, OneMessage DEF IInv, DaemonTypeOK
<1>3. /\ shutdown' \in BOOLEAN
      /\ main' \in {"watching", "shutting down", "flagging", "joining server",
                    "joining poller", "exited", "panicked"}
    BY DEF IInv, DaemonTypeOK, MainThread, NoticeEnd, SendShutdown, SetFlag, JoinServer, JoinPoller
<1>4. DaemonTypeOK'
    BY <1>1, <1>2, <1>3 DEF IInv, DaemonTypeOK
<1>5. QED BY <1>1, <1>4, SameConn DEF IInv

-----------------------------------------------------------------------------
\* Every step keeps the invariant.
LEMMA StepIInv == IInv /\ [DaemonNext]_daemonVars => IInv'
<1> SUFFICES ASSUME IInv, [DaemonNext]_daemonVars PROVE IInv'
    OBVIOUS
<1>1. CASE PollerThread
    BY <1>1, ReceiveStep, TimeoutStep, FinishPollStep, ReplyStep DEF PollerThread
<1>2. CASE PollerPanics
    BY <1>2, PollerPanicsStep
<1>3. ASSUME NEW c \in Conn, HandlerThread(c) \/ HandlerPanics(c) \/ ClientOf(c)
      PROVE  IInv'
    BY <1>3, SendStep, DisconnectedStep, HandlerPanicsStep, ConnectStep,
       EndOfCommandsStep, StopStep, BroadcastStep DEF HandlerThread, ClientOf
<1>4. CASE ServerThread
    BY <1>4, AcceptStep, SpawnHandlerStep, ServerReturnsStep DEF ServerThread
<1>5. CASE MainThread
    BY <1>5, MainThreadStep
<1>6. CASE UNCHANGED daemonVars
    BY <1>6 DEF IInv, DaemonTypeOK, Counted, Handled, daemonVars, threadVars
<1>7. QED BY <1>1, <1>2, <1>3, <1>4, <1>5, <1>6 DEF DaemonNext

\* The invariant implies the property: the bound on the counter is part of its type.
LEMMA IInvSlots == IInv => SlotsCounted
<1> SUFFICES ASSUME IInv PROVE SlotsCounted
    OBVIOUS
<1>1. counter \in 0 .. MaxConnections /\ counter = Cardinality(Handled)
    BY DEF IInv, DaemonTypeOK, Counted
<1>2. counter <= MaxConnections
    BY <1>1, Bounds
<1>3. QED BY <1>1, <1>2 DEF SlotsCounted

\* Each thread is where it can be, and the channel holds one message at most.
THEOREM Typed == DaemonSpec => []DaemonTypeOK
<1>1. IInv => DaemonTypeOK
    BY DEF IInv
<1>2. QED BY <1>1, InitIInv, StepIInv, PTL DEF DaemonSpec

\* The accept loop's counter is the number of handlers that live or have panicked, and
\* never exceeds MAX_CONNECTIONS, however many clients connect and leave: a command may
\* return while the poller answers it, while the daemon stops, or never.
THEOREM Slots == DaemonSpec => []SlotsCounted
<1>1. QED BY InitIInv, StepIInv, IInvSlots, PTL DEF DaemonSpec

-----------------------------------------------------------------------------
(* The answer to a broadcast.                                                *)
(*                                                                           *)
(* A connection whose request is in the channel or being served waits for    *)
(* the answer, and so broadcasts nothing else; a request is in one of those  *)
(* places; and the poll that serves it began after the broadcast, so that it *)
(* looks for the transaction, and has seen it when the poller replies.       *)

AskInv ==
    /\ asking # NoConn => /\ poller \in {"polling", "replying"}
                          /\ conn[asking] = "receiving"
                          /\ queue # <<asking>>
    /\ \A c \in Conn : queue = <<c>> => conn[c] = "receiving"
    /\ poller = "polling" /\ asking \in unseen => asking \in looking
    /\ poller = "replying" /\ synced => asking \notin unseen

\* No connection has the name of none, or of the shutdown message.
LEMMA NoConnIsNone == NoConn \notin Conn /\ Shutdown \notin Conn
BY DaemonAssumption

\* A queue of at most one message is its head.
LEMMA HeadIsAll ==
    ASSUME NEW S, NEW q \in Seq(S), q # <<>>, Len(q) <= 1
    PROVE  q = <<Head(q)>> /\ Tail(q) = <<>>
<1>1. Len(q) \in Nat /\ Len(q) # 0
    BY EmptySeq
<1>2. Len(q) = 1 /\ Head(q) = q[1] /\ <<Head(q)>> \in Seq(S)
    BY <1>1
<1>3. q = <<Head(q)>>
    BY <1>2, SeqEqual
<1>4. Tail(q) \in Seq(S) /\ Len(Tail(q)) = 0
    BY <1>2, HeadTailProperties
<1>5. Tail(q) = <<>>
    BY <1>4, EmptySeq
<1>6. QED BY <1>3, <1>5

\* A queue with a message is not empty.
LEMMA NotEmpty == \A e : <<e>> # <<>>
OBVIOUS

\* Queues of one message are the same if the messages are.
LEMMA SameMessage == \A d, e : <<d>> = <<e>> => d = e
OBVIOUS

\* A connection that the poller has no request of, and its broadcasts, do not matter.
LEMMA AskElsewhere ==
    ASSUME IInv, AskInv, NEW c \in Conn, NEW s, c # asking, queue # <<c>>,
           conn' = [conn EXCEPT ![c] = s], unseen' \subseteq unseen \cup {c},
           UNCHANGED <<poller, synced, asking, queue, looking>>
    PROVE  AskInv'
<1>1. conn \in [Conn -> ConnState] /\ asking \in Conn \cup {NoConn}
    BY DEF IInv, DaemonTypeOK, ConnState
<1>2. \A d \in Conn \ {c} : conn'[d] = conn[d]
    BY <1>1
<1>3. QED BY <1>1, <1>2 DEF AskInv

\* A connection in any state but "receiving" is one of those.
LEMMA AskReceives ==
    ASSUME AskInv, NEW c \in Conn, conn[c] # "receiving"
    PROVE  c # asking /\ queue # <<c>>
BY NoConnIsNone DEF AskInv

\* The initial states satisfy what is known of who waits.
LEMMA InitAskInv == DaemonInit => AskInv
BY NoConnIsNone, NotEmpty DEF DaemonInit, AskInv

\* The poller's steps keep who waits for what known.
LEMMA PollerAsk ==
    ASSUME IInv, AskInv, PollerThread \/ PollerPanics
    PROVE  AskInv'
<1>1. DaemonTypeOK
    BY DEF IInv
<1>2. CASE Receive
    <2>1. queue = <<Head(queue)>> /\ Tail(queue) = <<>> /\ Head(queue) \in Conn \cup {Shutdown}
        BY <1>1, <1>2, HeadIsAll, TakeMessage DEF Receive, DaemonTypeOK
    <2>2. queue' = <<>> /\ UNCHANGED <<conn, unseen>>
        BY <1>2, <2>1 DEF Receive, Leave, PollerFrame
    <2>3. CASE Head(queue) = Shutdown
        BY <1>1, <1>2, <2>2, <2>3, NotEmpty, NoConnIsNone DEF Receive, Leave, AskInv, DaemonTypeOK
    <2>4. CASE Head(queue) # Shutdown
        <3>1. Head(queue) \in Conn /\ conn[Head(queue)] = "receiving"
            BY <2>1, <2>4 DEF AskInv
        <3>2. /\ asking' = Head(queue) /\ synced' \in BOOLEAN
              /\ poller' = IF synced' THEN "polling" ELSE "replying"
              /\ looking' = IF synced' THEN unseen ELSE {}
            BY <1>1, <1>2, <2>4 DEF Receive, PollFor, DaemonTypeOK
        <3>3. QED BY <2>2, <3>1, <3>2, NotEmpty DEF AskInv
    <2>5. QED BY <2>3, <2>4
<1>3. CASE Timeout
    <2>1. asking' = NoConn /\ poller' \in {"polling", "waiting"}
        BY <1>3 DEF Timeout, PollFor
    <2>2. NoConn \notin unseen
        BY <1>1, NoConnIsNone DEF DaemonTypeOK
    <2>3. QED BY <1>3, <2>1, <2>2 DEF Timeout, PollerFrame, AskInv
<1>4. CASE FinishPoll
    <2>1. poller = "polling" /\ unseen' = unseen \ looking
        BY <1>4 DEF FinishPoll
    <2>2. asking \notin unseen'
        BY <2>1 DEF AskInv
    <2>3. QED BY <1>4, <2>2 DEF FinishPoll, PollerFrame, AskInv
<1>5. CASE Reply
    <2>1. asking' = NoConn /\ poller' = "waiting" /\ UNCHANGED queue
        BY <1>5 DEF Reply
    <2>2. asking \in Conn /\ queue # <<asking>>
        BY <1>5, NoConnIsNone DEF Reply, IInv, AskInv
    <2>3. \A c \in Conn \ {asking} : conn'[c] = conn[c]
        BY <1>1, <1>5, <2>2 DEF Reply, Responded, Close, DaemonTypeOK
    <2>4. QED BY <2>1, <2>2, <2>3 DEF AskInv
<1>6. CASE PollerPanics
    <2>1. asking' = NoConn /\ poller' = "panicked" /\ queue' = <<>>
        BY <1>6 DEF PollerPanics, Leave
    <2>2. QED BY <2>1, NotEmpty DEF AskInv
<1>7. QED BY <1>2, <1>3, <1>4, <1>5, <1>6 DEF PollerThread

\* A handler's and its client's steps keep it known.
LEMMA ConnAsk ==
    ASSUME IInv, AskInv, NEW c \in Conn,
           HandlerThread(c) \/ HandlerPanics(c) \/ ClientOf(c)
    PROVE  AskInv'
<1>1. CASE Send(c)
    <2>1. /\ c # asking /\ UNCHANGED <<poller, asking, synced, unseen, looking>>
          /\ queue' = queue \/ queue' = <<c>>
          /\ conn' = [conn EXCEPT ![c] = "receiving"]
        BY <1>1, AskReceives DEF Send, ConnFrame
    <2>2. conn \in [Conn -> ConnState]
        BY DEF IInv, DaemonTypeOK, ConnState
    <2>3. asking # NoConn => queue' # <<asking>> /\ conn'[asking] = conn[asking]
        BY <2>1, <2>2, SameMessage DEF AskInv, IInv, DaemonTypeOK
    <2>4. \A d \in Conn : queue' = <<d>> => conn'[d] = "receiving"
        BY <2>1, <2>2, SameMessage DEF AskInv
    <2>5. QED BY <2>1, <2>3, <2>4 DEF AskInv
<1>2. CASE Disconnected(c)
    <2>1. \E s \in ConnState : conn' = [conn EXCEPT ![c] = s]
        BY <1>2 DEF Disconnected, Responded, Close, ConnState
    <2>2. QED BY <1>2, <2>1, AskElsewhere DEF Disconnected, Dropped, ConnFrame
<1>3. CASE HandlerPanics(c)
    BY <1>3, AskReceives, AskElsewhere DEF HandlerPanics, ConnFrame
<1>4. CASE Connect(c)
    BY <1>4, AskReceives, AskElsewhere DEF Connect, ConnFrame
<1>5. CASE EndOfCommands(c)
    BY <1>5, AskReceives, AskElsewhere DEF EndOfCommands, Close, ConnFrame
<1>6. CASE Stop(c)
    BY <1>6, AskReceives, AskElsewhere DEF Stop, Close, ConnFrame
<1>7. CASE Broadcast(c)
    BY <1>7, AskReceives, AskElsewhere DEF Broadcast, ConnFrame
<1>8. QED BY <1>1, <1>2, <1>3, <1>4, <1>5, <1>6, <1>7 DEF HandlerThread, ClientOf

\* The server's steps keep it known.
LEMMA ServerAsk ==
    ASSUME IInv, AskInv, ServerThread
    PROVE  AskInv'
<1>1. ASSUME NEW c \in Conn, Accept(c)
      PROVE  AskInv'
    BY <1>1, AskReceives, AskElsewhere DEF Accept, ServerFrame
<1>2. CASE SpawnHandler
    <2>1. held \in Conn /\ conn[held] # "receiving"
        BY <1>2 DEF SpawnHandler, IInv, DaemonTypeOK
    <2>2. \E s : conn' = [conn EXCEPT ![held] = s]
        BY <1>2 DEF SpawnHandler
    <2>3. QED BY <1>2, <2>1, <2>2, AskReceives, AskElsewhere DEF SpawnHandler, ServerFrame
<1>3. CASE ServerReturns
    <2>1. \A c \in Conn : conn[c] = "receiving" => conn'[c] = "receiving"
        BY <1>3 DEF ServerReturns
    <2>2. asking \in Conn \cup {NoConn}
        BY DEF IInv, DaemonTypeOK
    <2>3. QED BY <1>3, <2>1, <2>2 DEF ServerReturns, ServerFrame, AskInv
<1>4. QED BY <1>1, <1>2, <1>3 DEF ServerThread

\* The main thread's steps keep it known.
LEMMA MainAsk ==
    ASSUME IInv, AskInv, MainThread
    PROVE  AskInv'
<1>1. UNCHANGED <<poller, synced, asking, conn, unseen, looking>>
    BY DEF MainThread, NoticeEnd, SendShutdown, SetFlag, JoinServer, JoinPoller, MainFrame
<1>2. queue' = queue \/ queue' = <<Shutdown>>
    BY DEF MainThread, NoticeEnd, SendShutdown, SetFlag, JoinServer, JoinPoller
<1>3. \A c \in Conn : <<Shutdown>> # <<c>>
    BY SameMessage, NoConnIsNone
<1>4. asking \in Conn \cup {NoConn}
    BY DEF IInv, DaemonTypeOK
<1>5. QED BY <1>1, <1>2, <1>3, <1>4 DEF AskInv

\* Every step keeps it known.
LEMMA StepAskInv == IInv /\ AskInv /\ [DaemonNext]_daemonVars => AskInv'
<1> SUFFICES ASSUME IInv, AskInv, [DaemonNext]_daemonVars PROVE AskInv'
    OBVIOUS
<1>1. CASE UNCHANGED daemonVars
    BY <1>1 DEF AskInv, daemonVars, threadVars
<1>2. CASE DaemonNext
    BY <1>2, PollerAsk, ConnAsk, ServerAsk, MainAsk DEF DaemonNext
<1>3. QED BY <1>1, <1>2

\* A broadcast that returns because the poller replied was seen by a poll that began
\* after it, whatever other clients ask for meanwhile and wherever the poller was when it
\* was asked (broadcast_spend, poll_forever).
THEOREM Recorded == DaemonSpec => BroadcastRecorded
<1>1. ASSUME IInv, AskInv, [DaemonNext]_daemonVars
      PROVE  [\A c \in Conn : Reply /\ asking = c /\ synced => c \notin unseen]_daemonVars
    BY <1>1 DEF AskInv, Reply
<1>2. QED BY <1>1, InitIInv, StepIInv, InitAskInv, StepAskInv, PTL DEF DaemonSpec, BroadcastRecorded
=============================================================================
