-------------------------------- MODULE Daemon --------------------------------
(***************************************************************************)
(* The threads of lianad and how they start, wait for each other and stop:  *)
(* the main thread (lib.rs, DaemonHandle), the poller (bitcoin/poller/mod.rs)*)
(* with its channel of one message, the JSONRPC server                      *)
(* (jsonrpc/server/unix.rs) and one handler thread per connection.          *)
(*                                                                         *)
(* Of the commands only those that involve other threads are told apart:    *)
(* `stop`, and `broadcastspend`, which has the poller look at the wallet     *)
(* before it returns.  A poll is one step here; module Poller has its        *)
(* inside.                                                                  *)
(***************************************************************************)
EXTENDS Integers, FiniteSets, Sequences

CONSTANTS
    Conn,           \* the connections clients make
    MaxConnections, \* MAX_CONNECTIONS
    MaxBroadcasts,  \* bound: the broadcasts all clients ask for
    MaxPanics,      \* bound: how often a thread panics
    NoConn          \* no connection

Shutdown == "shutdown" \* PollerMessage::Shutdown; a connection is its PollNow

ASSUME DaemonAssumption ==
    /\ {NoConn, Shutdown} \cap Conn = {}
    /\ MaxConnections \in Nat \ {0}
    /\ MaxBroadcasts \in Nat
    /\ MaxPanics \in Nat

VARIABLES
    main,       \* the main thread
    shutdown,   \* rpcserver_shutdown
    poller,     \* the poller thread
    synced,     \* poll_forever(): the block chain is synced
    asking,     \* the connection whose PollNow is being served
    queue,      \* the channel to the poller
    server,     \* the accept loop
    held,       \* the connection it accepted and has no thread for yet
    counter,    \* connections_counter
    conn,       \* the handler of each connection
    unseen,     \* the connections whose broadcast no finished poll has seen
    looking,    \* the broadcasts that the ongoing poll can see
    broadcasts,
    panics

threadVars == <<main, shutdown, poller, synced, asking, queue, server, held, counter, conn>>
daemonVars == <<threadVars, unseen, looking, broadcasts, panics>>

DaemonTypeOK ==
    /\ main \in {"watching", "shutting down", "flagging", "joining server",
                 "joining poller", "exited", "panicked"}
    /\ {shutdown, synced} \subseteq BOOLEAN
    /\ poller \in {"waiting", "polling", "replying", "returned", "panicked"}
    /\ {asking, held} \subseteq Conn \cup {NoConn}
    /\ queue \in Seq(Conn \cup {Shutdown}) /\ Len(queue) <= 1
    /\ server \in {"accepting", "returned"}
    /\ counter \in 0 .. MaxConnections
    /\ conn \in [Conn -> {"closed", "backlog", "accepted", "reading", "sending",
                          "receiving", "panicked"}]
    /\ unseen \subseteq Conn /\ looking \subseteq unseen
    /\ broadcasts \in 0 .. MaxBroadcasts
    /\ panics \in 0 .. MaxPanics

DaemonInit ==
    /\ main = "watching" /\ shutdown = FALSE
    /\ poller = "waiting" /\ synced \in BOOLEAN /\ asking = NoConn /\ queue = <<>>
    /\ server = "accepting" /\ held = NoConn /\ counter = 0
    /\ conn = [c \in Conn |-> "closed"]
    /\ unseen = {} /\ looking = {} /\ broadcasts = 0 /\ panics = 0

\* The threads die with the process.
Running == main \notin {"exited", "panicked"}

PollerGone == poller \in {"returned", "panicked"}

-----------------------------------------------------------------------------
(* The ends of a connection. *)

\* A bug: the slot is not given back.
CloseLeaking(c) ==
    /\ conn' = [conn EXCEPT ![c] = "closed"]
    /\ UNCHANGED counter

\* The handler returns, and its slot is free again.
Close(c) ==
    /\ conn' = [conn EXCEPT ![c] = "closed"]
    /\ counter' = counter - 1

\* The loop of the handler ends once the daemon is told to stop.
Responded(c) ==
    IF shutdown THEN Close(c)
                ELSE conn' = [conn EXCEPT ![c] = "reading"] /\ UNCHANGED counter

-----------------------------------------------------------------------------
(* The poller thread, poll_forever(). *)

PollerFrame ==
    UNCHANGED <<main, shutdown, server, held, counter, conn, broadcasts>>

\* A bug: what is in the channel is never dropped.
LeaveUndropped(how) == poller' = how /\ UNCHANGED <<queue, asking>>

\* The receiver is dropped with the messages that are still in the channel.
Leave(how) == poller' = how /\ queue' = <<>> /\ asking' = NoConn

\* A bug: a client that asks for a poll only gets an answer.
PollForTimeout(c, skipped) ==
    /\ asking' = c
    /\ \E done \in BOOLEAN :
          /\ synced' = (synced \/ done)
          /\ poller' = IF synced' /\ c = NoConn THEN "polling" ELSE skipped
    /\ looking' = IF synced' /\ c = NoConn THEN unseen ELSE {}

\* Unless the block chain is synced, now or before, the poll is skipped.
PollFor(c, skipped) ==
    /\ asking' = c
    /\ \E done \in BOOLEAN :
          /\ synced' = (synced \/ done)
          /\ poller' = IF synced' THEN "polling" ELSE skipped
    /\ looking' = IF synced' THEN unseen ELSE {}

\* recv_timeout() returns a message if there is one ...
Receive ==
    /\ poller = "waiting" /\ queue # <<>>
    /\ IF Head(queue) = Shutdown
       THEN Leave("returned") /\ UNCHANGED <<synced, looking>>
       ELSE queue' = Tail(queue) /\ PollFor(Head(queue), "replying")
    /\ PollerFrame /\ UNCHANGED <<unseen, panics>>

\* ... or it has been long enough since the last poll.
Timeout ==
    /\ poller = "waiting" /\ queue = <<>>
    /\ PollFor(NoConn, "waiting")
    /\ PollerFrame /\ UNCHANGED <<queue, unseen, panics>>

FinishPoll ==
    /\ poller = "polling"
    /\ poller' = IF asking = NoConn THEN "waiting" ELSE "replying"
    /\ unseen' = unseen \ looking
    /\ looking' = {}
    /\ PollerFrame /\ UNCHANGED <<synced, asking, queue, panics>>

\* The completion signal: the handler must be there to receive it.
Reply ==
    /\ poller = "replying" /\ conn[asking] = "receiving"
    /\ poller' = "waiting"
    /\ asking' = NoConn
    /\ Responded(asking)
    /\ UNCHANGED <<main, shutdown, synced, queue, server, held>>
    /\ UNCHANGED <<unseen, looking, broadcasts, panics>>

PollerPanics ==
    /\ poller = "polling" /\ panics < MaxPanics
    /\ panics' = panics + 1
    /\ Leave("panicked")
    /\ looking' = {}
    /\ PollerFrame /\ UNCHANGED <<synced, unseen>>

-----------------------------------------------------------------------------
(* The handler threads, connection_handler(). *)

ConnFrame == UNCHANGED <<main, poller, synced, asking, server, looking>>

\* A client connects; the connection waits to be accepted.
Connect(c) ==
    /\ conn[c] = "closed" /\ server = "accepting"
    /\ conn' = [conn EXCEPT ![c] = "backlog"]
    /\ ConnFrame /\ UNCHANGED <<shutdown, queue, held, counter, unseen, broadcasts, panics>>

\* The client closes the connection, or the response to a command cannot be written.
EndOfCommands(c) ==
    /\ conn[c] = "reading"
    /\ Close(c)
    /\ ConnFrame /\ UNCHANGED <<shutdown, queue, held, unseen, broadcasts, panics>>

\* `stop`
Stop(c) ==
    /\ conn[c] = "reading"
    /\ shutdown' = TRUE
    /\ Close(c)
    /\ ConnFrame /\ UNCHANGED <<queue, held, unseen, broadcasts, panics>>

\* broadcast_spend(): the transaction is broadcast, ...
Broadcast(c) ==
    /\ conn[c] = "reading" /\ broadcasts < MaxBroadcasts
    /\ broadcasts' = broadcasts + 1
    /\ unseen' = unseen \cup {c}
    /\ conn' = [conn EXCEPT ![c] = "sending"]
    /\ ConnFrame /\ UNCHANGED <<shutdown, queue, held, counter, panics>>

\* ... the poller is asked to poll, ...
Send(c) ==
    /\ conn[c] = "sending"
    /\ IF PollerGone THEN UNCHANGED queue
                     ELSE queue = <<>> /\ queue' = <<c>>
    /\ conn' = [conn EXCEPT ![c] = "receiving"]
    /\ ConnFrame /\ UNCHANGED <<shutdown, held, counter, unseen, broadcasts, panics>>

\* ... and the command returns as well when the other end of the signal is dropped.
Dropped(c) == c # asking /\ queue # <<c>>

Disconnected(c) ==
    /\ conn[c] = "receiving" /\ Dropped(c)
    /\ Responded(c)
    /\ ConnFrame /\ UNCHANGED <<shutdown, queue, held, unseen, broadcasts, panics>>

\* A command panics: the handler never gives its slot back.
HandlerPanics(c) ==
    /\ conn[c] = "reading" /\ panics < MaxPanics
    /\ panics' = panics + 1
    /\ conn' = [conn EXCEPT ![c] = "panicked"]
    /\ ConnFrame /\ UNCHANGED <<shutdown, queue, held, counter, unseen, broadcasts>>

-----------------------------------------------------------------------------
(* The accept loop, rpcserver_loop(). *)

ServerFrame == /\ UNCHANGED <<main, shutdown, poller, synced, asking, queue>>
               /\ UNCHANGED <<unseen, looking, broadcasts, panics>>

FreeSlot == counter < MaxConnections

Accept(c) ==
    /\ server = "accepting" /\ held = NoConn /\ ~shutdown
    /\ conn[c] = "backlog"
    /\ held' = c
    /\ conn' = [conn EXCEPT ![c] = "accepted"]
    /\ ServerFrame /\ UNCHANGED <<server, counter>>

\* The new handler looks at the flag before it reads.
SpawnHandler ==
    /\ held # NoConn /\ FreeSlot
    /\ held' = NoConn
    /\ IF shutdown
       THEN conn' = [conn EXCEPT ![held] = "closed"] /\ UNCHANGED counter
       ELSE conn' = [conn EXCEPT ![held] = "reading"] /\ counter' = counter + 1
    /\ ServerFrame /\ UNCHANGED server

\* The listener is dropped, and with it the connections nobody accepted.
ServerReturns ==
    /\ server = "accepting" /\ held = NoConn /\ shutdown
    /\ server' = "returned"
    /\ conn' = [c \in Conn |-> IF conn[c] = "backlog" THEN "closed" ELSE conn[c]]
    /\ ServerFrame /\ UNCHANGED <<held, counter>>

-----------------------------------------------------------------------------
(* The main thread. *)

MainFrame == /\ UNCHANGED <<poller, synced, asking, server, held, counter, conn>>
             /\ UNCHANGED <<unseen, looking, broadcasts, panics>>

\* is_alive()
NoticeEnd ==
    /\ main = "watching"
    /\ PollerGone \/ server = "returned"
    /\ main' = "shutting down"
    /\ MainFrame /\ UNCHANGED <<shutdown, queue>>

\* stop(): "The other end should never have hung up before this."
SendShutdown ==
    /\ main = "shutting down"
    /\ IF PollerGone
       THEN main' = "panicked" /\ UNCHANGED queue
       ELSE queue = <<>> /\ queue' = <<Shutdown>> /\ main' = "flagging"
    /\ MainFrame /\ UNCHANGED shutdown

SetFlag ==
    /\ main = "flagging"
    /\ shutdown' = TRUE
    /\ main' = "joining server"
    /\ MainFrame /\ UNCHANGED queue

JoinServer ==
    /\ main = "joining server" /\ server = "returned"
    /\ main' = "joining poller"
    /\ MainFrame /\ UNCHANGED <<shutdown, queue>>

JoinPoller ==
    /\ main = "joining poller" /\ PollerGone
    /\ main' = IF poller = "panicked" THEN "panicked" ELSE "exited"
    /\ MainFrame /\ UNCHANGED <<shutdown, queue>>

-----------------------------------------------------------------------------
PollerThread == Receive \/ Timeout \/ FinishPoll \/ Reply
HandlerThread(c) == Send(c) \/ Disconnected(c)
ServerThread == (\E c \in Conn : Accept(c)) \/ SpawnHandler \/ ServerReturns
MainThread == NoticeEnd \/ SendShutdown \/ SetFlag \/ JoinServer \/ JoinPoller
ClientOf(c) == Connect(c) \/ EndOfCommands(c) \/ Stop(c) \/ Broadcast(c)

DaemonNext ==
    /\ Running
    /\ \/ PollerThread \/ PollerPanics
       \/ \E c \in Conn : HandlerThread(c) \/ HandlerPanics(c) \/ ClientOf(c)
       \/ ServerThread
       \/ MainThread

\* Every thread goes on when it can.  Clients need not send or close anything.
CommandFairness ==
    /\ WF_daemonVars(Running /\ PollerThread)
    /\ \A c \in Conn : WF_daemonVars(Running /\ HandlerThread(c))

StopFairness ==
    /\ WF_daemonVars(Running /\ MainThread)
    /\ WF_daemonVars(Running /\ ServerThread)

DaemonSpec == DaemonInit /\ [][DaemonNext]_daemonVars

-----------------------------------------------------------------------------
\* A broadcast that returns because the poller said so is in the wallet: "Finally,
\* update our state with the changes from this transaction." (broadcast_spend), unless
\* the block chain is still syncing and no poll happens.
BroadcastRecorded ==
    [][\A c \in Conn : Reply /\ asking = c /\ synced => c \notin unseen]_daemonVars

\* The connections that hold a slot: those whose handler lives, or has panicked.
Handled == {c \in Conn : conn[c] \in {"reading", "sending", "receiving", "panicked"}}

\* No more than MaxConnections handlers live at a time, and a slot is taken for every
\* one of them: the accept loop is the only one to count up, the handlers count down.
SlotsCounted == counter = Cardinality(Handled) /\ counter <= MaxConnections

\* No handler waits for ever for the poller: a command that asked for a poll returns,
\* whatever the poller is doing when it is told to shut down or panics, and whether or
\* not the main thread notices (the process may end first).
CommandsReturn ==
    \A c \in Conn : conn[c] \in {"sending", "receiving"} ~>
        conn[c] \notin {"sending", "receiving"} \/ ~Running

\* `stop` ends the process, whatever clients and commands are doing, if the main thread
\* and the accept loop go on as well and nothing panicked.
StopStops ==
    StopFairness => (shutdown ~> main = "exited" \/ panics > 0)
=============================================================================
