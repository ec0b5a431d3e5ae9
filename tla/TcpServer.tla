------------------------------ MODULE TcpServer ------------------------------
(***************************************************************************)
(* The server (TcpServer.cpp, Acceptor.cpp, Socket.h): the base loop accepts *)
(* connections and deals them to the loops of EventLoopThreadPoll, on whose *)
(* threads they are established, read, written and closed.  A server without *)
(* other threads does it all on the base loop.                             *)
(*                                                                         *)
(* Connections are numbered as they are accepted (m_nextConnfd), so the loop *)
(* of connection c is given[c].  A connection owns a Socket and through it  *)
(* a descriptor, from accept until the last shared_ptr to the connection is *)
(* gone: that of m_connectionList, of the connectEstablished functor, of    *)
(* handleNewConn, or one that the user copied in a callback.                *)
(*                                                                         *)
(* The user calls send and shutDown, in callbacks and on threads of its own. *)
(* They change m_state and the registration of the channel, on which list,  *)
(* callbacks and lifetime depend; what they do to the bytes is in           *)
(* TcpConnection, so here it is open how much of a message a write takes.   *)
(* The functors of a loop run in order (FunctorQueue); those of send and    *)
(* shutDown touch one connection, so only their order for it is kept.  An   *)
(* assert that fails, an exception that nobody catches, a LOG_FATAL or a    *)
(* signal ends the program, and so may the use of a destroyed object.       *)
(***************************************************************************)
EXTENDS EventLoopThreadPoll

CONSTANTS Fds,        \* the descriptors that the process may have for connections
          NoFd,       \* -1, the sockfd_ of a Socket that was moved from
          Users,      \* threads of the user, none of them the connection's loop
          Talkers,    \* bound: the connections with messages, from the peer or the user
          MaxQueued   \* bound: send is not called with as many functors waiting

ASSUME NoFdAssumption == NoFd \notin Fds

VARIABLES
    listening,          \* the Acceptor's channel is registered for reading
    waiting,            \* connections in the backlog of the listening socket
    m_connCb, m_msgCb,  \* the callback is set
    accepting,          \* the base loop is in handleNewConn
    m_connectionList,
    kept,               \* connections to which the user holds a shared_ptr
    m_state,            \* of each connection
    m_events,           \* of its channel, which is registered with its loop for them
    fd,                 \* the sockfd_ of each connection's Socket
    openFds,            \* the descriptors open in the kernel
    functors,           \* connectEstablished of these connections, to run in each loop
    establishing,       \* loops in connectEstablished, before m_connCb
    mapped,             \* the fds in the m_channelMap of each loop
    calls,              \* functors of send and shutDown that wait, for each connection
    shutting,           \* users in shutDown, past its check
    shut,               \* history: connections on which shutDown stored kDisConnecting
    revived,            \* history: those where it did so over kDisconnected
    closedByPeer,
    seen,               \* history: the user's callbacks for each connection
    failed              \* what ended the program, or "none"

setupVars == <<listening, m_connCb, m_msgCb>>
holderVars == <<m_connectionList, kept>>
connVars == <<m_state, m_events>>
fdVars == <<fd, openFds>>
loopVars == <<functors, establishing, mapped>>
callVars == <<calls, shutting, shut, revived>>
serverVars == <<setupVars, waiting, accepting, holderVars, connVars, fdVars, loopVars,
                callVars, closedByPeer, seen, failed>>
svars == <<vars, serverVars>>

Conns == 1..MaxCalls
Accepted == 1..Len(given)
Latest == Len(given)
States == {"none", "kConnecting", "kConnected", "kDisConnecting", "kDisconnected"}
Callbacks == [thread : LoopIds, call : {"established", "accepted", "message", "closed"},
              up : BOOLEAN]
Calls == {"sendInLoop", "shutDownInLoop"}
SetupEnds == {"construct", "start", "deleted loop"}
Ends == {"none", "accept", "empty callback", "not in loop thread", "erase", "state",
         "fd in map", "destructor", "substr throws", "retrieve assert", "SIGPIPE",
         "stale functor", "stale event"} \cup SetupEnds

EstablishPending(c) == \E l \in LoopIds : \E i \in DOMAIN functors[l] : functors[l][i] = c

\* connectEstablished of c has begun, and is to call m_connCb.
Establishing(c) == \E l \in establishing : functors[l] # << >> /\ Head(functors[l]) = c

STypeOK == /\ TypeOK
           /\ listening \in BOOLEAN /\ waiting \in 0..MaxCalls /\ Latest \in 0..MaxCalls
           /\ m_connCb \in BOOLEAN /\ m_msgCb \in BOOLEAN
           /\ accepting \in BOOLEAN
           /\ m_connectionList \subseteq Accepted /\ kept \subseteq Accepted
           /\ m_state \in [Conns -> States]
           /\ m_events \in [Conns -> SUBSET {"IN", "OUT"}]
           /\ closedByPeer \subseteq Accepted
           /\ fd \in [Conns -> Fds \cup {NoFd}]
           /\ openFds \subseteq Fds
           /\ functors \in [LoopIds -> Seq(Conns)]
           /\ establishing \subseteq LoopIds
           /\ mapped \in [LoopIds -> SUBSET Fds]
           /\ calls \in [Conns -> Seq(Calls)]
           /\ shutting \subseteq Users \X Accepted
           /\ shut \subseteq Accepted /\ revived \subseteq shut
           /\ seen \in [Conns -> Seq(Callbacks)]
           /\ failed \in Ends
           /\ \A c \in Accepted :
                  m_state[c] = "kConnecting" <=> EstablishPending(c) /\ ~Establishing(c)

SInit == /\ Init
         /\ listening = FALSE /\ waiting = 0
         /\ m_connCb = FALSE /\ m_msgCb = FALSE
         /\ accepting = FALSE
         /\ m_connectionList = {} /\ kept = {}
         /\ m_state = [c \in Conns |-> "none"]
         /\ m_events = [c \in Conns |-> {}]
         /\ closedByPeer = {}
         /\ fd = [c \in Conns |-> NoFd] /\ openFds = {}
         /\ functors = [l \in LoopIds |-> << >>]
         /\ establishing = {}
         /\ mapped = [l \in LoopIds |-> {}]
         /\ calls = [c \in Conns |-> << >>]
         /\ shutting = {} /\ shut = {} /\ revived = {}
         /\ seen = [c \in Conns |-> << >>]
         /\ failed = "none"

Running == failed = "none"
Ready == Running /\ listening /\ ~m_started     \* constructed, and not in start()
BaseIdle == m_started /\ ~accepting

\* The thread of a loop is free to handle an event or a functor.
LoopIdle(l) == l \notin establishing /\ (l = BaseLoop => BaseIdle)

-----------------------------------------------------------------------------
(* Who holds a connection, and what its user sees. *)

Held(c) == \/ c \in m_connectionList \cup kept
           \/ EstablishPending(c)
           \/ accepting /\ c = Latest

\* ~Socket of the connections that nobody holds after the step, and of the
\* temporary in Acceptor::handleRead, whose sockfd_ is given.
CloseFds(temporary) ==
    /\ fd' = [c \in Conns |-> IF Held(c)' THEN fd[c] ELSE NoFd]
    /\ openFds' = openFds \ ({fd[c] : c \in {d \in Conns : ~Held(d)'}} \cup {temporary})

\* The callback of the user gets a shared_ptr, which it may copy.
MayKeep(c) == kept' \in {kept, kept \cup {c}}

\* A callback on the thread of loop l, which may ask connected().
Saw(c, l, call, state) ==
    seen' = [seen EXCEPT ![c] = Append(@, [thread |-> l, call |-> call,
                                           up |-> state = "kConnected"])]

-----------------------------------------------------------------------------
(* Setting up and start(). *)

EndsInSetup(end) ==
    /\ failed' = end
    /\ UNCHANGED <<vars, setupVars, waiting, accepting, holderVars, connVars, fdVars,
                   loopVars, callVars, closedByPeer, seen>>

\* The constructors, up to enableReading of the Acceptor.
Construct ==
    /\ Running /\ ~listening /\ ~m_started
    /\ listening' = TRUE
    /\ UNCHANGED <<vars, m_connCb, m_msgCb, waiting, accepting, holderVars, connVars,
                   fdVars, loopVars, callVars, closedByPeer, seen, failed>>

\* LOG_SYSFATAL or abort(): epoll_create1, timerfd_create or eventfd of the base loop
\* fails, or its thread has a loop already; or socket, bind or listen.
ConstructAborts == Running /\ ~listening /\ ~m_started /\ EndsInSetup("construct")

\* "call before start", as the others here.
ServerSetThreadNum(n) == Ready /\ setThreadNum(n) /\ UNCHANGED serverVars

setCallbacks ==
    /\ Ready
    /\ \/ m_connCb' = TRUE /\ UNCHANGED m_msgCb
       \/ m_msgCb' = TRUE /\ UNCHANGED m_connCb
    /\ UNCHANGED <<vars, listening, waiting, accepting, holderVars, connVars, fdVars,
                   loopVars, callVars, closedByPeer, seen, failed>>

\* loop() of the base loop does not return: nobody can quit it.
ServerStart == Ready /\ start /\ UNCHANGED serverVars

\* A further thread cannot be created (std::system_error), or its loop cannot.
StartFails == Ready /\ m_threadNum > 0 /\ EndsInSetup("start")

\* ~TcpServer deletes m_loop, and ~Acceptor calls into it afterwards.
Destroy == Ready /\ EndsInSetup("deleted loop")

-----------------------------------------------------------------------------
(* The Acceptor. *)

ClientArrives ==
    /\ Running /\ listening
    /\ waiting + Len(given) < MaxCalls
    /\ waiting' = waiting + 1
    /\ UNCHANGED <<vars, setupVars, accepting, holderVars, connVars, fdVars, loopVars,
                   callVars, closedByPeer, seen, failed>>

AcceptReady == Running /\ LoopIdle(BaseLoop) /\ listening /\ waiting > 0

\* The descriptor that accept4 makes, in the Socket of connection c.
NewSocket(c) == \E new \in Fds \ openFds : /\ fd' = [fd EXCEPT ![c] = new]
                                           /\ openFds' = openFds \cup {new}

\* Acceptor::handleRead and handleNewConn up to runInLoop.  On the base loop that
\* is a call, which goes before anything else the thread does.
Accept ==
    /\ AcceptReady
    /\ getNextLoop
    /\ waiting' = waiting - 1
    /\ accepting' = TRUE
    /\ LET c == Len(given) + 1
           l == given'[c]
       IN /\ m_connectionList' = m_connectionList \cup {c}
          /\ m_state' = [m_state EXCEPT ![c] = "kConnecting"]
          /\ functors' = [functors EXCEPT ![l] = Append(@, c)]
          /\ NewSocket(c)
    /\ UNCHANGED <<setupVars, kept, m_events, establishing, mapped, callVars, closedByPeer,
                   seen, failed>>

\* The Acceptor goes on listening after an error.
ListeningAfterError_Off == FALSE
ListeningAfterError == listening

\* EMFILE leaves the client in the backlog, ECONNABORTED and its like do not;
\* ENFILE, ENOBUFS and the rest are LOG_FATAL.
AcceptFails ==
    /\ AcceptReady
    /\ listening' = ListeningAfterError
    /\ \/ openFds = Fds /\ UNCHANGED <<waiting, failed>>
       \/ waiting' = waiting - 1 /\ UNCHANGED failed
       \/ failed' = "accept" /\ UNCHANGED waiting
    /\ UNCHANGED <<vars, m_connCb, m_msgCb, accepting, holderVars, connVars, fdVars,
                   loopVars, callVars, closedByPeer, seen>>

\* What Socket(Socket &&) leaves in the temporary that Acceptor::handleRead made.
MovedFrom_Copied == fd[Latest]
MovedFrom == NoFd

\* The end of handleNewConn: m_connCb once more, if it is set, on the base loop's
\* thread; then the shared_ptr and the temporary Socket are gone.
CallConnCb ==
    /\ Running /\ accepting
    /\ functors[BaseLoop] = << >>
    /\ accepting' = FALSE
    /\ IF m_connCb
         THEN Saw(Latest, BaseLoop, "accepted", m_state[Latest]) /\ MayKeep(Latest)
         ELSE UNCHANGED <<seen, kept>>
    /\ UNCHANGED <<vars, setupVars, waiting, m_connectionList, connVars, loopVars, callVars,
                   closedByPeer, failed>>
    /\ CloseFds(MovedFrom)

-----------------------------------------------------------------------------
(* The connections, each on the thread of its loop. *)

EstablishedState_Kept(c) == m_state[c]
EstablishedState(c) == "kConnected"

\* Its own assert, and that of updateChannel on a new fd.
EstablishEnds(c, l) == IF m_state[c] # "kConnecting" THEN "state"
                       ELSE IF fd[c] \in mapped[l] THEN "fd in map" ELSE "none"

\* connectEstablished up to enableReading.
connectEstablished(l) ==
    /\ Running /\ functors[l] # << >> /\ l \notin establishing
    /\ LET c == Head(functors[l]) IN
          /\ failed' = EstablishEnds(c, l)
          /\ m_state' = [m_state EXCEPT ![c] = EstablishedState(c)]
          /\ m_events' = [m_events EXCEPT ![c] = {"IN"}]
          /\ mapped' = [mapped EXCEPT ![l] = @ \cup {fd[c]}]
    /\ establishing' = establishing \cup {l}
    /\ UNCHANGED <<vars, setupVars, waiting, accepting, holderVars, fdVars, functors, callVars,
                   closedByPeer, seen>>

\* The rest of it.  m_connCb is called even if it is empty, as setConnectionCallBack
\* made it when the server has none.
EstablishedCallback(l) ==
    /\ Running /\ l \in establishing
    /\ LET c == Head(functors[l]) IN
          IF m_connCb
            THEN /\ functors' = [functors EXCEPT ![l] = Tail(@)]
                 /\ establishing' = establishing \ {l}
                 /\ Saw(c, l, "established", m_state[c])
                 /\ MayKeep(c)
                 /\ UNCHANGED failed
            ELSE failed' = "empty callback" /\ UNCHANGED <<functors, establishing, seen, kept>>
    /\ UNCHANGED <<vars, setupVars, waiting, accepting, m_connectionList, connVars, mapped,
                   callVars, closedByPeer>>
    /\ CloseFds(NoFd)

\* Events come while the channel is registered.
Registered_UntilDestroyed(c) == fd[c] # NoFd
Registered(c) == m_events[c] # {}
Reads_WhileListed(c) == c \in m_connectionList
Reads(c) == "IN" \in m_events[c]

\* handleRead; m_msgCallBack is called even if it is empty.  Bound: one message of each
\* Talker.
handleMessage(c) ==
    /\ Running /\ Reads(c) /\ LoopIdle(given[c])
    /\ c \in Talkers /\ \A i \in DOMAIN seen[c] : seen[c][i].call # "message"
    /\ IF m_msgCb
         THEN /\ Saw(c, given[c], "message", m_state[c])
              /\ MayKeep(c)
              /\ UNCHANGED failed
         ELSE failed' = "empty callback" /\ UNCHANGED <<seen, kept>>
    /\ UNCHANGED <<vars, setupVars, waiting, accepting, m_connectionList, connVars, fdVars,
                   loopVars, callVars, closedByPeer>>

ListAfterClose_Kept(c) == m_connectionList
ListAfterClose(c) == m_connectionList \ {c}

\* isInLoopThread() of the base loop, asked on the thread of the connection's loop.
InLoopThread(c) == given[c] = BaseLoop

\* The asserts of removeConnection want the thread of the base loop and a connection
\* that is listed.  If the channel was ready for writing too, handleEvent goes on
\* with it, although the connection may be gone.
CloseEnds(c) ==
    IF ~InLoopThread(c) THEN {"not in loop thread"}
    ELSE IF c \notin m_connectionList THEN {"erase"}
    ELSE IF "OUT" \in m_events[c] /\ ~Held(c)' THEN {"none", "stale event"}
    ELSE {"none"}

\* handleClose with removeConnection.  The entry in m_channelMap stays.
handleClose(c) ==
    /\ Running /\ Registered(c) /\ LoopIdle(given[c])
    /\ c \in closedByPeer
    /\ m_state' = [m_state EXCEPT ![c] = "kDisconnected"]
    /\ m_events' = [m_events EXCEPT ![c] = {}]
    /\ Saw(c, given[c], "closed", m_state'[c])
    /\ MayKeep(c)
    /\ m_connectionList' = IF InLoopThread(c) THEN ListAfterClose(c) ELSE m_connectionList
    /\ UNCHANGED <<vars, setupVars, waiting, accepting, loopVars, callVars, closedByPeer>>
    /\ CloseFds(NoFd)
    /\ failed' \in CloseEnds(c)

PeerCloses(c) ==
    /\ Running /\ c \in Accepted \ closedByPeer
    /\ closedByPeer' = closedByPeer \cup {c}
    /\ UNCHANGED <<vars, setupVars, waiting, accepting, holderVars, connVars, fdVars,
                   loopVars, callVars, seen, failed>>

\* The user lets go of its shared_ptr, on any thread that is not in a call of the
\* connection: the last one closes the fd.  ~TcpConnection asserts that the
\* connection is closed, and only here it may not be (FdsOwned).
UserDrops(c) ==
    /\ Running /\ c \in kept
    /\ \A u \in Users : <<u, c>> \notin shutting
    /\ kept' = kept \ {c}
    /\ UNCHANGED <<vars, setupVars, waiting, accepting, m_connectionList, connVars, loopVars,
                   callVars, closedByPeer, seen>>
    /\ CloseFds(NoFd)
    /\ failed' = IF Held(c)' \/ m_state[c] = "kDisconnected" THEN "none" ELSE "destructor"

-----------------------------------------------------------------------------
(* send and shutDown, in callbacks on the loop's thread, where sendInLoop and *)
(* shutDownInLoop are calls, and on other threads, where they are functors.  *)

\* write may fail with EPIPE, which raises SIGPIPE: nothing ignores that.
SocketShut(c) == c \in closedByPeer \cup shut

\* The write takes all of the message, or fails; or it takes a part and the channel is
\* enabled for writing; or none, as the socket or earlier bytes do not let it, and
\* substr(n - 1, remain) throws.
sendInLoop(c) ==
    \/ m_state[c] = "kDisconnected" /\ UNCHANGED <<m_events, failed>>
    \/ /\ m_state[c] # "kDisconnected" /\ "OUT" \notin m_events[c]
       /\ \/ UNCHANGED <<m_events, failed>>
          \/ m_events' = [m_events EXCEPT ![c] = @ \cup {"OUT"}] /\ UNCHANGED failed
          \/ SocketShut(c) /\ failed' = "SIGPIPE" /\ UNCHANGED m_events
    \/ m_state[c] # "kDisconnected" /\ failed' = "substr throws" /\ UNCHANGED m_events

\* It sends a FIN or leaves it to handleWrite: the peer is not followed that far here.
shutDownInLoop(c) == UNCHANGED <<m_events, failed>>

\* In a callback of the connection, or with a copy from one (the bound on messages is
\* one on seen).
InCallback(c) == /\ Running /\ c \in Talkers /\ m_state[c] = "kConnected"
                 /\ given[c] \notin establishing

LoopSend(c) ==
    /\ InCallback(c)
    /\ sendInLoop(c)
    /\ UNCHANGED <<vars, setupVars, waiting, accepting, holderVars, m_state, fdVars, loopVars,
                   callVars, closedByPeer, seen>>

LoopShutDown(c) ==
    /\ InCallback(c)
    /\ m_state' = [m_state EXCEPT ![c] = "kDisConnecting"]
    /\ shut' = shut \cup {c}
    /\ shutDownInLoop(c)
    /\ UNCHANGED <<vars, setupVars, waiting, accepting, holderVars, fdVars, loopVars, calls,
                   shutting, revived, closedByPeer, seen>>

\* A user of another thread has checked m_state; nothing is lost if it queues the
\* functor at once.
Send(c) ==
    /\ Running /\ c \in kept \cap Talkers /\ m_state[c] = "kConnected"
    /\ Len(calls[c]) < MaxQueued
    /\ calls' = [calls EXCEPT ![c] = Append(@, "sendInLoop")]
    /\ UNCHANGED <<vars, setupVars, waiting, accepting, holderVars, connVars, fdVars,
                   loopVars, shutting, shut, revived, closedByPeer, seen, failed>>

ShutDownChecks(u, c) ==
    /\ Running /\ c \in kept \cap Talkers /\ m_state[c] = "kConnected"
    /\ \A d \in Accepted : <<u, d>> \notin shutting
    /\ shutting' = shutting \cup {<<u, c>>}
    /\ UNCHANGED <<vars, setupVars, waiting, accepting, holderVars, connVars, fdVars,
                   loopVars, calls, shut, revived, closedByPeer, seen, failed>>

\* Whatever m_state has become meanwhile.
ShutDownStores(u, c) ==
    /\ Running /\ <<u, c>> \in shutting
    /\ m_state' = [m_state EXCEPT ![c] = "kDisConnecting"]
    /\ shut' = shut \cup {c}
    /\ revived' = IF m_state[c] = "kDisconnected" THEN revived \cup {c} ELSE revived
    /\ calls' = [calls EXCEPT ![c] = Append(@, "shutDownInLoop")]
    /\ shutting' = shutting \ {<<u, c>>}
    /\ UNCHANGED <<vars, setupVars, waiting, accepting, holderVars, m_events, fdVars, loopVars,
                   closedByPeer, seen, failed>>

\* The functor has a raw pointer to the connection.
CallRuns(c) ==
    /\ Running /\ calls[c] # << >> /\ LoopIdle(given[c])
    /\ calls' = [calls EXCEPT ![c] = Tail(@)]
    /\ \/ ~Held(c) /\ failed' = "stale functor" /\ UNCHANGED m_events
       \/ Held(c) /\ Head(calls[c]) = "sendInLoop" /\ sendInLoop(c)
       \/ Held(c) /\ Head(calls[c]) = "shutDownInLoop" /\ shutDownInLoop(c)
    /\ UNCHANGED <<vars, setupVars, waiting, accepting, holderVars, m_state, fdVars, loopVars,
                   shutting, shut, revived, closedByPeer, seen>>

\* Its write comes back with nothing, and the socket is shut down; or with a part, and
\* retrieve finds the buffer empty (TcpConnection).
handleWrite(c) ==
    /\ Running /\ "OUT" \in m_events[c] /\ LoopIdle(given[c])
    /\ failed' \in {"none", "retrieve assert", "SIGPIPE"}
    /\ UNCHANGED <<vars, setupVars, waiting, accepting, holderVars, connVars, fdVars,
                   loopVars, callVars, closedByPeer, seen>>

TalkStep(c) == \/ LoopSend(c) \/ LoopShutDown(c) \/ Send(c) \/ CallRuns(c) \/ handleWrite(c)
               \/ \E u \in Users : ShutDownChecks(u, c) \/ ShutDownStores(u, c)

-----------------------------------------------------------------------------
SNext == \/ Construct \/ ConstructAborts \/ setCallbacks \/ ServerStart \/ StartFails
         \/ Destroy
         \/ \E n \in 0..MaxThreadNum : ServerSetThreadNum(n)
         \/ ClientArrives \/ Accept \/ AcceptFails \/ CallConnCb
         \/ \E l \in LoopIds : connectEstablished(l) \/ EstablishedCallback(l)
         \/ \E c \in Accepted : \/ handleMessage(c) \/ handleClose(c) \/ PeerCloses(c)
                                \/ UserDrops(c) \/ TalkStep(c)

SSpec == SInit /\ [][SNext]_svars

\* Callbacks return, and the loops go on: EventLoop's QueuedFunctorRuns, and a
\* closed socket or a backlog stays readable.  A busy base loop gets to each
\* between two connections.  The user need not do anything.
SFairSpec == /\ SSpec
             /\ WF_svars(CallConnCb)
             /\ SF_svars(Accept)
             /\ \A l \in LoopIds : /\ WF_svars(connectEstablished(l))
                                   /\ WF_svars(EstablishedCallback(l))
             /\ \A c \in Conns : SF_svars(c \in Accepted /\ Reads(c) /\ handleClose(c))

-----------------------------------------------------------------------------
(* Properties. *)

\* m_connectionList is what keeps a connection alive whose raw channel pointer the
\* kernel has: a connection is listed from its accept, and from then on exactly as
\* long as its channel is registered for reading.  A channel that is registered at
\* all, also by a sendInLoop after the connection was closed and a shutDown took it
\* back to kDisConnecting, belongs to a connection that somebody holds.
ListMatches ==
    Running => \A c \in Accepted :
        /\ c \in m_connectionList <=> m_state[c] = "kConnecting" \/ "IN" \in m_events[c]
        /\ m_events[c] # {} => Held(c)

Before(c, i, call) == \E j \in 1..(i - 1) : seen[c][j].call = call

\* On the thread of its loop a user sees a connection established before messages and
\* the close of it, and after the close only a second one, of a connection that a
\* shutDown revived.  Where it is not connected() before its close, the user shut it
\* down, or the base loop called m_connCb first while another loop is to establish it.
UserView ==
    \A c \in Accepted : \A i \in DOMAIN seen[c] :
        LET view == seen[c][i] IN
        /\ view.call \in {"message", "closed"} => Before(c, i, "established")
        /\ Before(c, i, "closed") /\ view.thread = given[c] =>
               view.call = "closed" /\ c \in revived
        /\ view.up \/ view.call = "closed" \/ c \in shut
           \/ (view.call = "accepted" /\ view.thread # given[c] /\ ~Before(c, i, "established"))

\* Through the moves of the Socket, from accept to the map, and whoever drops
\* the last shared_ptr: every open descriptor has one owner, a connection that
\* somebody holds has its descriptor, and one that nobody holds was closed
\* before (the assert in ~TcpConnection), or the program ended.
FdsOwned ==
    Running => /\ openFds = {fd[c] : c \in {d \in Conns : fd[d] # NoFd}}
               /\ \A c, d \in Conns : fd[c] = fd[d] /\ fd[c] # NoFd => c = d
               /\ \A c \in Accepted : IF Held(c) THEN fd[c] # NoFd
                                      ELSE fd[c] = NoFd /\ m_state[c] = "kDisconnected"

\* A connection of the same loop gave its descriptor back.
Reused(c) == \E d \in Accepted \ {c} : given[d] = given[c] /\ fd[d] = NoFd

\* The assert of connectEstablished never fails; those of the erase and of
\* ~TcpConnection only after a shutDown stored kDisConnecting over kDisconnected;
\* that on a new fd only for one used again, and that on the thread only with further
\* loops.  A functor or an event meets a destroyed connection only after the
\* connection was closed.  The rest is the choice of the user or of the system, and
\* what TcpConnection shows of a send.
KnownEnds ==
    /\ failed # "state"
    /\ failed \in {"erase", "destructor"} => revived # {}
    /\ failed = "fd in map" => \E c \in Accepted : Reused(c)
    /\ failed = "not in loop thread" => Size > 0
    /\ failed = "empty callback" => ~m_connCb \/ ~m_msgCb
    /\ failed \in {"stale functor", "stale event"} =>
           \E c \in Accepted : ~Held(c) /\ m_state[c] = "kDisconnected"
    /\ ~Running => (failed \in SetupEnds <=> ~m_started)

\* The descriptors of the connections that their peers closed go back to the kernel:
\* again and again there is none left, but for connections that the user keeps, unless
\* the program ends.
FdReturned == []<>(\A c \in closedByPeer : fd[c] = NoFd \/ c \in kept \/ ~Running)

\* Out of descriptors the Acceptor refuses nobody for good: if one becomes free
\* again and again, every client in the backlog is served.
ClientAccepted ==
    []<>(openFds # Fds \/ ~Running) =>
        (waiting > 0 /\ m_started ~> waiting = 0 \/ ~Running)

\* m_loop->assertInLoopThread() in removeConnection.
RemovedInLoopThread == failed # "not in loop thread"

-----------------------------------------------------------------------------
(* What makes them inductive, while the program runs.                        *)

\* A connection that was not accepted yet is nowhere.
Unaccepted == \A c \in Conns : /\ c \in Accepted <=> m_state[c] # "none"
                               /\ c \notin Accepted =>
                                      /\ fd[c] = NoFd /\ m_events[c] = {}
                                      /\ seen[c] = << >> /\ calls[c] = << >>

\* The functors of a loop are of its own connections, oldest first.
PendingAtHome ==
    /\ \A l \in LoopIds : \A i \in DOMAIN functors[l] :
           /\ functors[l][i] \in Accepted /\ given[functors[l][i]] = l
           /\ \A j \in DOMAIN functors[l] : i < j => functors[l][i] < functors[l][j]
    /\ \A l \in establishing : functors[l] # << >>

\* In handleNewConn the base loop cannot close the connection it has just made.
AcceptingLatest ==
    accepting => /\ Latest > 0
                 /\ given[Latest] = BaseLoop => Latest \in m_connectionList

\* An fd in a map is that of a connection of the loop, or one of the loop's is gone.
MappedBy ==
    \A l \in LoopIds : \A f \in mapped[l] : \E c \in Accepted :
        given[c] = l /\ m_state[c] # "kConnecting" /\ fd[c] \in {f, NoFd}

\* What was closed is kDisconnected and not registered, but for a shutDown that came
\* too late; with further loops the first close ends the program.
StateAndList ==
    \A c \in Accepted :
        /\ m_state[c] = "kConnecting" => m_events[c] = {} /\ calls[c] = << >>
        /\ m_state[c] = "kDisConnecting" => c \in shut
        /\ IF c \in m_connectionList THEN m_state[c] # "kDisconnected"
           ELSE /\ m_state[c] = "kDisconnected" \/ (m_state[c] = "kDisConnecting" /\ c \in revived)
                /\ m_events[c] # {} => m_state[c] # "kDisconnected"
                /\ given[c] = BaseLoop

\* A user in shutDown has the connection.
ShuttingHolds == \A p \in shutting : p[2] \in kept /\ m_state[p[2]] # "kConnecting"

\* What a user saw of a connection goes with how far it came.
Called(c, call) == \E i \in DOMAIN seen[c] : seen[c][i].call = call
SeenByState ==
    \A c \in Accepted :
        /\ EstablishPending(c) => ~Called(c, "established") /\ c \in m_connectionList
        /\ ~EstablishPending(c) => Called(c, "established")
        /\ c \in m_connectionList => ~Called(c, "closed")

SInv == /\ STypeOK /\ IInv /\ ListMatches /\ UserView /\ FdsOwned /\ KnownEnds
        /\ Running => /\ Unaccepted /\ PendingAtHome /\ AcceptingLatest /\ MappedBy
                      /\ StateAndList /\ ShuttingHolds /\ SeenByState

=============================================================================
