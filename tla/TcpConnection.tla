---------------------------- MODULE TcpConnection ----------------------------
(***************************************************************************)
(* One connection (TcpConnection.cpp): its loop thread, which handles the   *)
(* events of its channel and runs its functors, threads of the user that    *)
(* hold a shared_ptr and call send and shutDown, and the peer.  The object  *)
(* is destroyed with its last shared_ptr: that of m_connectionList, of the *)
(* users, of the connectEstablished functor.  The functors of send and      *)
(* shutDown hold a raw pointer.                                            *)
(*                                                                         *)
(* Abstracted: the bytes of a message are numbered, what comes in is not    *)
(* looked at.  functors are those of this connection in the queue of its   *)
(* loop (FunctorQueue); the order of its events and functors is EventLoop's.*)
(* The loop is that of the server, see TcpServer for others.  muduo's      *)
(* Buffer and the socket are modelled from how they are used.              *)
(***************************************************************************)
EXTENDS Integers, Sequences, FiniteSets

CONSTANTS Users,        \* threads other than the loop's
          Loop,         \* the loop thread, when its callbacks call send or shutDown
          MsgLen,       \* the length of a message
          MaxSends      \* bound: the calls of send, of all callers

ASSUME ConnectionAssumption == /\ Loop \notin Users
                               /\ MsgLen \in Nat \ {0}
                               /\ MaxSends \in Nat

Callers == Users \cup {Loop}
States == {"kConnecting", "kConnected", "kDisConnecting", "kDisconnected"}
Messages == Callers \X (1..MaxSends)
Bytes == Messages \X (1..MsgLen)
Functors == [op : {"connectEstablished"}]
            \cup [op : {"sendInLoop"}, msg : Messages]
            \cup [op : {"shutDownInLoop"}, by : Users]

VARIABLES
    m_state,
    inList,       \* m_connectionList holds the connection
    holds,        \* the users that hold a shared_ptr
    upc,          \* where each user is in send or shutDown
    sends,        \* how often each caller's send went past its check
    functors,
    events,       \* m_events of the channel, registered with the Epoller
    revents,      \* what handleEvent has still to dispatch
    m_outBuffer,
    wire,         \* bytes the kernel took, in order
    finSent,      \* shutdown(SHUT_WR) was called
    peer,         \* what the peer did: "open", "fin", "rst"; "eof" after the error was read
    inbound,      \* bytes of the peer wait to be read
    outcome,      \* "ok", or what ended the program
    given,        \* history: the bytes of all messages that sendInLoop did not drop
    partial,      \* history: a write took less than all of a message
    revived,      \* history: shutDown stored kDisConnecting over kDisconnected
    shutBy,       \* history: the callers whose shutDown stored kDisConnecting
    hasty         \* history: users that let go while their functors were queued

object == <<m_state, inList, holds>>
channel == <<events, revents>>
output == <<m_outBuffer, wire, finSent, given, partial>>
remote == <<peer, inbound>>
history == <<revived, shutBy, hasty>>
vars == <<object, upc, sends, functors, channel, output, remote, outcome, history>>

\* handleNewConn made the connection, and its callback gave it to the users.
Init == /\ m_state = "kConnecting" /\ inList = TRUE /\ holds = Users
        /\ upc = [u \in Users |-> "out"]
        /\ sends = [c \in Callers |-> 0]
        /\ functors = <<[op |-> "connectEstablished"]>>
        /\ events = {} /\ revents = {}
        /\ m_outBuffer = <<>> /\ wire = <<>> /\ given = <<>>
        /\ finSent = FALSE /\ partial = FALSE /\ revived = FALSE
        /\ peer = "open" /\ inbound = FALSE
        /\ outcome = "ok"
        /\ shutBy = {} /\ hasty = {}

EstablishQueued == functors # <<>> /\ Head(functors).op = "connectEstablished"

TypeOK == /\ m_state \in States /\ inList \in BOOLEAN /\ holds \subseteq Users
          /\ upc \in [Users -> {"out", "send", "store", "queue"}]
          /\ sends \in [Callers -> 0..MaxSends]
          /\ functors \in Seq(Functors)
          /\ events \subseteq {"IN", "OUT"} /\ revents \subseteq {"HUP", "IN", "OUT"}
          /\ m_outBuffer \in Seq(Bytes) /\ wire \in Seq(Bytes) /\ given \in Seq(Bytes)
          /\ finSent \in BOOLEAN /\ partial \in BOOLEAN /\ revived \in BOOLEAN
          /\ peer \in {"open", "fin", "rst", "eof"}
          /\ inbound \in BOOLEAN
          /\ outcome \in {"ok", "state assert", "erase assert", "retrieve assert",
                          "substr throws", "SIGPIPE", "stale functor", "stale event"}
          /\ shutBy \subseteq Callers /\ hasty \subseteq Users
          /\ m_state = "kConnecting" <=> EstablishQueued

Running == outcome = "ok"
Alive_ListOnly == inList
Alive == inList \/ holds # {} \/ EstablishQueued

Sent == {m \in Messages : m[2] <= sends[m[1]]}

ByteSeq(m) == [i \in 1..MsgLen |-> <<m, i>>]

\* ~TcpConnection runs in the step that gives up the last shared_ptr; state is
\* m_state after the step.
DestroyedBy(state) == IF Alive' \/ state = "kDisconnected" THEN "ok" ELSE "state assert"

-----------------------------------------------------------------------------
(* The output path, on the loop thread. *)

\* What is kept of a message when n of its bytes went out: msg.substr(n - 1, remain)
Kept(m, n) == SubSeq(ByteSeq(m), n, MsgLen - 1)

\* Otherwise write fails, with EPIPE or ECONNRESET.  EPIPE comes with SIGPIPE, which
\* ends the program: nothing in the repository ignores or blocks it.
SocketOpen == ~finSent /\ peer \in {"open", "fin"}
WriteFails == ~SocketOpen /\ outcome' \in {outcome, "SIGPIPE"}

NothingWaits == "OUT" \notin events /\ m_outBuffer = <<>>

\* The write took n bytes (0 with EWOULDBLOCK), or was not tried as earlier
\* bytes wait.
SendTakes(m, n) ==
    /\ IF NothingWaits THEN SocketOpen ELSE n = 0
    /\ given' = given \o ByteSeq(m)
    /\ wire' = wire \o SubSeq(ByteSeq(m), 1, n)
    /\ partial' = (partial \/ n < MsgLen)
    /\ IF n = 0
         THEN outcome' = "substr throws" /\ UNCHANGED <<m_outBuffer, events>>
         ELSE /\ m_outBuffer' = IF n < MsgLen THEN m_outBuffer \o Kept(m, n) ELSE m_outBuffer
              /\ events' = IF n < MsgLen THEN events \cup {"OUT"} ELSE events
              /\ UNCHANGED outcome
    /\ UNCHANGED finSent

SendFaults ==
    /\ NothingWaits /\ WriteFails
    /\ UNCHANGED <<output, events>>

sendInLoop(m) ==
    IF m_state = "kDisconnected"
      THEN UNCHANGED <<output, events, outcome>>
      ELSE SendFaults \/ \E n \in 0..MsgLen : SendTakes(m, n)

ShutsNow_WhileWriting == "OUT" \in events
ShutsNow == "OUT" \notin events

shutDownInLoop ==
    /\ finSent' = (finSent \/ ShutsNow)
    /\ UNCHANGED <<m_outBuffer, wire, given, partial, events, outcome>>

-----------------------------------------------------------------------------
(* send and shutDown, on the threads of the users.  The check of m_state, the *)
(* store and the queueing are steps of their own.                             *)

Stays == UNCHANGED <<object, channel, output, remote, outcome>>

Queued_First(f) == <<f>> \o functors
Queued(f) == Append(functors, f)

SendChecks(u) ==
    /\ Running /\ u \in holds /\ upc[u] = "out"
    /\ m_state = "kConnected" /\ Cardinality(Sent) < MaxSends
    /\ upc' = [upc EXCEPT ![u] = "send"]
    /\ sends' = [sends EXCEPT ![u] = @ + 1]
    /\ UNCHANGED <<functors, history>> /\ Stays

SendQueues(u) ==
    /\ Running /\ upc[u] = "send"
    /\ upc' = [upc EXCEPT ![u] = "out"]
    /\ functors' = Queued([op |-> "sendInLoop", msg |-> <<u, sends[u]>>])
    /\ UNCHANGED <<sends, history>> /\ Stays

ShutDownChecks(u) ==
    /\ Running /\ u \in holds /\ upc[u] = "out"
    /\ m_state = "kConnected"
    /\ upc' = [upc EXCEPT ![u] = "store"]
    /\ UNCHANGED <<sends, functors, history>> /\ Stays

ShutDownStores(u) ==
    /\ Running /\ upc[u] = "store"
    /\ m_state' = "kDisConnecting"
    /\ revived' = (revived \/ m_state = "kDisconnected")
    /\ shutBy' = shutBy \cup {u}
    /\ upc' = [upc EXCEPT ![u] = "queue"]
    /\ UNCHANGED <<inList, holds, sends, functors, channel, output, remote, outcome, hasty>>

ShutDownQueues(u) ==
    /\ Running /\ upc[u] = "queue"
    /\ upc' = [upc EXCEPT ![u] = "out"]
    /\ functors' = Queued([op |-> "shutDownInLoop", by |-> u])
    /\ UNCHANGED <<sends, history>> /\ Stays

OwnFunctor(u, f) == \/ f.op = "sendInLoop" /\ f.msg[1] = u
                    \/ f.op = "shutDownInLoop" /\ f.by = u

\* The user lets go of its shared_ptr, maybe of the last one.
Drop(u) ==
    /\ Running /\ u \in holds /\ upc[u] = "out"
    /\ holds' = holds \ {u}
    /\ hasty' = IF \E i \in DOMAIN functors : OwnFunctor(u, functors[i])
                  THEN hasty \cup {u} ELSE hasty
    /\ UNCHANGED <<m_state, inList, functors>>
    /\ outcome' = DestroyedBy(m_state)
    /\ UNCHANGED <<upc, sends, channel, output, remote, revived, shutBy>>

-----------------------------------------------------------------------------
(* The loop thread: functors, and calls of send and shutDown in callbacks.  *)

EstablishedState_Kept == m_state
EstablishedState == "kConnected"
EstablishedEvents_Kept == events
EstablishedEvents == events \cup {"IN"}

connectEstablished ==
    /\ EstablishQueued
    /\ functors' = Tail(functors)
    /\ m_state' = EstablishedState
    /\ events' = EstablishedEvents
    /\ UNCHANGED <<inList, holds, revents, output, outcome>>

\* The functor's raw pointer may be that of a connection which is gone.
RunsOnObject(f) ==
    /\ functors # <<>> /\ f = Head(functors)
    /\ functors' = Tail(functors)
    /\ UNCHANGED <<object, revents>>

RunFunctor ==
    /\ Running /\ revents = {}
    /\ \/ connectEstablished
       \/ \E m \in Messages :
             /\ RunsOnObject([op |-> "sendInLoop", msg |-> m])
             /\ Alive /\ sendInLoop(m)
       \/ \E u \in Users :
             /\ RunsOnObject([op |-> "shutDownInLoop", by |-> u])
             /\ Alive /\ shutDownInLoop
       \/ \E f \in Functors \ [op : {"connectEstablished"}] :
             /\ RunsOnObject(f)
             /\ ~Alive /\ outcome' = "stale functor"
             /\ UNCHANGED <<output, events>>
    /\ UNCHANGED <<upc, sends, remote, history>>

\* Callbacks on the loop thread have the connection while the server has it.
LoopSend ==
    /\ Running /\ inList
    /\ m_state = "kConnected" /\ Cardinality(Sent) < MaxSends
    /\ sends' = [sends EXCEPT ![Loop] = @ + 1]
    /\ sendInLoop(<<Loop, sends'[Loop]>>)
    /\ UNCHANGED <<object, upc, functors, revents, remote, history>>

LoopShutDown ==
    /\ Running /\ inList
    /\ m_state = "kConnected"
    /\ m_state' = "kDisConnecting"
    /\ shutBy' = shutBy \cup {Loop}
    /\ shutDownInLoop
    /\ UNCHANGED <<inList, holds, upc, sends, functors, revents, remote, revived, hasty>>

-----------------------------------------------------------------------------
(* Channel::handleEvent. *)

Readable == inbound \/ peer # "open"
HungUp == peer \in {"rst", "eof"} \/ (peer = "fin" /\ finSent)

\* EPOLLHUP is not dispatched together with EPOLLIN.
Poll(writable) ==
    /\ Running /\ revents = {} /\ events # {}
    /\ LET in == IF "IN" \in events /\ Readable THEN {"IN"} ELSE {}
           out == IF "OUT" \in events /\ writable THEN {"OUT"} ELSE {}
       IN revents' = in \cup out \cup (IF HungUp /\ in = {} THEN {"HUP"} ELSE {})
    /\ revents' # {}
    /\ UNCHANGED <<object, upc, sends, functors, events, output, remote, outcome, history>>

ClosedState_Kept == m_state
ClosedState == "kDisconnected"

\* handleClose, with the removeConnection that m_closeCb is: the server's
\* shared_ptr goes, and with it the connection if nobody else holds one.
handleClose ==
    /\ m_state' = ClosedState
    /\ events' = {}
    /\ inList' = FALSE
    /\ UNCHANGED <<holds, functors>>
    /\ outcome' = IF inList THEN DestroyedBy(ClosedState) ELSE "erase assert"
    /\ UNCHANGED <<upc, sends, output, history>>

Dispatch(ev) ==
    /\ Running /\ Alive
    /\ ev \in revents
    /\ revents' = revents \ {ev}

HandleHup == Dispatch("HUP") /\ handleClose /\ UNCHANGED remote

HandleReadEof ==
    /\ Dispatch("IN") /\ ~inbound /\ peer \in {"fin", "eof"}
    /\ handleClose
    /\ UNCHANGED remote

\* A message: the callback sends or shuts down with LoopSend and LoopShutDown.
\* handleError reads the error and leaves it at that.
HandleReadOther ==
    /\ Dispatch("IN")
    /\ \/ inbound /\ inbound' = FALSE /\ UNCHANGED peer
       \/ ~inbound /\ peer = "rst" /\ peer' = "eof" /\ UNCHANGED inbound
    /\ UNCHANGED <<object, upc, sends, functors, events, output, outcome, history>>

\* write(fd, retrieveAllAsString().c_str(), readableBytes()): the compiler
\* evaluates readableBytes() after the buffer was emptied, and nothing is
\* written; or before, and retrieve(n) of a written n > 0 finds it empty.
HandleWrite ==
    /\ Dispatch("OUT") /\ revents = {"OUT"}
    /\ IF "OUT" \notin events
         THEN UNCHANGED <<output, outcome>>
         ELSE /\ m_outBuffer' = <<>>
              /\ \/ finSent' = TRUE /\ UNCHANGED wire /\ (UNCHANGED outcome \/ WriteFails)
                 \/ \E n \in 1..Len(m_outBuffer) :
                       /\ SocketOpen
                       /\ wire' = wire \o SubSeq(m_outBuffer, 1, n)
                       /\ outcome' = "retrieve assert"
                       /\ UNCHANGED finSent
              /\ UNCHANGED <<given, partial>>
    /\ UNCHANGED <<object, upc, sends, functors, events, remote, history>>

\* The handlers before destroyed the connection, and its channel.
HandleStale ==
    /\ Running /\ ~Alive /\ revents # {}
    /\ outcome' = "stale event"
    /\ UNCHANGED <<object, upc, sends, functors, channel, output, remote, history>>

-----------------------------------------------------------------------------
Peer ==
    /\ Running
    /\ \/ peer = "open" /\ inbound' = TRUE /\ UNCHANGED peer
       \/ peer = "open" /\ peer' = "fin" /\ UNCHANGED inbound
       \/ peer \in {"open", "fin"} /\ peer' = "rst" /\ inbound' = FALSE
    /\ UNCHANGED <<object, upc, sends, functors, channel, output, outcome, history>>

UserInCall(u) == SendQueues(u) \/ ShutDownStores(u) \/ ShutDownQueues(u)
UserStep(u) == SendChecks(u) \/ ShutDownChecks(u) \/ Drop(u) \/ UserInCall(u)
EventStep == HandleHup \/ HandleReadEof \/ HandleReadOther \/ HandleWrite \/ HandleStale
Next == \/ \E u \in Users : UserStep(u)
        \/ \E writable \in BOOLEAN : Poll(writable)
        \/ RunFunctor \/ LoopSend \/ LoopShutDown
        \/ EventStep
        \/ Peer

Spec == Init /\ [][Next]_vars

\* The loop goes on (EventLoop's QueuedFunctorRuns, and epoll is level-triggered),
\* calls return, and the socket is writable again and again.
FairSpec == /\ Spec
            /\ WF_vars(EventStep)
            /\ SF_vars(RunFunctor) /\ SF_vars(Poll(TRUE))
            /\ \A u \in Users : WF_vars(UserInCall(u))

-----------------------------------------------------------------------------
(* Properties. *)

Before(x, y) == /\ x[1][1] = y[1][1]
                /\ x[1][2] < y[1][2] \/ (x[1][2] = y[1][2] /\ x[2] < y[2])

\* Every byte once, behind all that its caller sent before, and next to the rest of
\* its message.
WireInOrder ==
    \A i \in DOMAIN wire :
        /\ \A j \in DOMAIN wire : wire[j] = wire[i] => j = i
        /\ \A x \in Bytes : Before(x, wire[i]) => \E j \in DOMAIN wire : j < i /\ wire[j] = x
        /\ wire[i][2] < MsgLen =>
               i + 1 \in DOMAIN wire /\ wire[i + 1] = <<wire[i][1], wire[i][2] + 1>>

\* A caller's messages reach the kernel whole, in the order of its calls of send,
\* none left out, until a write is partial.
SentInOrder == ~partial /\ ~revived => WireInOrder

\* A user that alone shuts down does so behind what it sent: the FIN follows the
\* last byte of it.
FinAfterOwnSends ==
    \A u \in Users :
        Running /\ finSent /\ shutBy = {u} /\ peer = "open" /\ ~partial =>
            \A k \in 1..sends[u] :
                \/ \E i \in DOMAIN wire : wire[i] = <<<<u, k>>, MsgLen>>

\* Two asserts guard the end of a connection, ~TcpConnection's and the one on
\* erase: they can only fail after a shutDown undid handleClose.
ClosedOnce == outcome \in {"state assert", "erase assert"} => revived

\* Raw pointers in functors outlive the connection only if a user let go before
\* its calls had run; in handleEvent, only if a write was partial before.
StaleNeedsHaste == /\ outcome = "stale functor" => hasty # {}
                   /\ outcome = "stale event" => partial

\* assert(m_state == kDisconnected) in ~TcpConnection.
ClosedAtEnd == outcome # "state assert"

\* What is left of a partial write is kept for later.
HalfIsSaved == outcome = "ok" /\ ~finSent => wire \o m_outBuffer = given

\* After shutDown the peer is told, or the connection is closed otherwise.
ShutdownSendsFin == m_state = "kDisConnecting" ~> finSent \/ ~inList \/ ~Running

\* When the peer closed or reset the connection, the server forgets it.
PeerCloseRemoves == (peer # "open" /\ m_state # "kConnecting") ~> ~inList \/ ~Running

-----------------------------------------------------------------------------
(* What makes the safety properties inductive. *)

IsSend(i) == functors[i].op = "sendInLoop"
IsShutDown(i) == functors[i].op = "shutDownInLoop"

\* Before connectEstablished, which is the first functor, nothing happens.
ConnectingFirst ==
    /\ \A i \in DOMAIN functors : functors[i].op = "connectEstablished" => i = 1
    /\ m_state = "kConnecting" => /\ events = {} /\ revents = {} /\ inList
                                  /\ \A u \in Users : upc[u] = "out"

\* What handleClose left stays so, unless a shutDown revives the connection; then
\* only a partial write makes the loop come back to the channel.
StateAndChannel ==
    /\ ~inList /\ ~revived =>
           m_state = "kDisconnected" /\ events = {} /\ revents \subseteq {"OUT"}
    /\ ~inList => "IN" \notin events /\ (revents # {} => partial)
    /\ revived => m_state \in {"kDisConnecting", "kDisconnected"}
    /\ "OUT" \in events \cup revents => partial
    /\ "HUP" \in revents => "IN" \notin revents
    /\ "HUP" \in revents \/ m_state = "kDisconnected" => peer # "open"

\* A user in a call holds the connection, and so does one whose functors wait,
\* if nobody was hasty.
Holders ==
    /\ \A u \in Users : /\ upc[u] # "out" => u \in holds
                        /\ upc[u] = "send" => sends[u] # 0
    /\ \A i \in DOMAIN functors : /\ IsSend(i) => functors[i].msg[1] \in Users
                                  /\ \A u \in Users : OwnFunctor(u, functors[i]) =>
                                                          u \in holds \/ hasty # {}

\* After its shutDown a user sends no more: its functors are in the order of its calls.
Shutting ==
    /\ m_state \in {"kConnecting", "kConnected"} => shutBy = {}
    /\ \A u \in Users : /\ u \in shutBy => upc[u] \notin {"send", "store"}
                        /\ upc[u] = "queue" => u \in shutBy
    /\ \A i \in DOMAIN functors :
           IsShutDown(i) =>
               /\ functors[i].by \in shutBy
               /\ \A j \in DOMAIN functors :
                      j > i /\ IsSend(j) => functors[j].msg[1] # functors[i].by
    /\ finSent => shutBy # {} \/ partial
    /\ \A u \in Users :
           finSent /\ shutBy = {u} /\ ~partial =>
               \A i \in DOMAIN functors : IsSend(i) => functors[i].msg[1] # u

\* A message of a user is on its way, or the kernel has its last byte, or the
\* shutDown of another was before it.
Delivered ==
    Running /\ peer = "open" /\ ~partial =>
        \A u \in Users : \A k \in 1..sends[u] :
            \/ upc[u] = "send" /\ k = sends[u]
            \/ \E i \in DOMAIN functors : IsSend(i) /\ functors[i].msg = <<u, k>>
            \/ \E i \in DOMAIN wire : wire[i] = <<<<u, k>>, MsgLen>>
            \/ finSent /\ shutBy # {u}

IInv == TypeOK /\ IsFiniteSet(Sent) /\ ConnectingFirst /\ StateAndChannel /\ Holders
        /\ Shutting /\ Delivered /\ ClosedOnce /\ StaleNeedsHaste

\* The messages of send wait for the loop in the order of the calls.
Waits(m) == \/ \E i \in DOMAIN functors : IsSend(i) /\ functors[i].msg = m
            \/ m[1] \in Users /\ upc[m[1]] = "send" /\ m[2] = sends[m[1]]
QueuedInOrder ==
    \A i \in DOMAIN functors : IsSend(i) =>
        LET m == functors[i].msg
        IN /\ m[2] <= sends[m[1]]
           /\ upc[m[1]] = "send" => m[2] < sends[m[1]]
           /\ \A j \in DOMAIN functors :
                  j > i /\ IsSend(j) /\ functors[j].msg[1] = m[1] => functors[j].msg[2] > m[2]

\* Nothing goes out any more.
Dead == m_state = "kDisconnected" \/ ~SocketOpen
Begun(m) == \E i \in DOMAIN wire : wire[i][1] = m
OnWire(m) == \A b \in 1..MsgLen : \E i \in DOMAIN wire : wire[i] = <<m, b>>

\* What does not wait went out, unless the connection was closed before.
WaitsOrWent ==
    ~partial /\ ~revived =>
        /\ \A m \in Sent : Waits(m) \/ Dead \/ OnWire(m)
        /\ \A m \in Messages : Begun(m) => m \in Sent /\ ~Waits(m)

OrderInv == QueuedInOrder /\ SentInOrder /\ WaitsOrWent

=============================================================================
