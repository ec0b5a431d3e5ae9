------------------------------- MODULE Epoller -------------------------------
(***************************************************************************)
(* The registration of Channels with the Epoller of their loop              *)
(* (Channel.cpp, .h; Epoller.cpp).  Three records of one fact have to agree *)
(* over any sequence of calls: the channel's own m_index and m_events, the *)
(* Epoller's m_channelMap, and the interest list of the kernel, which holds *)
(* a raw pointer to the channel.  Channels come and go, file descriptors    *)
(* are used again.  All calls are made on the loop thread.                 *)
(* What is abstracted: which events a returned fd carries, and m_events     *)
(* (the vector epoll_wait fills), which doubles when it was full.          *)
(*                                                                         *)
(* Connections are the channels of TcpConnections, which are destroyed     *)
(* without remove(); the other channels (acceptor, timer, wakeup) are      *)
(* removed by their owner first.  An assert that fails ends the program.   *)
(***************************************************************************)
EXTENDS Integers

CONSTANTS Channels,
          Connections,      \* channels owned by a TcpConnection
          Fds,
          None

ASSUME ConnectionsAssumption == Connections \subseteq Channels
kNew == -1
kAdded == 1
kDeleted == 2

Events == {"IN", "OUT"}

Registrations == [channel : Channels, events : SUBSET Events]

ASSUME NoneAssumption == None \notin Channels \cup Fds \cup Registrations

VARIABLES
    m_fd,           \* m_fd of each channel object, None if there is no object
    born,           \* history: channels that were constructed
    m_index,
    m_events,
    removed,        \* history: channels whose last call was a remove()
    m_channelMap,   \* fd to channel, None if the map has no entry
    interest,       \* the kernel's interest list: fd to registration, or None
    batch,          \* m_activeChannels that are still to be handled
    current,        \* the channel whose handleEvent runs, or None
    failed          \* the assert that failed, or "none"

channelState == <<m_fd, born, m_index, m_events, removed>>
loopState == <<batch, current>>
vars == <<channelState, m_channelMap, interest, loopState, failed>>

TypeOK == /\ m_fd \in [Channels -> Fds \cup {None}]
          /\ born \subseteq Channels
          /\ m_index \in [Channels -> {kNew, kAdded, kDeleted}]
          /\ m_events \in [Channels -> SUBSET Events]
          /\ removed \subseteq Channels
          /\ m_channelMap \in [Fds -> Channels \cup {None}]
          /\ interest \in [Fds -> Registrations \cup {None}]
          /\ batch \subseteq Channels
          /\ current \in Channels \cup {None}
          /\ failed \in {"none", "fd in map", "not in map", "removed channel not in map"}

Init == /\ m_fd = [c \in Channels |-> None]
        /\ born = {}
        /\ m_index = [c \in Channels |-> kNew]
        /\ m_events = [c \in Channels |-> {}]
        /\ removed = {}
        /\ m_channelMap = [f \in Fds |-> None]
        /\ interest = [f \in Fds |-> None]
        /\ batch = {}
        /\ current = None
        /\ failed = "none"

Open(c) == m_fd[c] # None
Running == failed = "none"

OwnTurn_Anytime(c) == TRUE

\* A channel gives up its registration in its own handler (handleClose and
\* handleWrite of a connection, of a connector) or between two turns.
OwnTurn(c) == current = c \/ (current = None /\ batch = {})

-----------------------------------------------------------------------------
(* updateEvent: epoll_ctl.  An error (EEXIST, ENOENT) is logged, no more. *)

CtlAdd(c, ev) ==
    interest' = IF interest[m_fd[c]] = None
                  THEN [interest EXCEPT ![m_fd[c]] = [channel |-> c, events |-> ev]]
                  ELSE interest

CtlMod_Skipped(c, ev) == UNCHANGED interest

CtlMod(c, ev) ==
    interest' = IF interest[m_fd[c]] # None
                  THEN [interest EXCEPT ![m_fd[c]] = [channel |-> c, events |-> ev]]
                  ELSE interest

CtlDel(c) == interest' = [interest EXCEPT ![m_fd[c]] = None]

-----------------------------------------------------------------------------
(* Epoller::updateChannel by the value of index(); m_events was set before. *)

NewMap_NoEntry(c) == m_channelMap
NewMap(c) == [m_channelMap EXCEPT ![m_fd[c]] = c]

UpdateNew(c, ev) ==
    /\ m_index[c] = kNew
    /\ m_channelMap[m_fd[c]] = None
    /\ m_channelMap' = NewMap(c)
    /\ m_index' = [m_index EXCEPT ![c] = kAdded]
    /\ CtlAdd(c, ev)
    /\ UNCHANGED failed

UpdateDeleted(c, ev) ==
    /\ m_index[c] = kDeleted
    /\ m_channelMap[m_fd[c]] = c
    /\ m_index' = [m_index EXCEPT ![c] = kAdded]
    /\ CtlAdd(c, ev)
    /\ UNCHANGED <<m_channelMap, failed>>

UpdateAdded(c, ev) ==
    /\ m_index[c] = kAdded
    /\ m_channelMap[m_fd[c]] = c
    /\ IF ev = {}
         THEN CtlDel(c) /\ m_index' = [m_index EXCEPT ![c] = kDeleted]
         ELSE CtlMod(c, ev) /\ UNCHANGED m_index
    /\ UNCHANGED <<m_channelMap, failed>>

\* The asserts of updateChannel: a new channel whose fd is in the map, or a
\* known one that is not there.
UpdateAssertFails(c) ==
    /\ \/ m_index[c] = kNew /\ m_channelMap[m_fd[c]] # None /\ failed' = "fd in map"
       \/ m_index[c] # kNew /\ m_channelMap[m_fd[c]] # c /\ failed' = "not in map"
    /\ UNCHANGED <<m_index, m_channelMap, interest>>

Update(c, ev) ==
    /\ Running /\ Open(c)
    /\ m_events' = [m_events EXCEPT ![c] = ev]
    /\ removed' = removed \ {c}
    /\ UpdateNew(c, ev) \/ UpdateDeleted(c, ev) \/ UpdateAdded(c, ev) \/ UpdateAssertFails(c)
    /\ UNCHANGED <<m_fd, born, loopState>>

enableReading(c) == Update(c, m_events[c] \cup {"IN"})
enableWrite(c)   == Update(c, m_events[c] \cup {"OUT"})
disableWrite(c)  == OwnTurn(c) /\ Update(c, m_events[c] \ {"OUT"})
disableAll(c)    == OwnTurn(c) /\ Update(c, {})

RemovedIndex_Zero == 0
RemovedIndex_Deleted == kDeleted
RemovedIndex == kNew

\* Epoller::removeChannel.  Owners remove what they registered, once (its first
\* assert fails for a channel that is not in the map); a connection's channel is
\* never removed.
RemoveChannel(c, ev) ==
    /\ Running /\ Open(c) /\ OwnTurn(c)
    /\ c \notin Connections /\ m_index[c] # kNew
    /\ m_events' = [m_events EXCEPT ![c] = ev]
    /\ removed' = removed \cup {c}
    /\ IF m_channelMap[m_fd[c]] = c
         THEN /\ m_channelMap' = [m_channelMap EXCEPT ![m_fd[c]] = None]
              /\ IF m_index[c] = kAdded THEN CtlDel(c) ELSE UNCHANGED interest
              /\ m_index' = [m_index EXCEPT ![c] = RemovedIndex]
              /\ UNCHANGED failed
         ELSE /\ failed' = "removed channel not in map"
              /\ UNCHANGED <<m_channelMap, interest, m_index>>
    /\ UNCHANGED <<m_fd, born, loopState>>

remove(c) == RemoveChannel(c, m_events[c])

\* disableReading calls remove(), not update(): the channel is not watched any
\* more, for writing neither.  Nothing in the repository calls it.
disableReading(c) == RemoveChannel(c, m_events[c] \ {"IN"})

-----------------------------------------------------------------------------
(* The owners of channels, and the loop. *)

\* A file descriptor is free when the socket of its last owner is closed.
NewChannel(c, f) ==
    /\ Running
    /\ c \notin born
    /\ \A d \in Channels : m_fd[d] # f
    /\ m_fd' = [m_fd EXCEPT ![c] = f]
    /\ born' = born \cup {c}
    /\ UNCHANGED <<m_index, m_events, removed, m_channelMap, interest, loopState, failed>>

\* A connection goes after handleClose disabled its channel, or before it was
\* established; another channel after remove().
MayDestroy(c) == IF c \in Connections THEN m_index[c] # kAdded ELSE m_index[c] = kNew

\* The channel is destroyed and its fd closed, which ends its registration.
Destroy(c) ==
    /\ Running /\ Open(c)
    /\ MayDestroy(c)
    /\ interest' = [interest EXCEPT ![m_fd[c]] = None]
    /\ m_fd' = [m_fd EXCEPT ![c] = None]
    /\ UNCHANGED <<born, m_index, m_events, removed, m_channelMap, loopState, failed>>

\* poll and fillActiveChannels: some of the registered channels are ready.
Poll(ready) ==
    /\ Running
    /\ batch = {} /\ current = None
    /\ ready # {}
    /\ \A c \in ready : \E f \in Fds : interest[f] # None /\ interest[f].channel = c
    /\ batch' = ready
    /\ UNCHANGED <<channelState, m_channelMap, interest, current, failed>>

HandleEvent(c) ==
    /\ Running
    /\ current = None /\ c \in batch
    /\ current' = c
    /\ batch' = batch \ {c}
    /\ UNCHANGED <<channelState, m_channelMap, interest, failed>>

HandleEventReturns ==
    /\ Running
    /\ current # None
    /\ current' = None
    /\ UNCHANGED <<channelState, m_channelMap, interest, batch, failed>>

-----------------------------------------------------------------------------
Calls(c) == \/ enableReading(c) \/ enableWrite(c) \/ disableWrite(c) \/ disableAll(c)
            \/ remove(c) \/ disableReading(c)
            \/ Destroy(c)
            \/ \E f \in Fds : NewChannel(c, f)

Next == \/ \E c \in Channels : Calls(c) \/ HandleEvent(c)
        \/ \E ready \in SUBSET Channels : Poll(ready)
        \/ HandleEventReturns

Spec == Init /\ [][Next]_vars

-----------------------------------------------------------------------------
(* Properties. *)

\* A channel object is in m_channelMap, under its own fd, exactly if its index
\* says so, after any sequence of updates and removals and any reuse of fds.
MapMatchesIndex ==
    \A c \in Channels : Open(c) => (m_channelMap[m_fd[c]] = c <=> m_index[c] # kNew)

\* The kernel watches for exactly what the channel asked for in its last call,
\* under a pointer to that channel, whatever calls came before: disableAll and
\* disableWrite twice, an enable after them or after a remove().  A channel that
\* was removed, disableReading() included, is not watched, even for events that
\* are left in its m_events; one that asks for nothing is not watched or watched
\* for no event (updateChannel adds a new or deleted channel without events).
KernelMatchesInterest ==
    Running => \A c \in Channels : Open(c) =>
        LET watched == interest[m_fd[c]]
        IN IF c \in removed THEN watched = None
           ELSE \/ watched = [channel |-> c, events |-> m_events[c]]
                \/ watched = None /\ m_events[c] = {}

\* The raw pointers in the kernel and in m_activeChannels are of channels that
\* exist: one handler never pulls another channel of the batch from under loop().
PolledChannelsExist ==
    /\ \A f \in Fds : interest[f] # None => m_fd[interest[f].channel] = f
    /\ \A c \in batch : Open(c)

\* Of all asserts only the one on a new fd can fail, and then because a
\* connection was destroyed that never called remove().
OnlyStaleFdFails ==
    failed # "none" =>
        /\ failed = "fd in map"
        /\ \E f \in Fds : m_channelMap[f] \in Connections /\ ~Open(m_channelMap[f])

\* assert(m_channelMap.find(fd) == m_channelMap.end()) in updateChannel.
NewFdNotInMap == failed # "fd in map"

-----------------------------------------------------------------------------
(* What makes them inductive. *)

OwnFd == \A c, d \in Channels : c # d /\ Open(c) => m_fd[c] # m_fd[d]
Unborn == \A c \in Channels \ born : /\ ~Open(c) /\ m_index[c] = kNew
                                     /\ m_events[c] = {} /\ c \notin removed
MapEntries ==
    \A f \in Fds : LET c == m_channelMap[f] IN
        c # None => /\ c \in born
                    /\ Open(c) => m_fd[c] = f
                    /\ ~Open(c) => c \in Connections
InterestEntries ==
    \A f \in Fds : interest[f] # None =>
        m_fd[interest[f].channel] = f /\ m_index[interest[f].channel] = kAdded

\* What the kernel watches for follows from the index.
WatchedByIndex ==
    Running => \A c \in Channels : Open(c) =>
        /\ interest[m_fd[c]] = IF m_index[c] = kAdded
                                THEN [channel |-> c, events |-> m_events[c]] ELSE None
        /\ m_events[c] # {} => m_index[c] = kAdded \/ c \in removed
        /\ c \in removed => m_index[c] = kNew

BatchAdded == \A c \in batch : Open(c) /\ m_index[c] = kAdded /\ c # current

IInv == /\ TypeOK /\ OwnFd /\ Unborn /\ MapEntries /\ InterestEntries /\ BatchAdded
        /\ MapMatchesIndex /\ WatchedByIndex /\ OnlyStaleFdFails

=============================================================================
