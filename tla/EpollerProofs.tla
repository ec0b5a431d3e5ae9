---------------------------- MODULE EpollerProofs ----------------------------
(* Proofs about Epoller: for any set of channels, connections and fds.        *)
EXTENDS Epoller, TLAPS

\* The entry that a new channel gets in m_channelMap, expanded in every proof.
USE DEF NewMap

LEMMA InitIInv == Init => IInv
BY NoneAssumption
   DEF Init, IInv, TypeOK, OwnFd, Unborn, MapEntries, InterestEntries, BatchAdded,
       MapMatchesIndex, WatchedByIndex, OnlyStaleFdFails, Open, Running, kNew,
       kAdded, kDeleted

\* A registration is not mistaken for none.
LEMMA RegistrationNotNone ==
    ASSUME NEW c \in Channels, NEW ev \in SUBSET Events
    PROVE  /\ [channel |-> c, events |-> ev] \in Registrations
           /\ [channel |-> c, events |-> ev] # None
<1>1. [channel |-> c, events |-> ev] \in Registrations
  BY DEF Registrations
<1> QED
  BY <1>1, NoneAssumption

\* updateChannel: the index, the map and the interest list move together, or an
\* assert stops the program.
LEMMA UpdateKeepsIInv ==
    ASSUME IInv, NEW c \in Channels, NEW ev \in SUBSET Events, Update(c, ev),
           ev = {} => OwnTurn(c)
    PROVE  IInv'
<1> DEFINE f == m_fd[c]
<1>1. /\ f \in Fds /\ Open(c) /\ c # None /\ f # None /\ c \in born
      /\ TypeOK /\ Running /\ failed = "none"
  BY NoneAssumption DEF IInv, TypeOK, Update, Open, Running, Unborn
<1>2. /\ m_events' = [m_events EXCEPT ![c] = ev] /\ removed' = removed \ {c}
      /\ m_fd' = m_fd /\ born' = born /\ batch' = batch /\ current' = current
      /\ \A d \in Channels : Open(d)' <=> Open(d)
  BY DEF Update, loopState, Open
<1>3. OwnFd' /\ (\A d \in Channels : d # c /\ Open(d) => m_fd[d] # f)
  BY <1>1, <1>2 DEF IInv, OwnFd, Open
<1>4. ev = {} => c \notin batch
  BY DEF IInv, BatchAdded, OwnTurn
<1>5. CASE UpdateNew(c, ev) \/ UpdateDeleted(c, ev) \/ (UpdateAdded(c, ev) /\ ev # {})
  <2> DEFINE r == [channel |-> c, events |-> ev]
  <2>1. /\ m_channelMap' = [m_channelMap EXCEPT ![f] = c]
        /\ m_index' = [m_index EXCEPT ![c] = kAdded]
        /\ failed' = failed
    BY <1>1, <1>5 DEF UpdateNew, UpdateDeleted, UpdateAdded, TypeOK
  <2>2. interest' = [interest EXCEPT ![f] = r]
    <3>1. m_index[c] # kAdded => interest[f] = None
      BY <1>1 DEF IInv, WatchedByIndex
    <3>2. m_index[c] = kAdded => interest[f] # None
      <4>1. m_index[c] = kAdded => interest[f] = [channel |-> c, events |-> m_events[c]]
        BY <1>1 DEF IInv, WatchedByIndex
      <4>2. m_events[c] \in SUBSET Events
        BY <1>1 DEF TypeOK
      <4> QED
        BY <4>1, <4>2, RegistrationNotNone
    <3> QED
      BY <1>1, <1>5, <3>1, <3>2
         DEF UpdateNew, UpdateDeleted, UpdateAdded, CtlAdd, CtlMod, kNew, kAdded, kDeleted
  <2>3. r \in Registrations
    BY RegistrationNotNone
  <2>4. TypeOK'
    BY <1>1, <1>2, <2>1, <2>2, <2>3 DEF TypeOK, kAdded
  <2>5. Unborn' /\ OnlyStaleFdFails' /\ BatchAdded'
    BY <1>1, <1>2, <2>1 DEF IInv, TypeOK, Unborn, OnlyStaleFdFails, BatchAdded, kAdded, kNew
  <2>6. MapEntries'
    BY <1>1, <1>2, <2>1 DEF IInv, TypeOK, MapEntries
  <2>7. InterestEntries'
    BY <1>1, <1>2, <1>3, <2>1, <2>2 DEF IInv, TypeOK, InterestEntries
  <2>8. MapMatchesIndex'
    BY <1>1, <1>2, <1>3, <2>1 DEF IInv, TypeOK, MapMatchesIndex, Open, kAdded, kNew
  <2>9. WatchedByIndex'
    BY <1>1, <1>2, <1>3, <2>1, <2>2
       DEF IInv, TypeOK, WatchedByIndex, Open, Running, kAdded, kDeleted
  <2> QED
    BY <1>3, <2>4, <2>5, <2>6, <2>7, <2>8, <2>9 DEF IInv
<1>6. CASE UpdateAdded(c, ev) /\ ev = {}
  <2>1. /\ m_channelMap' = m_channelMap
        /\ m_index' = [m_index EXCEPT ![c] = kDeleted]
        /\ interest' = [interest EXCEPT ![f] = None]
        /\ failed' = failed /\ m_index[c] = kAdded
    BY <1>6 DEF UpdateAdded, CtlDel
  <2>2. TypeOK'
    BY <1>1, <1>2, <2>1 DEF TypeOK, kDeleted
  <2>3. Unborn' /\ OnlyStaleFdFails' /\ BatchAdded' /\ MapEntries'
    BY <1>1, <1>2, <1>4, <1>6, <2>1
       DEF IInv, TypeOK, Unborn, OnlyStaleFdFails, BatchAdded, MapEntries
  <2>4. InterestEntries'
    BY <1>1, <1>2, <1>3, <2>1 DEF IInv, TypeOK, InterestEntries, Registrations
  <2>5. MapMatchesIndex'
    BY <1>1, <1>2, <1>3, <2>1 DEF IInv, TypeOK, MapMatchesIndex, Open, kAdded, kNew, kDeleted
  <2>6. WatchedByIndex'
    BY <1>1, <1>2, <1>3, <1>6, <2>1
       DEF IInv, TypeOK, WatchedByIndex, Open, Running, kAdded, kDeleted
  <2> QED
    BY <1>3, <2>2, <2>3, <2>4, <2>5, <2>6 DEF IInv
<1>7. CASE UpdateAssertFails(c)
  <2>1. /\ m_index[c] = kNew /\ m_channelMap[f] # None /\ failed' = "fd in map"
        /\ m_channelMap[f] # c
        /\ m_index' = m_index /\ m_channelMap' = m_channelMap /\ interest' = interest
    BY <1>1, <1>7 DEF UpdateAssertFails, IInv, MapMatchesIndex
  <2>2. m_channelMap[f] \in Connections /\ ~Open(m_channelMap[f])
    BY <1>1, <1>3, <2>1 DEF IInv, TypeOK, MapEntries
  <2>3. OnlyStaleFdFails' /\ WatchedByIndex'
    BY <1>1, <1>2, <2>1, <2>2, NoneAssumption
       DEF OnlyStaleFdFails, WatchedByIndex, Running, Open
  <2> QED
    BY <1>1, <1>2, <1>3, <2>1, <2>3
       DEF IInv, TypeOK, Unborn, MapEntries, InterestEntries, BatchAdded, MapMatchesIndex, Open
<1> QED
  BY <1>5, <1>6, <1>7 DEF Update

\* removeChannel: the assert on the map holds, and all three records forget the
\* channel, whatever is left of its m_events.
LEMMA RemoveKeepsIInv ==
    ASSUME IInv, NEW c \in Channels, NEW ev \in SUBSET Events, RemoveChannel(c, ev)
    PROVE  IInv'
<1> DEFINE f == m_fd[c]
<1>1. /\ f \in Fds /\ Open(c) /\ c # None /\ f # None /\ c \in born
      /\ TypeOK /\ Running /\ m_index[c] # kNew /\ m_channelMap[f] = c
      /\ c \notin batch
  <2>1. TypeOK /\ Running /\ Open(c) /\ OwnTurn(c) /\ m_index[c] # kNew
    BY DEF IInv, RemoveChannel
  <2>2. f \in Fds /\ c # None /\ f # None
    BY <2>1, NoneAssumption DEF TypeOK, Open
  <2>3. c \in born /\ m_channelMap[f] = c
    BY <2>1 DEF IInv, Unborn, MapMatchesIndex
  <2>4. c \notin batch
    BY <2>1 DEF IInv, BatchAdded, OwnTurn
  <2> QED
    BY <2>1, <2>2, <2>3, <2>4
<1>2. /\ m_events' = [m_events EXCEPT ![c] = ev] /\ removed' = removed \cup {c}
      /\ m_fd' = m_fd /\ born' = born /\ batch' = batch /\ current' = current
      /\ failed' = failed
      /\ m_channelMap' = [m_channelMap EXCEPT ![f] = None]
      /\ m_index' = [m_index EXCEPT ![c] = kNew]
      /\ interest' = [interest EXCEPT ![f] = None]
  <2>1. m_index[c] # kAdded => interest[f] = None
    BY <1>1 DEF IInv, WatchedByIndex
  <2>2. interest' = [interest EXCEPT ![f] = None]
    BY <1>1, <2>1 DEF RemoveChannel, CtlDel, IInv, TypeOK
  <2> QED
    BY <1>1, <2>2 DEF RemoveChannel, RemovedIndex, loopState
<1>3. OwnFd' /\ (\A d \in Channels : d # c /\ Open(d) => m_fd[d] # f)
  BY <1>1, <1>2 DEF IInv, OwnFd, Open
<1>4. TypeOK'
  BY <1>1, <1>2 DEF TypeOK, kNew
<1>5. Unborn' /\ BatchAdded' /\ MapEntries' /\ OnlyStaleFdFails'
  BY <1>1, <1>2 DEF IInv, TypeOK, Unborn, BatchAdded, MapEntries, OnlyStaleFdFails, Open, Running
<1>6. InterestEntries'
  BY <1>1, <1>2, <1>3 DEF IInv, TypeOK, InterestEntries, Registrations
<1>7. MapMatchesIndex'
  BY <1>1, <1>2, <1>3 DEF IInv, TypeOK, MapMatchesIndex, Open, kNew
<1>8. WatchedByIndex'
  BY <1>1, <1>2, <1>3
     DEF IInv, TypeOK, WatchedByIndex, Open, Running, kNew, kAdded, kDeleted
<1> QED
  BY <1>3, <1>4, <1>5, <1>6, <1>7, <1>8 DEF IInv

\* A new channel has an index of its own; what its fd was used for before is in
\* the map, if anywhere.
LEMMA NewChannelKeepsIInv ==
    ASSUME IInv, NEW c \in Channels, NEW f \in Fds, NewChannel(c, f)
    PROVE  IInv'
<1>1. /\ m_fd' = [m_fd EXCEPT ![c] = f] /\ born' = born \cup {c} /\ c \notin born
      /\ m_index' = m_index /\ m_events' = m_events /\ m_channelMap' = m_channelMap
      /\ removed' = removed /\ c \notin removed
      /\ interest' = interest /\ batch' = batch /\ current' = current /\ failed' = failed
      /\ TypeOK /\ f # None /\ ~Open(c) /\ m_index[c] = kNew /\ m_events[c] = {}
      /\ \A d \in Channels : m_fd[d] # f
  BY NoneAssumption DEF NewChannel, loopState, IInv, TypeOK, Unborn
<1>2. interest[f] = None
  <2>1. interest[f] # None => interest[f].channel \in Channels /\ m_fd[interest[f].channel] = f
    BY <1>1 DEF IInv, TypeOK, InterestEntries, Registrations
  <2> QED
    BY <1>1, <2>1
<1>3. \A g \in Fds : m_channelMap[g] # c
  BY <1>1, NoneAssumption DEF IInv, MapEntries
<1>4. \A d \in Channels : (d # c => m_fd'[d] = m_fd[d]) /\ m_fd'[c] = f
  BY <1>1 DEF TypeOK
<1>5. TypeOK' /\ OwnFd' /\ Unborn'
  BY <1>1, <1>4 DEF IInv, TypeOK, OwnFd, Unborn, Open
<1>6. MapEntries' /\ BatchAdded'
  BY <1>1, <1>4, <1>3 DEF IInv, TypeOK, MapEntries, BatchAdded, Open
<1>7. InterestEntries'
  <2> SUFFICES ASSUME NEW g \in Fds, interest[g] # None
               PROVE  /\ m_fd'[interest[g].channel] = g
                      /\ m_index[interest[g].channel] = kAdded
    BY <1>1 DEF InterestEntries
  <2>1. interest[g].channel \in Channels
    BY DEF IInv, TypeOK, Registrations
  <2>2. m_fd[interest[g].channel] = g /\ m_index[interest[g].channel] = kAdded
    BY DEF IInv, InterestEntries
  <2>3. interest[g].channel # c
    BY <1>1, <2>2 DEF kNew, kAdded
  <2> QED
    BY <1>4, <2>1, <2>2, <2>3
<1>8. MapMatchesIndex'
  BY <1>1, <1>4, <1>3 DEF IInv, MapMatchesIndex, Open
<1>9. WatchedByIndex'
  <2> SUFFICES ASSUME Running, NEW d \in Channels, Open(d)'
               PROVE  /\ interest[m_fd'[d]] = IF m_index[d] = kAdded
                                    THEN [channel |-> d, events |-> m_events[d]] ELSE None
                      /\ m_events[d] # {} => m_index[d] = kAdded \/ d \in removed
                      /\ d \in removed => m_index[d] = kNew
    BY <1>1 DEF WatchedByIndex, Running
  <2>1. CASE d = c
    BY <1>1, <1>2, <1>4, <2>1 DEF kNew, kAdded, kDeleted
  <2>2. CASE d # c
    BY <1>4, <2>2 DEF IInv, WatchedByIndex, Open
  <2> QED
    BY <2>1, <2>2
<1>10. OnlyStaleFdFails'
  <2>1. \A g \in Fds : m_channelMap[g] \in Connections /\ ~Open(m_channelMap[g])
                      => ~Open(m_channelMap[g])'
    BY <1>1, <1>4, <1>3, ConnectionsAssumption DEF Open
  <2> QED
    BY <1>1, <2>1 DEF IInv, OnlyStaleFdFails
<1> QED
  BY <1>5, <1>6, <1>7, <1>8, <1>9, <1>10 DEF IInv

\* A channel goes when it is not registered; if it is a connection's, the entry
\* of the map stays behind.
LEMMA DestroyKeepsIInv ==
    ASSUME IInv, NEW c \in Channels, Destroy(c)
    PROVE  IInv'
<1>1. /\ m_fd' = [m_fd EXCEPT ![c] = None] /\ born' = born /\ m_index' = m_index
      /\ m_events' = m_events /\ m_channelMap' = m_channelMap /\ batch' = batch
      /\ removed' = removed
      /\ current' = current /\ failed' = failed /\ Running
      /\ interest' = [interest EXCEPT ![m_fd[c]] = None]
      /\ TypeOK /\ Open(c) /\ m_index[c] # kAdded /\ m_fd[c] \in Fds
      /\ c \in Connections \/ m_index[c] = kNew
      /\ c \in born
  <2>1. TypeOK /\ Open(c) /\ MayDestroy(c) /\ Running
    BY DEF IInv, Destroy
  <2>2. m_fd[c] \in Fds /\ c \in born
    BY <2>1 DEF IInv, TypeOK, Open, Unborn
  <2>3. m_index[c] # kAdded /\ (c \in Connections \/ m_index[c] = kNew)
    BY <2>1 DEF MayDestroy, kNew, kAdded
  <2> QED
    BY <2>1, <2>2, <2>3 DEF Destroy, loopState
<1>2. \A d \in Channels : d # c /\ Open(d) => m_fd[d] # m_fd[c]
  BY <1>1 DEF IInv, OwnFd, Open
<1>3. TypeOK' /\ OwnFd' /\ Unborn' /\ BatchAdded'
  BY <1>1, NoneAssumption DEF IInv, TypeOK, OwnFd, Unborn, BatchAdded, Open
<1>4. MapEntries'
  BY <1>1 DEF IInv, TypeOK, MapEntries, MapMatchesIndex, Open
<1>5. InterestEntries'
  <2> SUFFICES ASSUME NEW g \in Fds, interest'[g] # None
               PROVE  /\ m_fd'[interest'[g].channel] = g
                      /\ m_index[interest'[g].channel] = kAdded
    BY <1>1 DEF InterestEntries
  <2>1. interest'[g] = interest[g] /\ g # m_fd[c]
    BY <1>1 DEF TypeOK
  <2>2. interest[g].channel \in Channels
    BY <2>1 DEF IInv, TypeOK, Registrations
  <2>3. m_fd[interest[g].channel] = g /\ m_index[interest[g].channel] = kAdded
    BY <2>1 DEF IInv, InterestEntries
  <2> QED
    BY <1>1, <2>1, <2>2, <2>3 DEF TypeOK
<1>6. MapMatchesIndex' /\ WatchedByIndex'
  BY <1>1, <1>2 DEF IInv, TypeOK, MapMatchesIndex, WatchedByIndex, Open, Running,
     kNew, kAdded, kDeleted
<1>7. OnlyStaleFdFails'
  BY <1>1 DEF IInv, OnlyStaleFdFails, Running
<1> QED
  BY <1>3, <1>4, <1>5, <1>6, <1>7 DEF IInv

\* A turn of the loop takes its batch from the interest list.
LEMMA TurnKeepsIInv ==
    ASSUME IInv,
           \/ \E ready \in SUBSET Channels : Poll(ready)
           \/ \E c \in Channels : HandleEvent(c)
           \/ HandleEventReturns
    PROVE  IInv'
<1> USE NoneAssumption DEF IInv, TypeOK, OwnFd, Unborn, MapEntries, InterestEntries,
        MapMatchesIndex, WatchedByIndex, OnlyStaleFdFails, Open, Running, channelState
<1>1. ASSUME NEW ready \in SUBSET Channels, Poll(ready) PROVE IInv'
  BY <1>1 DEF Poll, BatchAdded
<1>2. ASSUME NEW c \in Channels, HandleEvent(c) PROVE IInv'
  BY <1>2 DEF HandleEvent, BatchAdded
<1>3. CASE HandleEventReturns
  BY <1>3 DEF HandleEventReturns, BatchAdded
<1> QED
  BY <1>1, <1>2, <1>3

LEMMA NextIInv == IInv /\ [Next]_vars => IInv'
<1> SUFFICES ASSUME IInv, [Next]_vars PROVE IInv'
  OBVIOUS
<1>1. ASSUME NEW c \in Channels, Calls(c) PROVE IInv'
  <2>1. /\ m_events[c] \in SUBSET Events
        /\ m_events[c] \cup {"IN"} \in (SUBSET Events) \ {{}}
        /\ m_events[c] \cup {"OUT"} \in (SUBSET Events) \ {{}}
        /\ m_events[c] \ {"OUT"} \in SUBSET Events
        /\ m_events[c] \ {"IN"} \in SUBSET Events
    BY DEF IInv, TypeOK, Events
  <2>2. CASE enableReading(c)
    BY <2>1, <2>2, UpdateKeepsIInv DEF enableReading
  <2>3. CASE enableWrite(c)
    BY <2>1, <2>3, UpdateKeepsIInv DEF enableWrite
  <2>4. CASE disableWrite(c)
    BY <2>1, <2>4, UpdateKeepsIInv DEF disableWrite
  <2>5. CASE disableAll(c)
    BY <2>5, UpdateKeepsIInv DEF disableAll
  <2>6. CASE remove(c)
    BY <2>1, <2>6, RemoveKeepsIInv DEF remove
  <2>7. CASE disableReading(c)
    BY <2>1, <2>7, RemoveKeepsIInv DEF disableReading
  <2> QED
    BY <1>1, <2>2, <2>3, <2>4, <2>5, <2>6, <2>7, DestroyKeepsIInv, NewChannelKeepsIInv
       DEF Calls
<1>2. CASE UNCHANGED vars
  BY <1>2 DEF vars, channelState, loopState, IInv, TypeOK, OwnFd, Unborn, MapEntries,
     InterestEntries, BatchAdded, MapMatchesIndex, WatchedByIndex, OnlyStaleFdFails,
     Open, Running
<1> QED
  BY <1>1, <1>2, TurnKeepsIInv DEF Next

LEMMA Invariant == Spec => []IInv
BY InitIInv, NextIInv, PTL DEF Spec

-----------------------------------------------------------------------------
\* The registrations, the kernel's interest list, the batch and the fds keep their types,
\* whatever calls of Channel's methods are made.
THEOREM RegistrationTypeCorrect == Spec => []TypeOK
BY Invariant, PTL DEF IInv

\* m_channelMap and the index of every channel agree (Epoller::updateChannel and
\* removeChannel under any sequence of calls of Channel's methods).
THEOREM MapAgrees == Spec => []MapMatchesIndex
BY Invariant, PTL DEF IInv

\* While no assert has failed the kernel watches for exactly what each channel asked
\* for in its last call, and for nothing of a channel that was removed.
THEOREM KernelAgrees == Spec => []KernelMatchesInterest
<1>1. IInv => KernelMatchesInterest
  <2> SUFFICES ASSUME IInv, Running, NEW c \in Channels, Open(c)
               PROVE  LET watched == interest[m_fd[c]]
                      IN IF c \in removed THEN watched = None
                         ELSE \/ watched = [channel |-> c, events |-> m_events[c]]
                              \/ watched = None /\ m_events[c] = {}
    BY DEF KernelMatchesInterest
  <2>1. CASE m_index[c] = kAdded
    BY <2>1 DEF IInv, WatchedByIndex, kNew, kAdded
  <2>2. CASE m_index[c] # kAdded
    BY <2>2 DEF IInv, WatchedByIndex
  <2> QED
    BY <2>1, <2>2
<1> QED
  BY <1>1, Invariant, PTL

\* epoll_wait never yields the pointer of a channel that is gone, and none of
\* the batch goes before loop() called its handleEvent.
THEOREM PolledExist == Spec => []PolledChannelsExist
<1>1. IInv => PolledChannelsExist
  BY DEF IInv, InterestEntries, BatchAdded, PolledChannelsExist
<1> QED
  BY <1>1, Invariant, PTL

\* The one assert that can fail is that on a new fd, because connections leave
\* their entry in m_channelMap.
THEOREM OnlyStaleFd == Spec => []OnlyStaleFdFails
BY Invariant, PTL DEF IInv

=============================================================================
