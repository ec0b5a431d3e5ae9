---------------------------- MODULE TcpServerProofs ----------------------------
(* Proofs about TcpServer, on those about the pool of loops: for any number of  *)
(* loops, connections, descriptors and users.                                  *)
EXTENDS TcpServer, EventLoopThreadPollProofs

\* The small operators of the actions are expanded in every proof.
USE DEF MovedFrom, EstablishedState, ListAfterClose, InLoopThread, ListeningAfterError,
        Registered, Reads

\* The steps that set up the server, and those of clients and peers.
SetupStep == \/ Construct \/ ConstructAborts \/ setCallbacks \/ ServerStart \/ StartFails
             \/ Destroy
             \/ \E n \in 0..MaxThreadNum : ServerSetThreadNum(n)
             \/ ClientArrives \/ AcceptFails
             \/ \E c \in Accepted : PeerCloses(c)

\* Every step of the server is one of the pool or leaves it alone.
LEMMA StepOfPool == ASSUME [SNext]_svars PROVE [Next]_vars
<1>1. ASSUME SetupStep PROVE [Next]_vars
  BY <1>1 DEF SetupStep, Construct, ConstructAborts, EndsInSetup, setCallbacks, ServerStart,
     StartFails, Destroy, ServerSetThreadNum, ClientArrives, AcceptFails, PeerCloses, Next
<1>2. ASSUME NEW c \in Accepted, TalkStep(c) PROVE UNCHANGED vars
  BY <1>2 DEF TalkStep, LoopSend, LoopShutDown, Send, ShutDownChecks, ShutDownStores, CallRuns,
     handleWrite
<1>3. ASSUME NEW c \in Accepted, handleMessage(c) \/ handleClose(c) \/ UserDrops(c)
      PROVE  UNCHANGED vars
  BY <1>3 DEF handleMessage, handleClose, UserDrops
<1>4. ASSUME NEW l \in LoopIds, connectEstablished(l) \/ EstablishedCallback(l)
      PROVE  UNCHANGED vars
  BY <1>4 DEF connectEstablished, EstablishedCallback
<1>5. ASSUME Accept \/ CallConnCb PROVE [Next]_vars
  BY <1>5 DEF Accept, CallConnCb, Next
<1>6. CASE UNCHANGED svars
  BY <1>6 DEF svars
<1> QED
  BY <1>1, <1>2, <1>3, <1>4, <1>5, <1>6 DEF SNext, SetupStep

\* The pool of a server deals the connections in turn, too.
THEOREM ServerDealsInTurn == SSpec => []RoundRobin
<1>1. SInit => Init
  BY DEF SInit
<1>2. [SNext]_svars => [Next]_vars
  BY StepOfPool
<1>3. SSpec => Spec
  BY <1>1, <1>2, PTL DEF SSpec, Spec
<1> QED
  BY <1>3, DealsInTurn, PTL

-----------------------------------------------------------------------------
(* Facts about the state. *)

LEMMA Numbers ==
    ASSUME STypeOK
    PROVE  /\ Latest \in Nat /\ Latest <= MaxCalls /\ Accepted \subseteq Conns
           /\ \A c \in Accepted : given[c] \in LoopIds
           /\ \A l \in LoopIds : functors[l] \in Seq(Conns)
<1>1. Latest \in 0..MaxCalls /\ given \in Seq(LoopIds)
  BY DEF STypeOK, TypeOK
<1> QED
  BY <1>1, MaxCallsAssumption, ElementOfSeq DEF Accepted, Conns, Latest, STypeOK

\* With a connection the server was started.
LEMMA Started == ASSUME IInv, NEW c \in Accepted PROVE m_started
<1>1. given # << >>
  <2>1. Len(<< >>) = 0
    BY EmptySeq
  <2> QED
    BY <2>1 DEF Accepted, Latest
<1> QED
  BY <1>1 DEF IInv, NotStarted

LEMMA InitSInv == SInit => SInv
<1> SUFFICES ASSUME SInit PROVE SInv
  OBVIOUS
<1>1. IInv /\ TypeOK /\ Latest = 0 /\ Accepted = {}
  BY InitIInv, EmptySeq DEF SInit, IInv, Init, Latest, Accepted
<1>2. STypeOK
  <2>1. /\ << >> \in Seq(Conns) /\ << >> \in Seq(Callbacks) /\ << >> \in Seq(Calls)
        /\ 0 \in 0..MaxCalls
    BY EmptySeq, MaxCallsAssumption
  <2>2. /\ functors \in [LoopIds -> Seq(Conns)] /\ seen \in [Conns -> Seq(Callbacks)]
        /\ calls \in [Conns -> Seq(Calls)]
    BY <2>1 DEF SInit
  <2> QED
    BY <1>1, <2>1, <2>2 DEF SInit, STypeOK, Ends, States
<1>3. \A l \in LoopIds : functors[l] = << >> /\ DOMAIN functors[l] = {}
  BY DEF SInit
<1>4. \A c \in Conns : DOMAIN seen[c] = {}
  BY DEF SInit
<1> QED
  BY <1>1, <1>2, <1>3, <1>4, NoFdAssumption
     DEF SInit, Init, SInv, ListMatches, UserView, FdsOwned, KnownEnds, Unaccepted,
         PendingAtHome, AcceptingLatest, MappedBy, StateAndList, ShuttingHolds, SeenByState,
         Conns, Running, SetupEnds

\* What the parts of the invariant say while the program runs.
LEMMA RunningInv ==
    ASSUME SInv, Running
    PROVE  /\ STypeOK /\ IInv /\ ListMatches /\ UserView /\ FdsOwned /\ KnownEnds
           /\ Unaccepted /\ PendingAtHome /\ AcceptingLatest /\ MappedBy /\ StateAndList
           /\ ShuttingHolds /\ SeenByState
BY DEF SInv

\* What a step must keep for the invariant not to be concerned.
Unconcerned == UNCHANGED <<given, accepting, holderVars, connVars, fdVars, loopVars, callVars,
                           seen>>

LEMMA UnconcernedKeepsSInv ==
    ASSUME SInv, Unconcerned, STypeOK', IInv', KnownEnds', Running' => Running
    PROVE  SInv'
<1>1. /\ Accepted' = Accepted /\ Latest' = Latest
      /\ UNCHANGED <<given, accepting, m_connectionList, kept, m_state, m_events, fd, openFds,
                     functors, establishing, mapped, calls, shutting, shut, revived, seen>>
  BY DEF Unconcerned, Accepted, Latest, holderVars, connVars, fdVars, loopVars, callVars
<1>2. Accepted \subseteq Conns
  BY Numbers DEF SInv
<1>3. \A c \in Conns : /\ EstablishPending(c)' <=> EstablishPending(c)
                       /\ Held(c)' <=> Held(c)
  BY <1>1 DEF EstablishPending, Held
<1>4. UserView'
  <2>1. Accepted' = Accepted
    BY <1>1
  <2>2. \A c \in Accepted : \A i, call : Before(c, i, call)' <=> Before(c, i, call)
    BY <1>1 DEF Before
  <2> QED
    BY <1>1, <2>1, <2>2 DEF SInv, UserView
<1>5. ASSUME Running' PROVE ListMatches' /\ FdsOwned'
  BY <1>1, <1>2, <1>3, <1>5 DEF SInv, ListMatches, FdsOwned
<1>6. ASSUME Running' PROVE Unaccepted' /\ PendingAtHome' /\ AcceptingLatest' /\ MappedBy'
  BY <1>1, <1>6 DEF SInv, Unaccepted, PendingAtHome, AcceptingLatest, MappedBy
<1>7. ASSUME Running' PROVE StateAndList' /\ ShuttingHolds' /\ SeenByState'
  BY <1>1, <1>2, <1>3, <1>7 DEF SInv, StateAndList, ShuttingHolds, SeenByState, Called
<1> QED
  BY <1>4, <1>5, <1>6, <1>7 DEF SInv, ListMatches, FdsOwned

LEMMA SetupKeepsSInv == ASSUME SInv, IInv', SetupStep PROVE SInv'
<1> USE DEF SetupStep, EndsInSetup
<1>1. Unconcerned /\ Running
  BY DEF Construct, ConstructAborts, setCallbacks, ServerStart, StartFails, Destroy,
     ServerSetThreadNum, ClientArrives, AcceptFails, PeerCloses, Unconcerned, vars, serverVars,
     Ready, AcceptReady, start, setThreadNum
<1>2. failed' \in SetupEnds \cup {"none", "accept"} /\ failed = "none"
  BY <1>1 DEF Construct, ConstructAborts, setCallbacks, ServerStart, StartFails, Destroy,
     ServerSetThreadNum, ClientArrives, AcceptFails, PeerCloses, serverVars, Running, SetupEnds
<1>3. failed' \in SetupEnds => ~m_started'
  BY <1>1 DEF Construct, ConstructAborts, setCallbacks, ServerStart, StartFails, Destroy,
     ServerSetThreadNum, ClientArrives, AcceptFails, PeerCloses, serverVars, Running, Ready,
     vars, SetupEnds
<1>4. failed' = "accept" => m_started'
  BY <1>1 DEF Construct, ConstructAborts, setCallbacks, ServerStart, StartFails, Destroy,
     ServerSetThreadNum, ClientArrives, AcceptFails, PeerCloses, serverVars, Running, AcceptReady,
     LoopIdle, BaseIdle, vars
<1>5. KnownEnds'
  BY <1>2, <1>3, <1>4 DEF KnownEnds, SetupEnds, Running
<1>6. STypeOK'
  <2>1. /\ TypeOK' /\ Latest' = Latest /\ Accepted' = Accepted
        /\ UNCHANGED <<accepting, m_connectionList, kept, m_state, m_events, fd, openFds,
                       functors, establishing, mapped, calls, shutting, shut, revived, seen>>
    BY <1>1 DEF IInv, Unconcerned, Latest, Accepted, holderVars, connVars, fdVars, loopVars,
       callVars
  <2>2. listening' \in BOOLEAN /\ m_connCb' \in BOOLEAN /\ m_msgCb' \in BOOLEAN
    BY DEF Construct, ConstructAborts, setCallbacks, ServerStart, StartFails, Destroy,
       ServerSetThreadNum, ClientArrives, AcceptFails, PeerCloses, serverVars, setupVars, SInv,
       STypeOK
  <2>3. waiting' \in 0..MaxCalls
    <3>1. waiting \in 0..MaxCalls /\ Len(given) \in 0..MaxCalls /\ MaxCalls \in Nat
      BY MaxCallsAssumption DEF SInv, STypeOK, Latest
    <3>2. CASE ClientArrives
      BY <3>1, <3>2 DEF ClientArrives
    <3>3. CASE AcceptFails
      BY <3>1, <3>3 DEF AcceptFails, AcceptReady
    <3> QED
      BY <3>1, <3>2, <3>3 DEF Construct, ConstructAborts, setCallbacks, ServerStart, StartFails,
         Destroy, ServerSetThreadNum, PeerCloses, serverVars
  <2>4. closedByPeer' \subseteq Accepted
    BY DEF Construct, ConstructAborts, setCallbacks, ServerStart, StartFails, Destroy,
       ServerSetThreadNum, ClientArrives, AcceptFails, PeerCloses, serverVars, SInv, STypeOK
  <2>5. \A c \in Accepted : /\ EstablishPending(c)' <=> EstablishPending(c)
                            /\ Establishing(c)' <=> Establishing(c)
    BY <2>1 DEF EstablishPending, Establishing
  <2>6. failed' \in Ends
    BY <1>2 DEF Ends
  <2> QED
    BY <2>1, <2>2, <2>3, <2>4, <2>5, <2>6 DEF SInv, STypeOK
<1> QED
  BY <1>1, <1>5, <1>6, UnconcernedKeepsSInv

-----------------------------------------------------------------------------
(* The queues of the loops, descriptors that are closed, callbacks.          *)

\* The first functor of a loop is of one of its connections.
LEMMA PendingHead ==
    ASSUME STypeOK, PendingAtHome, NEW l \in LoopIds, functors[l] # << >>
    PROVE  LET c == Head(functors[l]) IN
           /\ c \in Accepted /\ given[c] = l /\ EstablishPending(c)
           /\ 1 \in DOMAIN functors[l] /\ c = functors[l][1]
<1>1. functors[l] \in Seq(Conns)
  BY DEF STypeOK
<1>2. 1 \in DOMAIN functors[l] /\ Head(functors[l]) = functors[l][1]
  BY <1>1, HeadTailProperties, LenProperties, EmptySeq
<1> QED
  BY <1>2 DEF PendingAtHome, EstablishPending

\* A connection that is being established is the first of its loop.
LEMMA EstablishingAtHome ==
    ASSUME STypeOK, PendingAtHome, NEW c \in Accepted, Establishing(c)
    PROVE  /\ given[c] \in establishing /\ functors[given[c]] # << >>
           /\ Head(functors[given[c]]) = c /\ EstablishPending(c)
<1>1. PICK l \in establishing : functors[l] # << >> /\ Head(functors[l]) = c
  BY DEF Establishing
<1>2. l \in LoopIds
  BY DEF STypeOK
<1> QED
  BY <1>1, <1>2, PendingHead

\* A functor that joins the queue of a loop, and one that leaves it.
LEMMA PendingAppend ==
    ASSUME STypeOK, NEW l \in LoopIds, NEW c \in Conns,
           functors' = [functors EXCEPT ![l] = Append(@, c)]
    PROVE  /\ functors' \in [LoopIds -> Seq(Conns)]
           /\ \A k \in LoopIds : k # l => functors'[k] = functors[k]
           /\ DOMAIN functors'[l] = DOMAIN functors[l] \cup {Len(functors[l]) + 1}
           /\ DOMAIN functors[l] = 1..Len(functors[l]) /\ Len(functors[l]) \in Nat
           /\ \A i \in DOMAIN functors[l] : functors'[l][i] = functors[l][i]
           /\ functors'[l][Len(functors[l]) + 1] = c
           /\ \A d \in Conns : EstablishPending(d)' <=> EstablishPending(d) \/ d = c
<1> DEFINE s == functors[l]
<1>1. s \in Seq(Conns) /\ functors \in [LoopIds -> Seq(Conns)]
  BY DEF STypeOK
<1>2. /\ Append(s, c) \in Seq(Conns) /\ Len(Append(s, c)) = Len(s) + 1
      /\ \A i \in 1..Len(s) : Append(s, c)[i] = s[i]
      /\ Append(s, c)[Len(s) + 1] = c /\ Len(s) \in Nat /\ DOMAIN s = 1..Len(s)
      /\ DOMAIN Append(s, c) = 1..(Len(s) + 1)
  BY <1>1, AppendProperties, LenProperties
<1>3. /\ functors'[l] = Append(s, c)
      /\ \A k \in LoopIds : k # l => functors'[k] = functors[k]
      /\ functors' \in [LoopIds -> Seq(Conns)]
  BY <1>1, <1>2
<1>4. 1..(Len(s) + 1) = 1..Len(s) \cup {Len(s) + 1}
  BY <1>2
<1>5. \A d \in Conns : EstablishPending(d)' <=> EstablishPending(d) \/ d = c
  <2> HIDE DEF s
  <2>1. \A k \in LoopIds : k # l => functors'[k] = functors[k]
    BY <1>3
  <2>2. \A d \in Conns : (\E i \in DOMAIN functors'[l] : functors'[l][i] = d)
                          <=> (\E i \in DOMAIN s : s[i] = d) \/ d = c
    BY <1>2, <1>3, <1>4
  <2> QED
    BY <2>1, <2>2 DEF EstablishPending, s
<1> QED
  BY <1>2, <1>3, <1>4, <1>5

\* The first functor of a loop is of a connection that is in no queue after it.
LEMMA PendingTail ==
    ASSUME SInv, Running, NEW l \in LoopIds, functors[l] # << >>,
           functors' = [functors EXCEPT ![l] = Tail(@)]
    PROVE  LET c == Head(functors[l]) IN
           /\ functors' \in [LoopIds -> Seq(Conns)]
           /\ \A k \in LoopIds : k # l => functors'[k] = functors[k]
           /\ \A i \in DOMAIN functors'[l] : /\ i \in Nat /\ i + 1 \in DOMAIN functors[l]
                                             /\ functors'[l][i] = functors[l][i + 1]
           /\ \A d \in Conns : EstablishPending(d)' <=> EstablishPending(d) /\ d # c
<1> DEFINE s == functors[l]
           c == Head(s)
<1>1. s \in Seq(Conns) /\ s # << >> /\ functors \in [LoopIds -> Seq(Conns)]
  BY DEF SInv, STypeOK
<1>2. /\ Tail(s) \in Seq(Conns) /\ Len(s) \in Nat /\ Len(s) > 0 /\ DOMAIN s = 1..Len(s)
      /\ Len(Tail(s)) = Len(s) - 1 /\ DOMAIN Tail(s) = 1..(Len(s) - 1) /\ c = s[1]
      /\ \A i \in 1..(Len(s) - 1) : Tail(s)[i] = s[i + 1]
  BY <1>1, HeadTailProperties, LenProperties, EmptySeq
<1>3. /\ functors'[l] = Tail(s) /\ functors' \in [LoopIds -> Seq(Conns)]
      /\ \A k \in LoopIds : k # l => functors'[k] = functors[k]
  BY <1>1, <1>2
<1>4. /\ \A i \in DOMAIN s : /\ s[i] \in Accepted /\ given[s[i]] = l
                             /\ \A j \in DOMAIN s : i < j => s[i] < s[j]
      /\ \A k \in LoopIds : \A i \in DOMAIN functors[k] : given[functors[k][i]] = k
  BY DEF SInv, PendingAtHome
<1>5. c \in Accepted /\ given[c] = l /\ Accepted \subseteq Conns
  BY <1>2, <1>4, Numbers DEF SInv
<1> HIDE DEF s, c
<1>6. \A i \in 1..(Len(s) - 1) : s[i + 1] # c
  <2>1. \A i \in 1..Len(s) : s[i] \in Nat /\ (1 < i => s[1] < s[i])
    <3>1. \A i \in 1..Len(s) : s[i] \in Conns
      BY <1>1, ElementOfSeq
    <3>2. \A i \in 1..Len(s) : 1 < i => s[1] < s[i]
      BY <1>2, <1>4
    <3> QED
      BY <3>1, <3>2, MaxCallsAssumption DEF Conns
  <2> SUFFICES ASSUME NEW i \in 1..(Len(s) - 1) PROVE s[i + 1] # s[1]
    BY <1>2
  <2>2. i + 1 \in 1..Len(s) /\ 1 < i + 1 /\ 1 \in 1..Len(s)
    BY <1>2
  <2> QED
    BY <2>1, <2>2
<1>7. \A d \in Conns : (\E i \in DOMAIN functors'[l] : functors'[l][i] = d)
                        <=> (\E i \in DOMAIN s : s[i] = d) /\ d # c
  <2> TAKE d \in Conns
  <2>1. ASSUME NEW i \in DOMAIN s, s[i] = d, d # c
        PROVE  i - 1 \in DOMAIN functors'[l] /\ functors'[l][i - 1] = d
    <3>1. i \in 2..Len(s)
      BY <1>2, <2>1
    <3>2. i - 1 \in 1..(Len(s) - 1) /\ (i - 1) + 1 = i
      BY <1>2, <3>1
    <3>3. Tail(s)[i - 1] = s[(i - 1) + 1]
      BY <1>2, <3>2
    <3> QED
      BY <1>2, <1>3, <2>1, <3>2, <3>3
  <2>2. ASSUME NEW i \in DOMAIN functors'[l], functors'[l][i] = d
        PROVE  i + 1 \in DOMAIN s /\ s[i + 1] = d /\ d # c
    <3>1. i \in 1..(Len(s) - 1) /\ Tail(s)[i] = d
      BY <1>2, <1>3, <2>2
    <3>2. i + 1 \in 1..Len(s)
      BY <1>2, <3>1
    <3> QED
      BY <1>2, <1>6, <3>1, <3>2
  <2> QED
    BY <2>1, <2>2
<1>8. \A k \in LoopIds : k # l => \A i \in DOMAIN functors[k] : functors[k][i] # c
  BY <1>4, <1>5
<1>9. \A d \in Conns : EstablishPending(d)' <=> EstablishPending(d) /\ d # c
  BY <1>3, <1>7, <1>8 DEF EstablishPending, s
<1> QED
  BY <1>2, <1>3, <1>9 DEF s, c

\* ~Socket closes the descriptors of those that nobody holds any more, and no other.
LEMMA Closes ==
    ASSUME SInv, Running, CloseFds(NoFd),
           \A c \in Accepted : Held(c)' => Held(c),
           \A c \in Conns \ Accepted : ~Held(c)'
    PROVE  /\ fd' \in [Conns -> Fds \cup {NoFd}] /\ openFds' \subseteq Fds
           /\ openFds' = {fd'[c] : c \in {d \in Conns : fd'[d] # NoFd}}
           /\ \A c, d \in Conns : fd'[c] = fd'[d] /\ fd'[c] # NoFd => c = d
           /\ \A c \in Accepted : IF Held(c)' THEN fd'[c] = fd[c] /\ fd[c] # NoFd
                                  ELSE fd'[c] = NoFd
           /\ \A c \in Conns \ Accepted : fd'[c] = NoFd
<1>1. /\ fd' = [c \in Conns |-> IF Held(c)' THEN fd[c] ELSE NoFd]
      /\ openFds' = openFds \ ({fd[c] : c \in {d \in Conns : ~Held(d)'}} \cup {NoFd})
  BY DEF CloseFds
<1>2. /\ fd \in [Conns -> Fds \cup {NoFd}] /\ openFds \subseteq Fds
      /\ openFds = {fd[c] : c \in {d \in Conns : fd[d] # NoFd}}
      /\ \A c, d \in Conns : fd[c] = fd[d] /\ fd[c] # NoFd => c = d
      /\ \A c \in Accepted : Held(c) => fd[c] # NoFd
      /\ \A c \in Conns \ Accepted : fd[c] = NoFd
      /\ Accepted \subseteq Conns
  BY Numbers DEF SInv, STypeOK, FdsOwned, Unaccepted
<1> DEFINE H(c) == Held(c)'
<1>3. /\ fd' = [c \in Conns |-> IF H(c) THEN fd[c] ELSE NoFd]
      /\ openFds' = openFds \ ({fd[c] : c \in {d \in Conns : ~H(d)}} \cup {NoFd})
      /\ \A c \in Accepted : H(c) => Held(c)
      /\ \A c \in Conns \ Accepted : ~H(c)
  BY <1>1
<1>4. \A c \in Conns : fd'[c] = IF H(c) THEN fd[c] ELSE NoFd
  BY <1>3
<1> HIDE DEF H
<1>5. \A f \in openFds' : \E c \in Conns : fd'[c] = f /\ fd'[c] # NoFd
  <2> SUFFICES ASSUME NEW f \in openFds' PROVE \E c \in Conns : fd'[c] = f /\ fd'[c] # NoFd
    OBVIOUS
  <2>1. PICK c \in Conns : fd[c] = f /\ fd[c] # NoFd
    BY <1>2, <1>3
  <2>2. H(c)
    BY <1>3, <2>1
  <2> QED
    BY <1>4, <2>1, <2>2
<1>6. \A c \in Conns : fd'[c] # NoFd => fd'[c] \in openFds'
  <2> SUFFICES ASSUME NEW c \in Conns, fd'[c] # NoFd PROVE fd'[c] \in openFds'
    OBVIOUS
  <2>1. H(c) /\ fd'[c] = fd[c] /\ fd[c] # NoFd
    BY <1>4
  <2>2. fd[c] \in openFds
    BY <1>2, <2>1
  <2>3. \A d \in Conns : ~H(d) => fd[d] # fd[c]
    BY <1>2, <2>1
  <2> QED
    BY <1>3, <2>1, <2>2, <2>3
<1>7. openFds' = {fd'[c] : c \in {d \in Conns : fd'[d] # NoFd}}
  BY <1>5, <1>6
<1>8. \A c, d \in Conns : fd'[c] = fd'[d] /\ fd'[c] # NoFd => c = d
  BY <1>2, <1>4
<1>9. /\ \A c \in Accepted : IF H(c) THEN fd'[c] = fd[c] /\ fd[c] # NoFd ELSE fd'[c] = NoFd
      /\ \A c \in Conns \ Accepted : fd'[c] = NoFd
  BY <1>2, <1>3, <1>4
<1>10. fd' \in [Conns -> Fds \cup {NoFd}] /\ openFds' \subseteq Fds
  BY <1>2, <1>3
<1> QED
  BY <1>7, <1>8, <1>9, <1>10 DEF H

\* A step on which only connections that are held already may get holders.
NoNewHolder ==
    /\ UNCHANGED vars
    /\ m_connectionList' \subseteq m_connectionList
    /\ \A d \in kept' : Held(d)
    /\ accepting' => accepting
    /\ \A d \in Conns : EstablishPending(d)' => EstablishPending(d)

LEMMA Closing ==
    ASSUME SInv, Running, CloseFds(NoFd), NoNewHolder
    PROVE  /\ fd' \in [Conns -> Fds \cup {NoFd}] /\ openFds' \subseteq Fds
           /\ \A d \in Conns \ Accepted : fd'[d] = NoFd
           /\ \A d \in Accepted : fd'[d] \in {fd[d], NoFd}
           /\ (\A d \in Accepted : Held(d)' \/ m_state'[d] = "kDisconnected") => FdsOwned'
<1>1. Accepted' = Accepted /\ Latest' = Latest /\ Accepted \subseteq Conns
  BY Numbers DEF NoNewHolder, vars, Accepted, Latest, SInv
<1>2. \A d \in Conns : Held(d)' => Held(d)
  BY <1>1 DEF NoNewHolder, Held
<1>3. \A d \in Conns \ Accepted : ~Held(d)'
  <2>1. m_connectionList \subseteq Accepted /\ kept \subseteq Accepted
    BY DEF SInv, STypeOK
  <2>2. \A d \in Conns : EstablishPending(d) => d \in Accepted
    BY DEF SInv, PendingAtHome, EstablishPending
  <2>3. accepting => Latest \in Accepted
    BY Numbers DEF SInv, AcceptingLatest, Accepted, Latest
  <2> QED
    BY <1>2, <2>1, <2>2, <2>3 DEF Held
<1>4. /\ fd' \in [Conns -> Fds \cup {NoFd}] /\ openFds' \subseteq Fds
      /\ openFds' = {fd'[d] : d \in {e \in Conns : fd'[e] # NoFd}}
      /\ \A d, e \in Conns : fd'[d] = fd'[e] /\ fd'[d] # NoFd => d = e
      /\ \A d \in Accepted : IF Held(d)' THEN fd'[d] = fd[d] /\ fd[d] # NoFd
                             ELSE fd'[d] = NoFd
      /\ \A d \in Conns \ Accepted : fd'[d] = NoFd
  BY <1>1, <1>2, <1>3, Closes
<1>5. ASSUME \A d \in Accepted : Held(d)' \/ m_state'[d] = "kDisconnected" PROVE FdsOwned'
  BY <1>1, <1>4, <1>5 DEF FdsOwned
<1> QED
  BY <1>4, <1>5

\* A callback of the user for connection c.
LEMMA CallbackSeen ==
    ASSUME seen \in [Conns -> Seq(Callbacks)], NEW c \in Conns, NEW e \in Callbacks,
           seen' = [seen EXCEPT ![c] = Append(@, e)]
    PROVE  /\ seen' \in [Conns -> Seq(Callbacks)]
           /\ \A d \in Conns : d # c => seen'[d] = seen[d]
           /\ Len(seen[c]) \in Nat /\ DOMAIN seen[c] = 1..Len(seen[c])
           /\ DOMAIN seen'[c] = 1..(Len(seen[c]) + 1)
           /\ \A i \in 1..Len(seen[c]) : seen'[c][i] = seen[c][i]
           /\ seen'[c][Len(seen[c]) + 1] = e
           /\ \A call : Called(c, call)' <=> Called(c, call) \/ e.call = call
           /\ \A call : \A d \in Conns : d # c => (Called(d, call)' <=> Called(d, call))
<1> DEFINE n == Len(seen[c])
<1>1. seen[c] \in Seq(Callbacks)
  OBVIOUS
<1>2. /\ n \in Nat /\ DOMAIN seen[c] = 1..n /\ DOMAIN Append(seen[c], e) = 1..(n + 1)
      /\ Append(seen[c], e)[n + 1] = e
      /\ \A i \in 1..n : Append(seen[c], e)[i] = seen[c][i]
      /\ Append(seen[c], e) \in Seq(Callbacks)
  BY <1>1, AppendProperties, LenProperties
<1>3. seen'[c] = Append(seen[c], e) /\ \A d \in Conns : d # c => seen'[d] = seen[d]
  OBVIOUS
<1>4. seen' \in [Conns -> Seq(Callbacks)]
  BY <1>2
<1> HIDE DEF n
<1>5. 1..(n + 1) = 1..n \cup {n + 1}
  BY <1>2
<1>6. \A call : Called(c, call)' <=> Called(c, call) \/ e.call = call
  BY <1>2, <1>3, <1>5 DEF Called
<1>7. \A call : \A d \in Conns : d # c => (Called(d, call)' <=> Called(d, call))
  BY <1>3 DEF Called
<1> QED
  BY <1>2, <1>3, <1>4, <1>6, <1>7 DEF n

LEMMA UserViewKept ==
    ASSUME UserView, UNCHANGED <<given, seen>>, shut \subseteq shut', revived \subseteq revived'
    PROVE  UserView'
<1>1. Accepted' = Accepted
  BY DEF Accepted, Latest
<1>2. \A c \in Accepted : \A i, call : Before(c, i, call)' <=> Before(c, i, call)
  BY DEF Before
<1> QED
  BY <1>1, <1>2 DEF UserView

\* It keeps the view of the user in order, if it is in order itself.
LEMMA CallbackKeepsUserView ==
    ASSUME STypeOK, UserView, NEW c \in Accepted, NEW e \in Callbacks,
           seen' = [seen EXCEPT ![c] = Append(@, e)],
           UNCHANGED <<given, shut, revived>>,
           e.call \in {"message", "closed"} => Called(c, "established"),
           Called(c, "closed") /\ e.thread = given[c] => e.call = "closed" /\ c \in revived,
           \/ e.up \/ e.call = "closed" \/ c \in shut
           \/ e.call = "accepted" /\ e.thread # given[c] /\ ~Called(c, "established")
    PROVE  UserView'
<1>1. Accepted' = Accepted /\ Accepted \subseteq Conns /\ c \in Conns
  BY Numbers DEF Accepted, Latest
<1>2. /\ \A d \in Conns : d # c => seen'[d] = seen[d]
      /\ Len(seen[c]) \in Nat /\ DOMAIN seen[c] = 1..Len(seen[c])
      /\ DOMAIN seen'[c] = 1..(Len(seen[c]) + 1)
      /\ \A i \in 1..Len(seen[c]) : seen'[c][i] = seen[c][i]
      /\ seen'[c][Len(seen[c]) + 1] = e
  BY <1>1, CallbackSeen DEF STypeOK
<1> DEFINE n == Len(seen[c])
<1> HIDE DEF n
<1>3. n \in Nat /\ DOMAIN seen[c] = 1..n /\ DOMAIN seen'[c] = 1..n \cup {n + 1}
      /\ \A i \in 1..n : seen'[c][i] = seen[c][i]
      /\ seen'[c][n + 1] = e
  <2>1. 1..(Len(seen[c]) + 1) = 1..Len(seen[c]) \cup {Len(seen[c]) + 1}
    BY <1>2
  <2> QED
    BY <1>2, <2>1 DEF n
<1>4. \A call : \A i \in 1..n : Before(c, i, call)' <=> Before(c, i, call)
  <2> TAKE call
  <2> TAKE i \in 1..n
  <2>1. \A j \in 1..(i - 1) : j \in 1..n
    BY <1>3
  <2> QED
    BY <1>3, <2>1 DEF Before
<1>5. ASSUME NEW k, k = n + 1 PROVE \A call : Before(c, k, call)' <=> Called(c, call)
  <2>1. 1..(k - 1) = 1..n
    BY <1>3, <1>5
  <2> QED
    BY <1>3, <2>1 DEF Before, Called
<1> SUFFICES ASSUME NEW d \in Accepted, NEW i \in DOMAIN seen'[d]
             PROVE  LET view == seen'[d][i] IN
                    /\ view.call \in {"message", "closed"} => Before(d, i, "established")'
                    /\ Before(d, i, "closed")' /\ view.thread = given[d] =>
                           view.call = "closed" /\ d \in revived
                    /\ view.up \/ view.call = "closed" \/ d \in shut
                       \/ (view.call = "accepted" /\ view.thread # given[d]
                              /\ ~Before(d, i, "established")')
  BY <1>1 DEF UserView
<1>6. CASE d # c
  <2>1. seen'[d] = seen[d] /\ \A call : Before(d, i, call)' <=> Before(d, i, call)
    BY <1>1, <1>2, <1>6 DEF Before
  <2> QED
    BY <2>1 DEF UserView
<1>7. CASE d = c /\ i \in 1..n
  <2>1. /\ seen'[d][i] = seen[d][i] /\ i \in DOMAIN seen[d]
        /\ \A call : Before(d, i, call)' <=> Before(d, i, call)
    BY <1>3, <1>4, <1>7
  <2>2. LET view == seen[d][i] IN
        /\ view.call \in {"message", "closed"} => Before(d, i, "established")
        /\ Before(d, i, "closed") /\ view.thread = given[d] =>
               view.call = "closed" /\ d \in revived
        /\ view.up \/ view.call = "closed" \/ d \in shut
           \/ (view.call = "accepted" /\ view.thread # given[d] /\ ~Before(d, i, "established"))
    BY <2>1 DEF UserView
  <2> QED
    BY <2>1, <2>2
<1>8. CASE d = c /\ i = n + 1
  BY <1>3, <1>5, <1>8
<1> QED
  BY <1>3, <1>6, <1>7, <1>8

\* The entries of a map stay right while connections are established, and descriptors
\* only closed.
LEMMA MappedKept ==
    ASSUME MappedBy, UNCHANGED <<given, mapped>>,
           \A d \in Accepted : /\ m_state[d] # "kConnecting" => m_state'[d] # "kConnecting"
                               /\ fd'[d] \in {fd[d], NoFd}
    PROVE  MappedBy'
<1>1. Accepted' = Accepted
  BY DEF Accepted, Latest
<1> QED
  BY <1>1 DEF MappedBy

-----------------------------------------------------------------------------
(* The steps. *)

\* accept: connection c is new in every respect, and so is its descriptor.
LEMMA AcceptKeepsSInv == ASSUME SInv, IInv', Accept PROVE SInv'
<1>1. PICK c, l : c = Latest + 1 /\ l = given'[c]
  OBVIOUS
<1>2. /\ Running /\ Running' /\ ~accepting /\ accepting' /\ waiting > 0 /\ failed' = failed
      /\ STypeOK /\ Latest \in Nat /\ Len(given) = Latest /\ Latest < MaxCalls
      /\ BaseLoop \notin establishing
      /\ UNCHANGED <<listening, m_connCb, m_msgCb, kept, m_events, establishing, mapped, calls,
                     shutting, shut, revived, closedByPeer, seen>>
  BY Numbers DEF Accept, AcceptReady, LoopIdle, BaseIdle, getNextLoop, SInv, Latest, setupVars,
     callVars, Running
<1>3. /\ Latest' = c /\ c \in Conns /\ c \notin Accepted /\ l \in LoopIds
      /\ Accepted' = Accepted \cup {c} /\ \A d \in Accepted : given'[d] = given[d]
      /\ Accepted \subseteq Conns
  <2>1. PICK x \in LoopIds : given' = Append(given, x)
    <3>1. given' \in Seq(LoopIds) /\ \E x : given' = Append(given, x)
      BY DEF Accept, getNextLoop, IInv, TypeOK
    <3>2. given \in Seq(LoopIds)
      BY <1>2 DEF STypeOK, TypeOK
    <3>3. CASE Size = 0
      BY <3>3, MaxThreadNumAssumption DEF Accept, getNextLoop, BaseLoop, LoopIds
    <3>4. CASE Size # 0
      <4>1. m_next + 1 \in 1..Len(m_loops) /\ m_loops \in Seq(1..MaxThreadNum)
        BY <1>2, <3>4, LenProperties DEF STypeOK, TypeOK, Size
      <4>2. Chosen \in LoopIds
        BY <4>1, ElementOfSeq, MaxThreadNumAssumption DEF Chosen, LoopIds
      <4> QED
        BY <3>4, <4>2 DEF Accept, getNextLoop
    <3> QED
      BY <3>3, <3>4
  <2>2. /\ Len(given') = Latest + 1 /\ given'[Latest + 1] = x
        /\ \A d \in 1..Latest : given'[d] = given[d]
    <3>1. given \in Seq(LoopIds) /\ Len(given) = Latest
      BY <1>2 DEF STypeOK, TypeOK
    <3>2. /\ Len(Append(given, x)) = Len(given) + 1
          /\ Append(given, x)[Len(given) + 1] = x
          /\ \A d \in 1..Len(given) : Append(given, x)[d] = given[d]
      BY <3>1, AppendProperties
    <3> QED
      BY <2>1, <3>1, <3>2
  <2> QED
    BY <1>1, <1>2, <2>1, <2>2, MaxCallsAssumption DEF Latest, Accepted, Conns
<1>4. PICK new \in Fds \ openFds : /\ fd' = [fd EXCEPT ![c] = new]
                                   /\ openFds' = openFds \cup {new}
  BY <1>1 DEF Accept, NewSocket, Latest
<1>5. /\ m_connectionList' = m_connectionList \cup {c}
      /\ m_state' = [m_state EXCEPT ![c] = "kConnecting"]
      /\ functors' = [functors EXCEPT ![l] = Append(@, c)]
      /\ waiting' = waiting - 1
  BY <1>1 DEF Accept, Latest
<1>6. /\ functors' \in [LoopIds -> Seq(Conns)]
      /\ \A k \in LoopIds : k # l => functors'[k] = functors[k]
      /\ DOMAIN functors'[l] = DOMAIN functors[l] \cup {Len(functors[l]) + 1}
      /\ DOMAIN functors[l] = 1..Len(functors[l]) /\ Len(functors[l]) \in Nat
      /\ \A i \in DOMAIN functors[l] : functors'[l][i] = functors[l][i]
      /\ functors'[l][Len(functors[l]) + 1] = c
      /\ \A d \in Conns : EstablishPending(d)' <=> EstablishPending(d) \/ d = c
  BY <1>2, <1>3, <1>5, PendingAppend
<1>7. \A d \in Conns : Held(d)' <=> Held(d) \/ d = c
  BY <1>2, <1>3, <1>5, <1>6 DEF Held
<1>8. /\ m_state[c] = "none" /\ fd[c] = NoFd /\ seen[c] = << >> /\ m_events[c] = {}
      /\ calls[c] = << >>
      /\ \A d \in Accepted : m_state[d] # "none"
  BY <1>2, <1>3 DEF SInv, Unaccepted
<1>9. /\ ListMatches /\ UserView /\ FdsOwned /\ Unaccepted /\ PendingAtHome /\ MappedBy
      /\ StateAndList /\ ShuttingHolds /\ SeenByState
  BY <1>2, RunningInv
<1>10. \A d \in Accepted : /\ d # c /\ m_state'[d] = m_state[d] /\ fd'[d] = fd[d]
                           /\ given'[d] = given[d] /\ d \in Accepted' /\ d \in Conns
                           /\ EstablishPending(d)' <=> EstablishPending(d)
                           /\ Held(d)' <=> Held(d)
                           /\ d \in m_connectionList' <=> d \in m_connectionList
  BY <1>2, <1>3, <1>4, <1>5, <1>6, <1>7 DEF STypeOK
<1>11. /\ m_state'[c] = "kConnecting" /\ c \in Accepted' /\ EstablishPending(c)' /\ Held(c)'
       /\ c \in m_connectionList' /\ given'[c] = l
  BY <1>2, <1>3, <1>5, <1>6, <1>7, <1>1 DEF STypeOK
<1>12. ASSUME NEW k \in establishing
     PROVE  /\ functors[k] # << >> /\ functors'[k] # << >>
            /\ Head(functors'[k]) = Head(functors[k]) /\ Head(functors[k]) # c
  <2>1. k \in LoopIds /\ functors[k] # << >>
    BY <1>2, <1>9, <1>12 DEF STypeOK, PendingAtHome
  <2>2. /\ Head(functors[k]) \in Accepted
        /\ 1 \in DOMAIN functors[k] /\ Head(functors[k]) = functors[k][1]
    BY <1>2, <1>9, <2>1, PendingHead
  <2>3. functors'[k] \in Seq(Conns) /\ 1 \in DOMAIN functors'[k] /\ functors'[k][1] = functors[k][1]
    BY <1>6, <2>1, <2>2
  <2>4. functors'[k] # << >> /\ Head(functors'[k]) = functors'[k][1]
    BY <2>3, HeadTailProperties, LenProperties, EmptySeq
  <2> QED
    BY <1>3, <2>1, <2>2, <2>3, <2>4
<1>13. \A d \in Accepted' : Establishing(d)' <=> Establishing(d) /\ d # c
  BY <1>2, <1>12 DEF Establishing
<1>14. STypeOK'
  <2>1. waiting' \in 0..MaxCalls /\ Latest' \in 0..MaxCalls
    BY <1>1, <1>2, <1>3, <1>5, MaxCallsAssumption DEF STypeOK
  <2>2. \A d \in Accepted' :
            m_state'[d] = "kConnecting" <=> EstablishPending(d)' /\ ~Establishing(d)'
    BY <1>2, <1>3, <1>10, <1>11, <1>13 DEF STypeOK
  <2>3. TypeOK'
    BY DEF IInv
  <2>4. m_state' \in [Conns -> States] /\ fd' \in [Conns -> Fds \cup {NoFd}]
    BY <1>2, <1>4, <1>5 DEF STypeOK, States
  <2>5. shutting' \subseteq Users \X Accepted' /\ m_connectionList' \subseteq Accepted'
    BY <1>2, <1>3, <1>5 DEF STypeOK
  <2> QED
    BY <1>2, <1>3, <1>4, <1>6, <2>1, <2>2, <2>3, <2>4, <2>5 DEF STypeOK
<1>15. ListMatches' /\ StateAndList'
  <2>1. ListMatches'
    BY <1>2, <1>3, <1>9, <1>10, <1>11 DEF ListMatches
  <2>2. StateAndList'
    BY <1>2, <1>3, <1>8, <1>9, <1>10, <1>11 DEF StateAndList
  <2> QED
    BY <2>1, <2>2
<1>16. Unaccepted' /\ MappedBy' /\ ShuttingHolds'
  <2>1. Unaccepted'
    BY <1>2, <1>3, <1>4, <1>5, <1>8, <1>9 DEF STypeOK, Unaccepted
  <2>2. MappedBy'
    BY <1>2, <1>9, <1>10 DEF MappedBy
  <2>3. ShuttingHolds'
    BY <1>2, <1>9, <1>10 DEF STypeOK, ShuttingHolds
  <2> QED
    BY <2>1, <2>2, <2>3
<1>17. PendingAtHome'
  <2>1. \A k \in LoopIds : \A i \in DOMAIN functors[k] :
            /\ functors[k][i] \in Accepted /\ given[functors[k][i]] = k
            /\ \A j \in DOMAIN functors[k] : i < j => functors[k][i] < functors[k][j]
    BY <1>2 DEF SInv, PendingAtHome
  <2>2. \A d \in Accepted : d < c /\ given'[d] = given[d] /\ d \in Accepted'
    BY <1>1, <1>2, <1>3 DEF Accepted
  <2>3. given'[c] = l /\ c \in Accepted'
    BY <1>1, <1>3
  <2> SUFFICES ASSUME NEW k \in LoopIds, NEW i \in DOMAIN functors'[k]
               PROVE  /\ functors'[k][i] \in Accepted' /\ given'[functors'[k][i]] = k
                      /\ \A j \in DOMAIN functors'[k] : i < j => functors'[k][i] < functors'[k][j]
    BY <1>2, <1>12 DEF PendingAtHome
  <2>4. CASE k # l
    <3>1. functors'[k] = functors[k]
      BY <1>6, <2>4
    <3> QED
      BY <2>1, <2>2, <3>1
  <2>5. CASE k = l
    <3>1. CASE i \in DOMAIN functors[l]
      <4>1. /\ functors'[k][i] = functors[l][i] /\ functors[l][i] \in Accepted
            /\ given[functors[l][i]] = l
        BY <1>3, <1>6, <2>1, <2>5, <3>1
      <4>2. ASSUME NEW j \in DOMAIN functors'[k], i < j PROVE functors'[k][i] < functors'[k][j]
        <5>1. CASE j \in DOMAIN functors[l]
          BY <1>3, <1>6, <2>1, <2>5, <3>1, <4>2, <5>1
        <5>2. CASE j = Len(functors[l]) + 1
          BY <1>6, <2>2, <2>5, <4>1, <5>2
        <5> QED
          BY <1>6, <2>5, <5>1, <5>2
      <4> QED
        BY <2>2, <2>5, <4>1, <4>2
    <3>2. CASE i = Len(functors[l]) + 1
      BY <1>6, <2>3, <2>5, <3>2
    <3> QED
      BY <1>6, <2>5, <3>1, <3>2
  <2> QED
    BY <2>4, <2>5
<1>18. AcceptingLatest' /\ SeenByState'
  <2>1. AcceptingLatest'
    BY <1>1, <1>2, <1>3, <1>11 DEF AcceptingLatest
  <2>2. \A call : ~Called(c, call)'
    BY <1>2, <1>8 DEF Called
  <2>3. \A d \in Accepted : \A call : Called(d, call)' <=> Called(d, call)
    BY <1>2 DEF Called
  <2> QED
    BY <1>3, <1>9, <1>10, <1>11, <2>1, <2>2, <2>3 DEF SeenByState
<1>19. UserView'
  <2>1. DOMAIN seen'[c] = {}
    BY <1>2, <1>8
  <2> QED
    BY <1>2, <1>3, <1>9, <1>10, <2>1 DEF UserView, Before
<1>20. FdsOwned'
  <2>1. /\ \A d \in Conns : fd'[d] = IF d = c THEN new ELSE fd[d]
        /\ \A d \in Conns : fd[d] # new
        /\ new # NoFd
    BY <1>2, <1>3, <1>4, <1>9, NoFdAssumption DEF FdsOwned, STypeOK
  <2>2. \A f \in openFds' : \E d \in Conns : fd'[d] = f /\ fd'[d] # NoFd
    BY <1>2, <1>3, <1>4, <1>8, <1>9, <2>1 DEF FdsOwned
  <2>3. \A d \in Conns : fd'[d] # NoFd => fd'[d] \in openFds'
    BY <1>2, <1>3, <1>4, <1>9, <2>1 DEF FdsOwned
  <2>4. \A d, e \in Conns : fd'[d] = fd'[e] /\ fd'[d] # NoFd => d = e
    BY <1>2, <1>9, <2>1 DEF FdsOwned
  <2>5. \A d \in Accepted' : IF Held(d)' THEN fd'[d] # NoFd
                              ELSE fd'[d] = NoFd /\ m_state'[d] = "kDisconnected"
    BY <1>2, <1>3, <1>9, <1>10, <1>11, <2>1 DEF FdsOwned
  <2> QED
    BY <2>2, <2>3, <2>4, <2>5 DEF FdsOwned
<1>21. KnownEnds'
  BY <1>2 DEF KnownEnds, Running, SetupEnds
<1> QED
  BY <1>14, <1>15, <1>16, <1>17, <1>18, <1>19, <1>20, <1>21 DEF SInv

\* connectEstablished: the connection is connected and registered, unless its
\* descriptor is one that the loop still has in its map.
LEMMA EstablishKeepsSInv ==
    ASSUME SInv, IInv', NEW l \in LoopIds, connectEstablished(l) PROVE SInv'
<1>1. PICK c : c = Head(functors[l])
  OBVIOUS
<1>2. /\ Running /\ functors[l] # << >> /\ l \notin establishing
      /\ failed' = EstablishEnds(c, l)
      /\ m_state' = [m_state EXCEPT ![c] = "kConnected"]
      /\ m_events' = [m_events EXCEPT ![c] = {"IN"}]
      /\ mapped' = [mapped EXCEPT ![l] = @ \cup {fd[c]}]
      /\ establishing' = establishing \cup {l}
      /\ UNCHANGED <<given, m_loops, m_started, listening, waiting, m_connCb, m_msgCb, accepting,
                     m_connectionList, kept, fd, openFds, functors, calls, shutting, shut, revived,
                     closedByPeer, seen>>
  BY <1>1 DEF connectEstablished, vars, setupVars, holderVars, fdVars, callVars
<1>3. /\ STypeOK /\ ListMatches /\ UserView /\ FdsOwned /\ Unaccepted /\ PendingAtHome
      /\ AcceptingLatest /\ MappedBy /\ StateAndList /\ ShuttingHolds /\ SeenByState
  BY <1>2, RunningInv
<1>4. /\ c \in Accepted /\ given[c] = l /\ EstablishPending(c)
      /\ Accepted' = Accepted /\ Latest' = Latest /\ Accepted \subseteq Conns
  BY <1>1, <1>2, <1>3, PendingHead, Numbers DEF Accepted, Latest
<1>5. ~Establishing(c) /\ m_state[c] = "kConnecting"
  BY <1>2, <1>3, <1>4, EstablishingAtHome DEF STypeOK
<1>6. /\ c \in m_connectionList /\ Held(c) /\ fd[c] # NoFd /\ fd[c] \in Fds
  BY <1>2, <1>3, <1>4, <1>5 DEF ListMatches, Held, FdsOwned, STypeOK
<1>7. \A d \in Conns : /\ EstablishPending(d)' <=> EstablishPending(d)
                       /\ Held(d)' <=> Held(d)
                       /\ d # c => m_state'[d] = m_state[d] /\ m_events'[d] = m_events[d]
  BY <1>2, <1>3, <1>4 DEF EstablishPending, Held, STypeOK
<1>8. m_state'[c] = "kConnected" /\ m_events'[c] = {"IN"}
  BY <1>2, <1>3, <1>4 DEF STypeOK
<1>9. \A d \in Accepted : Establishing(d)' <=> Establishing(d) \/ d = c
  BY <1>1, <1>2 DEF Establishing
<1>10. failed' \in {"none", "fd in map"} /\ (failed' = "fd in map" => fd[c] \in mapped[l])
  BY <1>2, <1>5 DEF EstablishEnds
<1>11. STypeOK'
  <2>1. /\ m_state' \in [Conns -> States] /\ m_events' \in [Conns -> SUBSET {"IN", "OUT"}]
        /\ mapped' \in [LoopIds -> SUBSET Fds]
    BY <1>2, <1>3, <1>6 DEF STypeOK, States
  <2>2. \A d \in Accepted : m_state'[d] = "kConnecting" <=> EstablishPending(d)' /\ ~Establishing(d)'
    BY <1>3, <1>4, <1>7, <1>8, <1>9 DEF STypeOK
  <2> QED
    BY <1>2, <1>3, <1>4, <1>10, <2>1, <2>2 DEF STypeOK, IInv, Ends
<1>12. ListMatches' /\ FdsOwned'
  <2>1. ListMatches'
    BY <1>2, <1>3, <1>4, <1>6, <1>7, <1>8 DEF ListMatches
  <2>2. FdsOwned'
    BY <1>2, <1>3, <1>4, <1>6, <1>7 DEF FdsOwned
  <2> QED
    BY <2>1, <2>2
<1>13. Unaccepted' /\ PendingAtHome' /\ AcceptingLatest'
  <2>1. Unaccepted'
    BY <1>2, <1>3, <1>4, <1>7, <1>8 DEF Unaccepted
  <2>2. PendingAtHome' /\ AcceptingLatest'
    BY <1>2, <1>3, <1>4 DEF PendingAtHome, AcceptingLatest
  <2> QED
    BY <2>1, <2>2
<1>14. MappedBy'
  <2> SUFFICES ASSUME NEW k \in LoopIds, NEW f \in mapped'[k]
               PROVE  \E d \in Accepted :
                          given[d] = k /\ m_state'[d] # "kConnecting" /\ fd[d] \in {f, NoFd}
    BY <1>2, <1>4 DEF MappedBy
  <2>1. CASE f \in mapped[k]
    BY <1>3, <1>4, <1>7, <1>8, <2>1 DEF MappedBy
  <2>2. CASE k = l /\ f = fd[c]
    BY <1>4, <1>8, <2>2
  <2> QED
    BY <1>2, <1>3, <2>1, <2>2 DEF STypeOK
<1>15. StateAndList' /\ ShuttingHolds' /\ SeenByState'
  <2>1. StateAndList'
    BY <1>2, <1>3, <1>4, <1>6, <1>7, <1>8 DEF StateAndList
  <2>2. ShuttingHolds'
    BY <1>2, <1>3, <1>4, <1>7, <1>8 DEF ShuttingHolds, STypeOK
  <2>3. SeenByState'
    BY <1>2, <1>3, <1>4, <1>7 DEF SeenByState, Called
  <2> QED
    BY <2>1, <2>2, <2>3
<1>16. UserView'
  BY <1>2, <1>3, UserViewKept
<1>17. KnownEnds'
  <2>1. ASSUME failed' = "fd in map" PROVE \E d \in Accepted' : Reused(d)'
    <3>1. PICK d \in Accepted :
              given[d] = l /\ m_state[d] # "kConnecting" /\ fd[d] \in {fd[c], NoFd}
      BY <1>3, <1>10, <2>1 DEF MappedBy
    <3>2. d # c /\ fd[d] = NoFd
      BY <1>2, <1>3, <1>4, <1>5, <1>6, <3>1 DEF FdsOwned
    <3> QED
      BY <1>2, <1>4, <3>1, <3>2 DEF Reused
  <2>2. m_started'
    BY <1>2, <1>4, Started DEF SInv
  <2> QED
    BY <1>10, <2>1, <2>2 DEF KnownEnds, SetupEnds
<1> QED
  BY <1>11, <1>12, <1>13, <1>14, <1>15, <1>16, <1>17 DEF SInv

\* The end of connectEstablished: the callback, and the functor is gone.
LEMMA EstablishedKeepsSInv ==
    ASSUME SInv, IInv', NEW l \in LoopIds, EstablishedCallback(l), m_connCb PROVE SInv'
<1>1. PICK c, e : /\ c = Head(functors[l])
                  /\ e = [thread |-> l, call |-> "established", up |-> m_state[c] = "kConnected"]
  OBVIOUS
<1>2. /\ Running /\ Running' /\ l \in establishing
      /\ functors' = [functors EXCEPT ![l] = Tail(@)]
      /\ establishing' = establishing \ {l}
      /\ seen' = [seen EXCEPT ![c] = Append(@, e)]
      /\ kept' \in {kept, kept \cup {c}} /\ failed' = failed
      /\ UNCHANGED vars
      /\ UNCHANGED <<given, m_loops, m_started, listening, waiting, m_connCb, m_msgCb, accepting,
                     m_connectionList, m_state, m_events, mapped, calls, shutting, shut, revived,
                     closedByPeer>>
      /\ CloseFds(NoFd)
  BY <1>1 DEF EstablishedCallback, Saw, MayKeep, Running, vars, setupVars, connVars, callVars
<1>3. /\ STypeOK /\ ListMatches /\ UserView /\ FdsOwned /\ Unaccepted /\ PendingAtHome
      /\ AcceptingLatest /\ MappedBy /\ StateAndList /\ ShuttingHolds /\ SeenByState
  BY <1>2, RunningInv
<1>4. functors[l] # << >>
  BY <1>2, <1>3 DEF PendingAtHome
<1>5. /\ c \in Accepted /\ given[c] = l /\ EstablishPending(c) /\ c \in m_connectionList
      /\ Accepted' = Accepted /\ Latest' = Latest /\ Accepted \subseteq Conns
  BY <1>1, <1>2, <1>3, <1>4, PendingHead, Numbers DEF Accepted, Latest, SeenByState
<1>6. /\ functors' \in [LoopIds -> Seq(Conns)]
      /\ \A k \in LoopIds : k # l => functors'[k] = functors[k]
      /\ \A i \in DOMAIN functors'[l] : /\ i \in Nat /\ i + 1 \in DOMAIN functors[l]
                                        /\ functors'[l][i] = functors[l][i + 1]
      /\ \A d \in Conns : EstablishPending(d)' <=> EstablishPending(d) /\ d # c
  BY <1>1, <1>2, <1>4, PendingTail
<1>7. Establishing(c) /\ \A d \in Accepted : Establishing(d)' <=> Establishing(d) /\ d # c
  <2>1. \A k \in establishing : k \in LoopIds
    BY <1>3 DEF STypeOK
  <2>2. \A k \in establishing \ {l} : Head(functors[k]) # c
    BY <1>3, <1>5, <2>1, PendingHead DEF PendingAtHome
  <2>3. \A k \in establishing \ {l} : functors'[k] = functors[k]
    BY <1>6, <2>1
  <2> QED
    BY <1>1, <1>2, <1>4, <2>2, <2>3 DEF Establishing
<1>8. m_state[c] \in {"kConnected", "kDisConnecting"} /\ (m_state[c] = "kConnected" \/ c \in shut)
  BY <1>3, <1>5, <1>7 DEF STypeOK, States, StateAndList, Unaccepted
<1>9. /\ e \in Callbacks /\ e.thread = l /\ e.call = "established"
      /\ e.up = (m_state[c] = "kConnected")
  BY <1>1 DEF Callbacks
<1>10. /\ seen' \in [Conns -> Seq(Callbacks)]
       /\ \A d \in Conns : d # c => seen'[d] = seen[d]
       /\ \A call : Called(c, call)' <=> Called(c, call) \/ e.call = call
       /\ \A call : \A d \in Conns : d # c => (Called(d, call)' <=> Called(d, call))
  BY <1>2, <1>3, <1>5, <1>9, CallbackSeen DEF STypeOK
<1>11. UserView'
  BY <1>2, <1>3, <1>5, <1>8, <1>9, CallbackKeepsUserView DEF SeenByState
<1>12. \A d \in Conns : Held(d)' <=> Held(d)
  BY <1>2, <1>5, <1>6 DEF Held
<1>13. /\ fd' \in [Conns -> Fds \cup {NoFd}] /\ openFds' \subseteq Fds /\ FdsOwned'
       /\ \A d \in Conns \ Accepted : fd'[d] = NoFd
       /\ \A d \in Accepted : fd'[d] \in {fd[d], NoFd}
  <2>1. NoNewHolder
    BY <1>2, <1>5, <1>6 DEF NoNewHolder, Held
  <2>2. \A d \in Accepted : Held(d)' \/ m_state'[d] = "kDisconnected"
    BY <1>2, <1>3, <1>5, <1>12 DEF FdsOwned
  <2> QED
    BY <1>2, <2>1, <2>2, Closing
<1>14. STypeOK'
  <2>1. kept' \subseteq Accepted
    BY <1>2, <1>3, <1>5 DEF STypeOK
  <2>2. \A d \in Accepted : m_state[d] = "kConnecting" <=> EstablishPending(d)' /\ ~Establishing(d)'
    BY <1>3, <1>5, <1>6, <1>7 DEF STypeOK
  <2> QED
    BY <1>2, <1>3, <1>5, <1>6, <1>10, <1>13, <2>1, <2>2 DEF STypeOK, IInv
<1>15. ListMatches' /\ KnownEnds' /\ MappedBy'
  <2>1. ListMatches'
    BY <1>2, <1>3, <1>5, <1>12 DEF ListMatches
  <2>2. KnownEnds'
    BY <1>2 DEF KnownEnds, Running, SetupEnds
  <2>3. MappedBy'
    BY <1>2, <1>3, <1>13, MappedKept
  <2> QED
    BY <2>1, <2>2, <2>3
<1>16. Unaccepted' /\ AcceptingLatest' /\ StateAndList' /\ ShuttingHolds'
  <2>1. Unaccepted'
    BY <1>2, <1>3, <1>5, <1>10, <1>13 DEF Unaccepted
  <2>2. AcceptingLatest' /\ StateAndList' /\ ShuttingHolds'
    BY <1>2, <1>3, <1>5 DEF AcceptingLatest, StateAndList, ShuttingHolds
  <2> QED
    BY <2>1, <2>2
<1>17. SeenByState'
  BY <1>2, <1>3, <1>5, <1>6, <1>9, <1>10 DEF SeenByState
<1>18. PendingAtHome'
  <2>1. \A k \in LoopIds : \A i \in DOMAIN functors[k] :
            /\ functors[k][i] \in Accepted /\ given[functors[k][i]] = k
            /\ \A j \in DOMAIN functors[k] : i < j => functors[k][i] < functors[k][j]
    BY <1>3 DEF PendingAtHome
  <2>2. \A k \in establishing' : functors'[k] # << >>
    BY <1>2, <1>3, <1>6 DEF PendingAtHome, STypeOK
  <2> SUFFICES ASSUME NEW k \in LoopIds, NEW i \in DOMAIN functors'[k]
               PROVE  /\ functors'[k][i] \in Accepted /\ given[functors'[k][i]] = k
                      /\ \A j \in DOMAIN functors'[k] : i < j => functors'[k][i] < functors'[k][j]
    BY <1>2, <1>5, <2>2 DEF PendingAtHome
  <2>3. CASE k # l
    BY <1>6, <2>1, <2>3
  <2>4. CASE k = l
    <3>1. i + 1 \in DOMAIN functors[l] /\ functors'[l][i] = functors[l][i + 1] /\ i \in Nat
      BY <1>6, <2>4
    <3>2. ASSUME NEW j \in DOMAIN functors'[l], i < j PROVE functors'[l][i] < functors'[l][j]
      <4>1. j + 1 \in DOMAIN functors[l] /\ functors'[l][j] = functors[l][j + 1] /\ i + 1 < j + 1
        BY <1>6, <3>1, <3>2
      <4> QED
        BY <2>1, <3>1, <4>1
    <3> QED
      BY <2>1, <2>4, <3>1, <3>2
  <2> QED
    BY <2>3, <2>4
<1> QED
  BY <1>11, <1>13, <1>14, <1>15, <1>16, <1>17, <1>18 DEF SInv

\* A m_connCb that is not set ends the program.
LEMMA EmptyCallbackKeepsSInv ==
    ASSUME SInv, IInv', NEW l \in LoopIds, EstablishedCallback(l), ~m_connCb PROVE SInv'
<1>1. /\ Running /\ failed' = "empty callback" /\ ~Running'
      /\ UNCHANGED vars
      /\ UNCHANGED <<given, m_loops, m_started, listening, waiting, m_connCb, m_msgCb, accepting,
                     m_connectionList, kept, m_state, m_events, functors, establishing, mapped,
                     calls, shutting, shut, revived, closedByPeer, seen>>
      /\ CloseFds(NoFd)
  BY DEF EstablishedCallback, Running, vars, setupVars, connVars, callVars
<1>2. /\ STypeOK /\ UserView /\ PendingAtHome
  BY <1>1, RunningInv
<1>3. /\ Accepted' = Accepted /\ Latest' = Latest /\ Accepted \subseteq Conns
      /\ \A d \in Conns : /\ EstablishPending(d)' <=> EstablishPending(d)
                          /\ Establishing(d)' <=> Establishing(d)
  BY <1>1, <1>2, Numbers DEF Accepted, Latest, EstablishPending, Establishing
<1>4. fd' \in [Conns -> Fds \cup {NoFd}] /\ openFds' \subseteq Fds
  <2>1. NoNewHolder
    BY <1>1, <1>3 DEF NoNewHolder, Held
  <2> QED
    BY <1>1, <2>1, Closing
<1>5. STypeOK'
  BY <1>1, <1>2, <1>3, <1>4 DEF STypeOK, IInv, Ends
<1>6. UserView'
  BY <1>1, <1>2, <1>3, UserViewKept
<1>7. KnownEnds'
  <2>1. m_started'
    <3>1. l \in establishing
      BY DEF EstablishedCallback
    <3>2. Head(functors[l]) \in Accepted
      BY <1>2, <3>1, PendingHead DEF PendingAtHome
    <3> QED
      BY <1>1, <3>2, Started DEF SInv
  <2> QED
    BY <1>1, <2>1 DEF KnownEnds, SetupEnds
<1> QED
  BY <1>1, <1>5, <1>6, <1>7 DEF SInv, ListMatches, FdsOwned

\* A message is one more callback on the thread of the connection's loop.
LEMMA MessageKeepsSInv ==
    ASSUME SInv, IInv', NEW c \in Accepted, handleMessage(c) PROVE SInv'
<1>1. PICK e : e = [thread |-> given[c], call |-> "message", up |-> m_state[c] = "kConnected"]
  OBVIOUS
<1>2. /\ Running /\ "IN" \in m_events[c] /\ given[c] \notin establishing
      /\ UNCHANGED <<given, m_loops, m_started, listening, waiting, m_connCb, m_msgCb, accepting,
                     m_connectionList, m_state, m_events, fd, openFds, functors, establishing,
                     mapped, calls, shutting, shut, revived, closedByPeer>>
      /\ kept' \in {kept, kept \cup {c}}
      /\ \/ Running' /\ failed' = "none" /\ seen' = [seen EXCEPT ![c] = Append(@, e)]
         \/ ~m_msgCb /\ failed' = "empty callback" /\ ~Running' /\ seen' = seen
  <2>1. /\ Running /\ "IN" \in m_events[c] /\ given[c] \notin establishing
        /\ UNCHANGED <<given, m_loops, m_started, listening, waiting, m_connCb, m_msgCb, accepting,
                       m_connectionList, m_state, m_events, fd, openFds, functors, establishing,
                       mapped, calls, shutting, shut, revived, closedByPeer>>
    BY DEF handleMessage, LoopIdle, fdVars, vars, setupVars, connVars, loopVars, callVars
  <2>2. CASE m_msgCb
    BY <1>1, <2>1, <2>2 DEF handleMessage, Saw, MayKeep, Running
  <2>3. CASE ~m_msgCb
    BY <2>1, <2>3 DEF handleMessage, Running
  <2> QED
    BY <2>1, <2>2, <2>3
<1>3. /\ STypeOK /\ ListMatches /\ UserView /\ FdsOwned /\ Unaccepted /\ PendingAtHome
      /\ AcceptingLatest /\ MappedBy /\ StateAndList /\ ShuttingHolds /\ SeenByState
  BY <1>2, RunningInv
<1>4. /\ Accepted' = Accepted /\ Latest' = Latest /\ Accepted \subseteq Conns
      /\ given[c] \in LoopIds
      /\ \A d \in Conns : /\ EstablishPending(d)' <=> EstablishPending(d)
                          /\ Establishing(d)' <=> Establishing(d)
  BY <1>2, <1>3, Numbers DEF Accepted, Latest, EstablishPending, Establishing
<1>5. c \in m_connectionList /\ m_state[c] # "kConnecting"
  BY <1>2, <1>3 DEF ListMatches, StateAndList
<1>6. ~EstablishPending(c)
  BY <1>2, <1>3, <1>5, EstablishingAtHome DEF STypeOK
<1>7. m_state[c] = "kConnected" \/ c \in shut
  BY <1>3, <1>4, <1>5 DEF STypeOK, States, StateAndList, Unaccepted
<1>8. /\ e \in Callbacks /\ e.thread = given[c] /\ e.call = "message"
      /\ e.up = (m_state[c] = "kConnected")
  BY <1>1, <1>4 DEF Callbacks
<1>9. /\ seen' \in [Conns -> Seq(Callbacks)]
      /\ \A d \in Conns : d # c => seen'[d] = seen[d]
      /\ \A call : Called(c, call)' <=> Called(c, call) \/ (e.call = call /\ Running')
      /\ \A call : \A d \in Conns : d # c => (Called(d, call)' <=> Called(d, call))
  <2>1. CASE seen' = [seen EXCEPT ![c] = Append(@, e)] /\ Running'
    <3>1. c \in Conns /\ seen \in [Conns -> Seq(Callbacks)] /\ e \in Callbacks
      BY <1>3, <1>4, <1>8 DEF STypeOK
    <3>2. /\ seen' \in [Conns -> Seq(Callbacks)]
          /\ \A d \in Conns : d # c => seen'[d] = seen[d]
          /\ \A call : Called(c, call)' <=> Called(c, call) \/ e.call = call
          /\ \A call : \A d \in Conns : d # c => (Called(d, call)' <=> Called(d, call))
      BY <2>1, <3>1, CallbackSeen
    <3> QED
      BY <2>1, <3>2
  <2>2. CASE seen' = seen /\ ~Running'
    BY <1>3, <2>2 DEF STypeOK, Called
  <2> QED
    BY <1>2, <2>1, <2>2
<1>10. UserView'
  <2>1. CASE seen' = [seen EXCEPT ![c] = Append(@, e)]
    <3>1. Called(c, "established") /\ ~Called(c, "closed")
      BY <1>3, <1>5, <1>6 DEF SeenByState
    <3> QED
      BY <1>2, <1>3, <1>7, <1>8, <2>1, <3>1, CallbackKeepsUserView
  <2>2. CASE seen' = seen
    BY <1>2, <1>3, <1>4, <2>2, UserViewKept
  <2> QED
    BY <1>2, <2>1, <2>2
<1>11. \A d \in Conns : Held(d)' <=> Held(d)
  BY <1>2, <1>4, <1>5 DEF Held
<1>12. STypeOK'
  <2>1. kept' \subseteq Accepted
    BY <1>2, <1>3 DEF STypeOK
  <2>2. failed' \in Ends
    BY <1>2, <1>3 DEF STypeOK, Ends
  <2> QED
    BY <1>2, <1>3, <1>4, <1>9, <2>1, <2>2 DEF STypeOK, IInv
<1>13. ListMatches' /\ FdsOwned' /\ KnownEnds'
  <2>1. ListMatches' /\ FdsOwned'
    BY <1>2, <1>3, <1>4, <1>11 DEF ListMatches, FdsOwned
  <2>2. m_started'
    BY <1>2, Started DEF SInv
  <2>3. KnownEnds'
    BY <1>2, <2>2 DEF KnownEnds, Running, SetupEnds
  <2> QED
    BY <2>1, <2>3
<1>14. Unaccepted' /\ PendingAtHome' /\ AcceptingLatest' /\ MappedBy'
  <2>1. Unaccepted'
    BY <1>2, <1>3, <1>4, <1>9 DEF Unaccepted
  <2>2. PendingAtHome' /\ AcceptingLatest' /\ MappedBy'
    BY <1>2, <1>3, <1>4 DEF PendingAtHome, AcceptingLatest, MappedBy
  <2> QED
    BY <2>1, <2>2
<1>15. StateAndList' /\ ShuttingHolds' /\ SeenByState'
  <2>1. StateAndList' /\ ShuttingHolds'
    BY <1>2, <1>3, <1>4 DEF StateAndList, ShuttingHolds
  <2>2. SeenByState'
    BY <1>2, <1>3, <1>4, <1>8, <1>9 DEF SeenByState
  <2> QED
    BY <2>1, <2>2
<1> QED
  BY <1>10, <1>12, <1>13, <1>14, <1>15 DEF SInv

\* handleClose with removeConnection.  While the program runs on, the connection was
\* listed and is of the base loop.
LEMMA CloseKeepsSInv ==
    ASSUME SInv, IInv', NEW c \in Accepted, handleClose(c) PROVE SInv'
<1>1. PICK e : e = [thread |-> given[c], call |-> "closed", up |-> FALSE]
  OBVIOUS
<1>2. /\ Running /\ m_events[c] # {} /\ given[c] \notin establishing
      /\ given[c] = BaseLoop => ~accepting
      /\ m_state' = [m_state EXCEPT ![c] = "kDisconnected"]
      /\ m_events' = [m_events EXCEPT ![c] = {}]
      /\ kept' \in {kept, kept \cup {c}}
      /\ \/ m_connectionList' = m_connectionList
         \/ m_connectionList' = m_connectionList \ {c}
      /\ given[c] = BaseLoop => m_connectionList' = m_connectionList \ {c}
      /\ UNCHANGED vars
      /\ UNCHANGED <<given, m_loops, m_started, listening, waiting, m_connCb, m_msgCb, accepting,
                     functors, establishing, mapped, calls, shutting, shut, revived,
                     closedByPeer>>
      /\ CloseFds(NoFd)
  BY DEF handleClose, LoopIdle, BaseIdle, MayKeep, vars, setupVars, loopVars, callVars
<1>3. /\ STypeOK /\ ListMatches /\ UserView /\ FdsOwned /\ Unaccepted /\ PendingAtHome
      /\ AcceptingLatest /\ MappedBy /\ StateAndList /\ ShuttingHolds /\ SeenByState
  BY <1>2, RunningInv
<1>4. /\ Accepted' = Accepted /\ Latest' = Latest /\ Accepted \subseteq Conns
      /\ given[c] \in LoopIds
      /\ \A d \in Conns : /\ EstablishPending(d)' <=> EstablishPending(d)
                          /\ Establishing(d)' <=> Establishing(d)
  BY <1>2, <1>3, Numbers DEF Accepted, Latest, EstablishPending, Establishing
<1>5. /\ m_state'[c] = "kDisconnected" /\ m_events'[c] = {}
      /\ \A d \in Conns : d # c => m_state'[d] = m_state[d] /\ m_events'[d] = m_events[d]
      /\ m_state' \in [Conns -> States] /\ m_events' \in [Conns -> SUBSET {"IN", "OUT"}]
  BY <1>2, <1>3, <1>4 DEF STypeOK, States
<1>6. ~EstablishPending(c) /\ m_state[c] # "kConnecting"
  BY <1>2, <1>3, EstablishingAtHome DEF StateAndList, STypeOK
<1>7. Held(c) /\ (c \in m_connectionList \/ c \in revived)
  BY <1>2, <1>3 DEF ListMatches, StateAndList
<1>8. e \in Callbacks /\ e.thread = given[c] /\ e.call = "closed"
  BY <1>1, <1>4 DEF Callbacks
<1>9. seen' = [seen EXCEPT ![c] = Append(@, e)]
  <2>1. (m_state'[c] = "kConnected") = FALSE
    BY <1>5
  <2> QED
    BY <1>1, <2>1 DEF handleClose, Saw
<1>10. /\ seen' \in [Conns -> Seq(Callbacks)]
       /\ \A d \in Conns : d # c => seen'[d] = seen[d]
       /\ \A call : Called(c, call)' <=> Called(c, call) \/ e.call = call
       /\ \A call : \A d \in Conns : d # c => (Called(d, call)' <=> Called(d, call))
  BY <1>3, <1>4, <1>8, <1>9, CallbackSeen DEF STypeOK
<1>11. UserView'
  <2>1. Called(c, "established") /\ (Called(c, "closed") => c \in revived)
    BY <1>3, <1>6, <1>7 DEF SeenByState
  <2> QED
    BY <1>2, <1>3, <1>8, <1>9, <2>1, CallbackKeepsUserView
<1>12. \A d \in Conns : d # c => (Held(d)' <=> Held(d))
  BY <1>2, <1>4 DEF Held
<1>13. /\ fd' \in [Conns -> Fds \cup {NoFd}] /\ openFds' \subseteq Fds /\ FdsOwned'
       /\ \A d \in Conns \ Accepted : fd'[d] = NoFd
       /\ \A d \in Accepted : fd'[d] \in {fd[d], NoFd}
  <2>1. NoNewHolder
    BY <1>2, <1>4, <1>7 DEF NoNewHolder, Held
  <2>2. \A d \in Accepted : Held(d)' \/ m_state'[d] = "kDisconnected"
    BY <1>2, <1>3, <1>4, <1>5, <1>12 DEF FdsOwned
  <2> QED
    BY <1>2, <2>1, <2>2, Closing
<1>14. /\ failed' \in {"none", "not in loop thread", "erase", "stale event"}
       /\ Running' => given[c] = BaseLoop
       /\ failed' = "not in loop thread" => given[c] # BaseLoop
       /\ failed' = "erase" => c \notin m_connectionList
       /\ failed' = "stale event" => ~Held(c)'
  BY <1>2 DEF handleClose, CloseEnds, Running
<1>15. STypeOK'
  <2>1. kept' \subseteq Accepted /\ m_connectionList' \subseteq Accepted
    BY <1>2, <1>3 DEF STypeOK
  <2>2. \A d \in Accepted : m_state'[d] = "kConnecting" <=> EstablishPending(d)' /\ ~Establishing(d)'
    BY <1>3, <1>4, <1>5, <1>6 DEF STypeOK
  <2>3. failed' \in Ends
    BY <1>14 DEF Ends
  <2> QED
    BY <1>2, <1>3, <1>4, <1>5, <1>10, <1>13, <2>1, <2>2, <2>3 DEF STypeOK, IInv
<1>16. ASSUME Running' PROVE ListMatches'
  BY <1>2, <1>3, <1>4, <1>5, <1>12, <1>14, <1>16 DEF ListMatches
<1>17. KnownEnds'
  <2>1. given[c] # BaseLoop => Size' > 0
    BY <1>2, LenProperties DEF SInv, IInv, Alone, TypeOK, Size, Accepted, Latest
  <2>2. m_started'
    BY <1>2, Started DEF SInv
  <2>3. failed' = "erase" => revived' # {}
    BY <1>2, <1>7, <1>14
  <2>4. failed' = "stale event" => \E d \in Accepted' : ~Held(d)' /\ m_state'[d] = "kDisconnected"
    BY <1>4, <1>5, <1>14
  <2> QED
    BY <1>14, <2>1, <2>2, <2>3, <2>4 DEF KnownEnds, SetupEnds
<1>18. ASSUME Running' PROVE Unaccepted' /\ PendingAtHome' /\ AcceptingLatest' /\ MappedBy'
  <2>1. Unaccepted'
    BY <1>2, <1>3, <1>4, <1>5, <1>10, <1>13 DEF Unaccepted
  <2>2. PendingAtHome' /\ AcceptingLatest'
    BY <1>2, <1>3, <1>4, <1>14, <1>18 DEF PendingAtHome, AcceptingLatest
  <2>3. MappedBy'
    BY <1>2, <1>3, <1>4, <1>5, <1>13, MappedKept
  <2> QED
    BY <2>1, <2>2, <2>3
<1>19. ASSUME Running' PROVE StateAndList' /\ ShuttingHolds' /\ SeenByState'
  <2>1. StateAndList'
    BY <1>2, <1>3, <1>4, <1>5, <1>6, <1>14, <1>19 DEF StateAndList
  <2>2. ShuttingHolds'
    BY <1>2, <1>3, <1>4, <1>5 DEF ShuttingHolds, STypeOK
  <2>3. SeenByState'
    BY <1>2, <1>3, <1>4, <1>6, <1>8, <1>10, <1>14, <1>19 DEF SeenByState
  <2> QED
    BY <2>1, <2>2, <2>3
<1> QED
  BY <1>11, <1>13, <1>15, <1>16, <1>17, <1>18, <1>19 DEF SInv, ListMatches

\* ~TcpConnection where the user holds the last shared_ptr.
LEMMA UserDropsKeepsSInv ==
    ASSUME SInv, IInv', NEW c \in Accepted, UserDrops(c) PROVE SInv'
<1>1. /\ Running /\ c \in kept /\ kept' = kept \ {c}
      /\ \A u \in Users : <<u, c>> \notin shutting
      /\ failed' \in {"none", "destructor"}
      /\ failed' = IF Held(c)' \/ m_state[c] = "kDisconnected" THEN "none" ELSE "destructor"
      /\ UNCHANGED vars
      /\ UNCHANGED <<given, m_loops, m_started, listening, waiting, m_connCb, m_msgCb, accepting,
                     m_connectionList, m_state, m_events, functors, establishing, mapped, calls,
                     shutting, shut, revived, closedByPeer, seen>>
      /\ CloseFds(NoFd)
  BY DEF UserDrops, vars, setupVars, connVars, loopVars, callVars
<1>2. /\ STypeOK /\ ListMatches /\ UserView /\ FdsOwned /\ Unaccepted /\ PendingAtHome
      /\ AcceptingLatest /\ MappedBy /\ StateAndList /\ ShuttingHolds /\ SeenByState
  BY <1>1, RunningInv
<1>3. /\ Accepted' = Accepted /\ Latest' = Latest /\ Accepted \subseteq Conns
      /\ \A d \in Conns : /\ EstablishPending(d)' <=> EstablishPending(d)
                          /\ Establishing(d)' <=> Establishing(d)
                          /\ d # c => (Held(d)' <=> Held(d))
  BY <1>1, <1>2, Numbers DEF Accepted, Latest, EstablishPending, Establishing, Held
<1>4. Held(c) /\ (c \in m_connectionList => Held(c)')
  BY <1>1 DEF Held
<1>5. /\ fd' \in [Conns -> Fds \cup {NoFd}] /\ openFds' \subseteq Fds
      /\ \A d \in Conns \ Accepted : fd'[d] = NoFd
      /\ \A d \in Accepted : fd'[d] \in {fd[d], NoFd}
      /\ Running' => FdsOwned'
  <2>1. NoNewHolder
    BY <1>1, <1>2, <1>3 DEF NoNewHolder, Held
  <2>2. Running' => \A d \in Accepted : Held(d)' \/ m_state'[d] = "kDisconnected"
    BY <1>1, <1>2, <1>3 DEF FdsOwned, Running
  <2> QED
    BY <1>1, <2>1, <2>2, Closing
<1>6. STypeOK'
  <2>1. kept' \subseteq Accepted
    BY <1>1, <1>2 DEF STypeOK
  <2> QED
    BY <1>1, <1>2, <1>3, <1>5, <2>1 DEF STypeOK, IInv, Ends
<1>7. ASSUME Running' PROVE ListMatches'
  BY <1>1, <1>2, <1>3, <1>7 DEF ListMatches, StateAndList, Running
<1>8. UserView'
  BY <1>1, <1>2, <1>3, UserViewKept
<1>9. KnownEnds'
  <2>1. failed' = "destructor" => revived' # {}
    BY <1>1, <1>2, <1>4 DEF StateAndList
  <2>2. m_started'
    BY <1>1, Started DEF SInv
  <2> QED
    BY <1>1, <2>1, <2>2 DEF KnownEnds, SetupEnds, Running
<1>10. Unaccepted' /\ PendingAtHome' /\ AcceptingLatest' /\ MappedBy'
  <2>1. Unaccepted' /\ PendingAtHome' /\ AcceptingLatest'
    BY <1>1, <1>2, <1>3, <1>5 DEF Unaccepted, PendingAtHome, AcceptingLatest
  <2>2. MappedBy'
    BY <1>1, <1>2, <1>5, MappedKept
  <2> QED
    BY <2>1, <2>2
<1>11. StateAndList' /\ ShuttingHolds' /\ SeenByState'
  <2>1. ShuttingHolds'
    <3>1. \A p \in shutting : p[2] \in kept /\ p[2] # c
      BY <1>1, <1>2 DEF ShuttingHolds, STypeOK
    <3> QED
      BY <1>1, <1>2, <3>1 DEF ShuttingHolds
  <2>2. StateAndList' /\ SeenByState'
    BY <1>1, <1>2, <1>3 DEF StateAndList, SeenByState, Called
  <2> QED
    BY <2>1, <2>2
<1> QED
  BY <1>5, <1>6, <1>7, <1>8, <1>9, <1>10, <1>11 DEF SInv, ListMatches, FdsOwned

\* The callback at the end of handleNewConn: the connection is listed, so the temporary
\* shared_ptr is not its last.
LEMMA CallConnCbKeepsSInv == ASSUME SInv, IInv', CallConnCb PROVE SInv'
<1>1. PICK c, e : /\ c = Latest
                  /\ e = [thread |-> BaseLoop, call |-> "accepted",
                          up |-> m_state[c] = "kConnected"]
  OBVIOUS
<1>2. /\ Running /\ Running' /\ accepting /\ accepting' = FALSE /\ functors[BaseLoop] = << >>
      /\ UNCHANGED vars
      /\ UNCHANGED <<given, m_loops, m_started, listening, waiting, m_connCb, m_msgCb,
                     m_connectionList, m_state, m_events, functors, establishing, mapped, calls,
                     shutting, shut, revived, closedByPeer, failed>>
      /\ \/ seen' = [seen EXCEPT ![c] = Append(@, e)] /\ kept' \in {kept, kept \cup {c}}
         \/ seen' = seen /\ kept' = kept
      /\ CloseFds(NoFd)
  BY <1>1 DEF CallConnCb, Running, MayKeep, Saw, vars, setupVars, connVars, loopVars, callVars
<1>3. /\ STypeOK /\ ListMatches /\ UserView /\ FdsOwned /\ Unaccepted /\ PendingAtHome
      /\ AcceptingLatest /\ MappedBy /\ StateAndList /\ ShuttingHolds /\ SeenByState
  BY <1>2, RunningInv
<1>4. /\ Accepted' = Accepted /\ Latest' = Latest /\ Accepted \subseteq Conns
      /\ \A d \in Conns : /\ EstablishPending(d)' <=> EstablishPending(d)
                          /\ Establishing(d)' <=> Establishing(d)
      /\ c \in Accepted
  <2>1. c \in Accepted
    BY <1>1, <1>2, <1>3, Numbers DEF AcceptingLatest, Accepted, Latest
  <2> QED
    BY <1>2, <1>3, <2>1, Numbers DEF Accepted, Latest, EstablishPending, Establishing
<1>5. c \in m_connectionList
  BY <1>1, <1>2, <1>3, <1>4 DEF AcceptingLatest, StateAndList
<1>6. given[c] = BaseLoop => ~EstablishPending(c)
  <2>1. DOMAIN functors[BaseLoop] = {}
    BY <1>2
  <2> QED
    BY <1>3, <2>1 DEF PendingAtHome, EstablishPending
<1>7. m_state[c] = "kConnected" \/ c \in shut \/ (m_state[c] = "kConnecting" /\ EstablishPending(c))
  BY <1>3, <1>4, <1>5 DEF STypeOK, States, StateAndList, Unaccepted
<1>8. /\ e \in Callbacks /\ e.thread = BaseLoop /\ e.call = "accepted"
      /\ e.up = (m_state[c] = "kConnected")
  <2>1. BaseLoop \in LoopIds
    BY MaxThreadNumAssumption DEF BaseLoop, LoopIds
  <2> QED
    BY <1>1, <2>1 DEF Callbacks
<1>9. UserView'
  <2>1. CASE seen' = [seen EXCEPT ![c] = Append(@, e)]
    <3>1. ~Called(c, "closed") /\ (EstablishPending(c) => ~Called(c, "established"))
      BY <1>3, <1>4, <1>5 DEF SeenByState
    <3> QED
      BY <1>2, <1>3, <1>4, <1>6, <1>7, <1>8, <2>1, <3>1, CallbackKeepsUserView
  <2>2. CASE seen' = seen
    BY <1>2, <1>3, <1>4, <2>2, UserViewKept
  <2> QED
    BY <1>2, <2>1, <2>2
<1>10. /\ seen' \in [Conns -> Seq(Callbacks)]
       /\ \A d \in Conns : d # c => seen'[d] = seen[d]
       /\ \A d \in Conns : \A call \in {"established", "closed"} :
              Called(d, call)' <=> Called(d, call)
  <2>1. CASE seen' = [seen EXCEPT ![c] = Append(@, e)]
    BY <1>3, <1>4, <1>8, <2>1, CallbackSeen DEF STypeOK
  <2>2. CASE seen' = seen
    BY <1>3, <2>2 DEF STypeOK, Called
  <2> QED
    BY <1>2, <2>1, <2>2
<1>11. \A d \in Conns : Held(d)' <=> Held(d)
  BY <1>1, <1>2, <1>4, <1>5 DEF Held
<1>12. /\ fd' \in [Conns -> Fds \cup {NoFd}] /\ openFds' \subseteq Fds /\ FdsOwned'
       /\ \A d \in Conns \ Accepted : fd'[d] = NoFd
       /\ \A d \in Accepted : fd'[d] \in {fd[d], NoFd}
  <2>1. NoNewHolder
    BY <1>2, <1>4, <1>5 DEF NoNewHolder, Held
  <2>2. \A d \in Accepted : Held(d)' \/ m_state'[d] = "kDisconnected"
    BY <1>2, <1>3, <1>4, <1>11 DEF FdsOwned
  <2> QED
    BY <1>2, <2>1, <2>2, Closing
<1>13. STypeOK'
  <2>1. kept' \subseteq Accepted
    BY <1>2, <1>3, <1>4 DEF STypeOK
  <2> QED
    BY <1>2, <1>3, <1>4, <1>10, <1>12, <2>1 DEF STypeOK, IInv
<1>14. ListMatches' /\ KnownEnds' /\ MappedBy'
  <2>1. ListMatches'
    BY <1>2, <1>3, <1>4, <1>11 DEF ListMatches
  <2>2. KnownEnds'
    BY <1>2 DEF KnownEnds, Running, SetupEnds
  <2>3. MappedBy'
    BY <1>2, <1>3, <1>12, MappedKept
  <2> QED
    BY <2>1, <2>2, <2>3
<1>15. Unaccepted' /\ PendingAtHome' /\ AcceptingLatest'
  <2>1. Unaccepted'
    BY <1>2, <1>3, <1>4, <1>10, <1>12 DEF Unaccepted
  <2>2. PendingAtHome' /\ AcceptingLatest'
    BY <1>2, <1>3, <1>4 DEF PendingAtHome, AcceptingLatest
  <2> QED
    BY <2>1, <2>2
<1>16. StateAndList' /\ ShuttingHolds' /\ SeenByState'
  BY <1>2, <1>3, <1>4, <1>10 DEF StateAndList, ShuttingHolds, SeenByState
<1> QED
  BY <1>9, <1>12, <1>13, <1>14, <1>15, <1>16 DEF SInv

\* What send and shutDown do to a connection, whoever calls them.
Talked(c) ==
    /\ Running
    /\ UNCHANGED <<vars, setupVars, waiting, accepting, holderVars, fdVars, loopVars, closedByPeer,
                   seen>>
    /\ \A d \in Conns \ {c} : UNCHANGED <<m_state[d], m_events[d], calls[d]>>
    /\ m_state' \in [Conns -> States] /\ m_events' \in [Conns -> SUBSET {"IN", "OUT"}]
    /\ calls' \in [Conns -> Seq(Calls)]
    /\ shut \subseteq shut' /\ shut' \subseteq Accepted
    /\ revived \subseteq revived' /\ revived' \subseteq shut'
    /\ shutting' \subseteq Users \X Accepted
    /\ \/ m_state'[c] = m_state[c]
       \/ /\ m_state'[c] = "kDisConnecting" /\ m_state[c] # "kConnecting" /\ c \in shut' /\ Held(c)
          /\ m_state[c] = "kDisconnected" => c \in revived'
    /\ \/ m_events'[c] = m_events[c]
       \/ /\ m_events'[c] = m_events[c] \cup {"OUT"} /\ Held(c) /\ m_state'[c] = m_state[c]
          /\ m_state[c] \notin {"kConnecting", "kDisconnected"}
    /\ m_state[c] = "kConnecting" => calls'[c] = << >>
    /\ \A p \in shutting' : p \in shutting \/ (p[2] = c /\ c \in kept /\ m_state[c] # "kConnecting")
    /\ failed' \in {"none", "SIGPIPE", "substr throws", "retrieve assert", "stale functor"}
    /\ failed' = "stale functor" => ~Held(c)
    /\ ~Running' => m_state'[c] = m_state[c]

LEMMA TalkedKeepsSInv == ASSUME SInv, IInv', NEW c \in Accepted, Talked(c) PROVE SInv'
<1>1. /\ Running
      /\ UNCHANGED <<given, m_loops, m_started, listening, waiting, m_connCb, m_msgCb, accepting,
                     m_connectionList, kept, fd, openFds, functors, establishing, mapped,
                     closedByPeer, seen>>
  BY DEF Talked, vars, setupVars, holderVars, fdVars, loopVars
<1>2. /\ STypeOK /\ ListMatches /\ UserView /\ FdsOwned /\ Unaccepted /\ PendingAtHome
      /\ AcceptingLatest /\ MappedBy /\ StateAndList /\ ShuttingHolds /\ SeenByState
  BY <1>1, RunningInv
<1>3. /\ Accepted' = Accepted /\ Latest' = Latest /\ Accepted \subseteq Conns
      /\ \A d \in Conns : /\ EstablishPending(d)' <=> EstablishPending(d)
                          /\ Establishing(d)' <=> Establishing(d)
                          /\ Held(d)' <=> Held(d)
  BY <1>1, <1>2, Numbers DEF Accepted, Latest, EstablishPending, Establishing, Held
<1>4. \A d \in Conns : /\ d # c => /\ m_state'[d] = m_state[d] /\ m_events'[d] = m_events[d]
                                   /\ calls'[d] = calls[d]
                       /\ "IN" \in m_events'[d] <=> "IN" \in m_events[d]
                       /\ m_state'[d] = "kConnecting" <=> m_state[d] = "kConnecting"
  BY <1>3 DEF Talked
<1>5. m_state[c] # "none"
  BY <1>2, <1>3 DEF Unaccepted
<1>6. \A d \in Accepted : m_state'[d] # "none"
  BY <1>2, <1>3, <1>4, <1>5 DEF Talked, Unaccepted
<1>7. STypeOK'
  <2>1. \A d \in Accepted : m_state'[d] = "kConnecting" <=> EstablishPending(d)' /\ ~Establishing(d)'
    BY <1>2, <1>3, <1>4 DEF STypeOK
  <2> QED
    BY <1>1, <1>2, <1>3, <2>1 DEF Talked, STypeOK, IInv, Ends
<1>8. ListMatches'
  <2>1. \A d \in Accepted : m_events'[d] # {} => Held(d)
    BY <1>1, <1>2, <1>3, <1>4 DEF Talked, ListMatches
  <2> QED
    BY <1>1, <1>2, <1>3, <1>4, <2>1 DEF ListMatches
<1>9. FdsOwned'
  <2>1. \A d \in Accepted : ~Held(d) => m_state'[d] = m_state[d]
    BY <1>3, <1>4 DEF Talked
  <2> QED
    BY <1>1, <1>2, <1>3, <2>1 DEF FdsOwned
<1>10. UserView'
  BY <1>1, <1>2, UserViewKept DEF Talked
<1>11. KnownEnds'
  <2>1. failed' = "stale functor" =>
            \E d \in Accepted' : ~Held(d)' /\ m_state'[d] = "kDisconnected"
    <3>1. failed' = "stale functor" => m_state[c] = "kDisconnected" /\ ~Held(c)
      BY <1>1, <1>2 DEF Talked, FdsOwned
    <3>2. failed' = "stale functor" => m_state'[c] = m_state[c]
      BY DEF Talked, Running
    <3> QED
      BY <1>3, <3>1, <3>2
  <2>2. m_started'
    BY <1>1, Started DEF SInv
  <2> QED
    BY <2>1, <2>2 DEF Talked, KnownEnds, SetupEnds
<1>12. Unaccepted' /\ PendingAtHome' /\ AcceptingLatest' /\ MappedBy'
  <2>1. Unaccepted'
    BY <1>1, <1>2, <1>3, <1>4, <1>6 DEF Unaccepted
  <2>2. PendingAtHome' /\ AcceptingLatest'
    BY <1>1, <1>2, <1>3 DEF PendingAtHome, AcceptingLatest
  <2>3. MappedBy'
    BY <1>1, <1>2, <1>3, <1>4, MappedKept
  <2> QED
    BY <2>1, <2>2, <2>3
<1>13. StateAndList'
  <2>1. \A d \in Accepted : \A call : d # c =>
            UNCHANGED <<m_state[d], m_events[d], calls[d]>>
    BY <1>3, <1>4
  <2>2. /\ m_state'[c] = "kConnecting" => m_events'[c] = {} /\ calls'[c] = << >>
        /\ m_state'[c] = "kDisConnecting" => c \in shut'
    BY <1>2, <1>3, <1>4 DEF Talked, StateAndList
  <2>3. c \in m_connectionList => m_state'[c] # "kDisconnected"
    BY <1>2 DEF Talked, StateAndList
  <2>4. c \notin m_connectionList =>
            /\ m_state'[c] = "kDisconnected" \/ (m_state'[c] = "kDisConnecting" /\ c \in revived')
            /\ m_events'[c] # {} => m_state'[c] # "kDisconnected"
            /\ given[c] = BaseLoop
    BY <1>2 DEF Talked, StateAndList
  <2>5. \A d \in Accepted : d # c => /\ m_state'[d] = m_state[d] /\ m_events'[d] = m_events[d]
                                     /\ calls'[d] = calls[d]
    BY <1>3, <1>4
  <2>6. shut \subseteq shut' /\ revived \subseteq revived'
    BY DEF Talked
  <2> QED
    BY <1>1, <1>2, <1>3, <2>2, <2>3, <2>4, <2>5, <2>6 DEF StateAndList
<1>14. ShuttingHolds' /\ SeenByState'
  <2>1. \A p \in shutting : p[2] \in Conns
    BY <1>2, <1>3 DEF STypeOK
  <2>2. ShuttingHolds'
    BY <1>1, <1>2, <1>3, <1>4, <2>1 DEF Talked, ShuttingHolds
  <2>3. SeenByState'
    BY <1>1, <1>2, <1>3 DEF SeenByState, Called
  <2> QED
    BY <2>2, <2>3
<1> QED
  BY <1>7, <1>8, <1>9, <1>10, <1>11, <1>12, <1>13, <1>14 DEF SInv

\* Each of the steps of send and shutDown is one of these.
LEMMA TalkStepTalks == ASSUME SInv, NEW c \in Accepted, TalkStep(c) PROVE Talked(c)
<1>1. Running
  BY DEF TalkStep, LoopSend, LoopShutDown, Send, ShutDownChecks, ShutDownStores, CallRuns,
     handleWrite, InCallback
<1>2. /\ STypeOK /\ ListMatches /\ Unaccepted /\ PendingAtHome /\ StateAndList /\ ShuttingHolds
      /\ c \in Conns /\ failed = "none"
  BY <1>1, RunningInv, Numbers DEF Running
<1>3. m_state[c] = "kConnected" => Held(c)
  BY <1>2 DEF StateAndList, Held
<1>4. calls[c] \in Seq(Calls) /\ Append(calls[c], "sendInLoop") \in Seq(Calls)
      /\ Append(calls[c], "shutDownInLoop") \in Seq(Calls)
      /\ (calls[c] # << >> => Tail(calls[c]) \in Seq(Calls))
  <2>1. calls[c] \in Seq(Calls)
    BY <1>2 DEF STypeOK
  <2> QED
    BY <2>1, AppendProperties, HeadTailProperties DEF Calls
<1>5. calls[c] # << >> => m_state[c] # "kConnecting"
  BY <1>2 DEF StateAndList
<1>6. ASSUME sendInLoop(c), m_state' = m_state, Held(c), m_state[c] # "kConnecting"
      PROVE  /\ \/ m_events' = m_events
                \/ /\ m_events' = [m_events EXCEPT ![c] = @ \cup {"OUT"}]
                   /\ m_state[c] # "kDisconnected"
             /\ failed' \in {"none", "SIGPIPE", "substr throws"}
  BY <1>2, <1>6 DEF sendInLoop
<1>7. [m_events EXCEPT ![c] = @ \cup {"OUT"}] \in [Conns -> SUBSET {"IN", "OUT"}]
  <2>1. m_events[c] \cup {"OUT"} \in SUBSET {"IN", "OUT"}
    BY <1>2 DEF STypeOK
  <2> QED
    BY <1>2, <2>1 DEF STypeOK
<1>8. CASE LoopSend(c)
  <2>1. /\ sendInLoop(c) /\ m_state[c] = "kConnected"
        /\ UNCHANGED <<vars, setupVars, waiting, accepting, holderVars, m_state, fdVars, loopVars,
                       closedByPeer, seen, calls, shutting, shut, revived>>
    BY <1>8 DEF LoopSend, InCallback, callVars
  <2>2. /\ \/ m_events' = m_events
           \/ m_events' = [m_events EXCEPT ![c] = @ \cup {"OUT"}]
        /\ failed' \in {"none", "SIGPIPE", "substr throws"} /\ Held(c)
    BY <1>3, <1>6, <2>1
  <2>3. m_events' \in [Conns -> SUBSET {"IN", "OUT"}]
    BY <1>2, <1>7, <2>2 DEF STypeOK
  <2> QED
    BY <1>1, <1>2, <2>1, <2>2, <2>3 DEF Talked, STypeOK
<1>9. CASE CallRuns(c)
  <2>1. /\ calls[c] # << >> /\ calls' = [calls EXCEPT ![c] = Tail(@)]
        /\ UNCHANGED <<vars, setupVars, waiting, accepting, holderVars, m_state, fdVars, loopVars,
                       closedByPeer, seen, shutting, shut, revived>>
        /\ \/ m_events' = m_events
           \/ /\ m_events' = [m_events EXCEPT ![c] = @ \cup {"OUT"}] /\ Held(c)
              /\ m_state[c] # "kDisconnected"
        /\ failed' \in {"none", "SIGPIPE", "substr throws", "stale functor"}
        /\ failed' = "stale functor" => ~Held(c)
    <3>1. /\ calls[c] # << >> /\ calls' = [calls EXCEPT ![c] = Tail(@)]
          /\ UNCHANGED <<vars, setupVars, waiting, accepting, holderVars, m_state, fdVars, loopVars,
                         closedByPeer, seen, shutting, shut, revived>>
      BY <1>9 DEF CallRuns
    <3>2. \/ ~Held(c) /\ failed' = "stale functor" /\ m_events' = m_events
          \/ Held(c) /\ sendInLoop(c)
          \/ Held(c) /\ m_events' = m_events /\ failed' = failed
      BY <1>9 DEF CallRuns, shutDownInLoop
    <3> QED
      BY <1>2, <1>5, <1>6, <3>1, <3>2
  <2>2. calls' \in [Conns -> Seq(Calls)]
    BY <1>2, <1>4, <2>1 DEF STypeOK
  <2>3. m_events' \in [Conns -> SUBSET {"IN", "OUT"}]
    BY <1>2, <1>7, <2>1 DEF STypeOK
  <2> QED
    BY <1>1, <1>2, <1>5, <2>1, <2>2, <2>3 DEF Talked, STypeOK
<1>10. CASE handleWrite(c)
  BY <1>1, <1>2, <1>10 DEF handleWrite, connVars, callVars, Talked, STypeOK, StateAndList
<1>11. CASE Send(c)
  <2>1. /\ m_state[c] = "kConnected" /\ calls' = [calls EXCEPT ![c] = Append(@, "sendInLoop")]
        /\ UNCHANGED <<vars, setupVars, waiting, accepting, holderVars, m_state, m_events, fdVars,
                       loopVars, closedByPeer, seen, failed, shutting, shut, revived>>
    BY <1>11 DEF Send, connVars
  <2>2. calls' \in [Conns -> Seq(Calls)]
    BY <1>2, <1>4, <2>1 DEF STypeOK
  <2> QED
    BY <1>1, <1>2, <2>1, <2>2 DEF Talked, STypeOK
<1>12. CASE \E u \in Users : ShutDownChecks(u, c)
  <2>1. PICK u \in Users : ShutDownChecks(u, c)
    BY <1>12
  <2>2. /\ m_state[c] = "kConnected" /\ c \in kept /\ shutting' = shutting \cup {<<u, c>>}
        /\ UNCHANGED <<vars, setupVars, waiting, accepting, holderVars, m_state, m_events, fdVars,
                       loopVars, closedByPeer, seen, failed, calls, shut, revived>>
    BY <2>1 DEF ShutDownChecks, connVars
  <2> QED
    BY <1>1, <1>2, <2>2 DEF Talked, STypeOK
<1>13. CASE LoopShutDown(c)
  <2>1. /\ m_state[c] = "kConnected" /\ m_state' = [m_state EXCEPT ![c] = "kDisConnecting"]
        /\ shut' = shut \cup {c} /\ UNCHANGED <<m_events, failed>>
        /\ UNCHANGED <<vars, setupVars, waiting, accepting, holderVars, fdVars, loopVars, calls,
                       shutting, revived, closedByPeer, seen>>
    BY <1>13 DEF LoopShutDown, InCallback, shutDownInLoop
  <2> QED
    BY <1>1, <1>2, <1>3, <2>1 DEF Talked, STypeOK, States, Running
<1>14. CASE \E u \in Users : ShutDownStores(u, c)
  <2>1. PICK u \in Users : ShutDownStores(u, c)
    BY <1>14
  <2>2. /\ <<u, c>> \in shutting /\ m_state' = [m_state EXCEPT ![c] = "kDisConnecting"]
        /\ shut' = shut \cup {c}
        /\ revived' = IF m_state[c] = "kDisconnected" THEN revived \cup {c} ELSE revived
        /\ calls' = [calls EXCEPT ![c] = Append(@, "shutDownInLoop")]
        /\ shutting' = shutting \ {<<u, c>>}
        /\ UNCHANGED <<vars, setupVars, waiting, accepting, holderVars, m_events, fdVars, loopVars,
                       closedByPeer, seen, failed>>
    BY <2>1 DEF ShutDownStores
  <2>3. c \in kept /\ m_state[c] # "kConnecting" /\ Held(c)
    BY <1>2, <2>2 DEF ShuttingHolds, Held
  <2>4. calls' \in [Conns -> Seq(Calls)]
    BY <1>2, <1>4, <2>2 DEF STypeOK
  <2>5. m_state' \in [Conns -> States]
    BY <1>2, <2>2 DEF STypeOK, States
  <2>6. /\ shut' \subseteq Accepted /\ revived' \subseteq shut' /\ revived \subseteq revived'
        /\ m_state[c] = "kDisconnected" => c \in revived'
    BY <1>2, <2>2 DEF STypeOK
  <2> QED
    BY <1>1, <1>2, <2>2, <2>3, <2>4, <2>5, <2>6 DEF Talked, STypeOK, Running
<1> QED
  BY <1>8, <1>9, <1>10, <1>11, <1>12, <1>13, <1>14 DEF TalkStep

-----------------------------------------------------------------------------
(* The invariant, and what it says of the server.                            *)

LEMMA NextSInv == ASSUME SInv, [SNext]_svars PROVE SInv'
<1>1. IInv'
  BY StepOfPool, NextIInv DEF SInv
<1>2. CASE UNCHANGED svars
  <2>1. /\ UNCHANGED <<given, m_started, m_loops, listening, m_connCb, m_msgCb, waiting, accepting,
                       m_connectionList, kept, m_state, m_events, fd, openFds, functors,
                       establishing, mapped, calls, shutting, shut, revived, closedByPeer, seen,
                       failed>>
        /\ Accepted' = Accepted /\ Latest' = Latest /\ Size' = Size
    BY <1>2 DEF svars, serverVars, vars, setupVars, holderVars, connVars, fdVars, loopVars,
       callVars, Accepted, Latest, Size
  <2>2. Unconcerned /\ (Running' => Running)
    BY <2>1 DEF Unconcerned, holderVars, connVars, fdVars, loopVars, callVars, Running
  <2>3. \A c \in Conns : /\ EstablishPending(c)' <=> EstablishPending(c)
                         /\ Establishing(c)' <=> Establishing(c)
                         /\ Held(c)' <=> Held(c)
    BY <2>1 DEF EstablishPending, Establishing, Held
  <2>4. Accepted \subseteq Conns /\ TypeOK'
    BY <1>1, Numbers DEF SInv, IInv
  <2>5. STypeOK'
    BY <2>1, <2>3, <2>4 DEF SInv, STypeOK
  <2>6. KnownEnds'
    <3>1. \A c \in Accepted : Reused(c)' <=> Reused(c)
      BY <2>1 DEF Reused
    <3> QED
      BY <2>1, <2>3, <2>4, <3>1 DEF SInv, KnownEnds, Running
  <2> QED
    BY <1>1, <2>2, <2>5, <2>6, UnconcernedKeepsSInv
<1>3. CASE SNext
  <2>1. CASE SetupStep
    BY <1>1, <2>1, SetupKeepsSInv
  <2>2. CASE Accept
    BY <1>1, <2>2, AcceptKeepsSInv
  <2>3. CASE CallConnCb
    BY <1>1, <2>3, CallConnCbKeepsSInv
  <2>4. ASSUME NEW l \in LoopIds, connectEstablished(l) PROVE SInv'
    BY <1>1, <2>4, EstablishKeepsSInv
  <2>5. ASSUME NEW l \in LoopIds, EstablishedCallback(l) PROVE SInv'
    BY <1>1, <2>5, EstablishedKeepsSInv, EmptyCallbackKeepsSInv
  <2>6. ASSUME NEW c \in Accepted, handleMessage(c) PROVE SInv'
    BY <1>1, <2>6, MessageKeepsSInv
  <2>7. ASSUME NEW c \in Accepted, handleClose(c) PROVE SInv'
    BY <1>1, <2>7, CloseKeepsSInv
  <2>8. ASSUME NEW c \in Accepted, UserDrops(c) PROVE SInv'
    BY <1>1, <2>8, UserDropsKeepsSInv
  <2>9. ASSUME NEW c \in Accepted, TalkStep(c) PROVE SInv'
    BY <1>1, <2>9, TalkStepTalks, TalkedKeepsSInv
  <2> QED
    BY <1>3, <2>1, <2>2, <2>3, <2>4, <2>5, <2>6, <2>7, <2>8, <2>9 DEF SNext, SetupStep
<1> QED
  BY <1>2, <1>3

LEMMA SInvariant == SSpec => []SInv
BY InitSInv, NextSInv, PTL DEF SSpec

\* The state of the server is as declared: a connection is kConnecting exactly
\* while its connectEstablished waits in the queue of some loop.
THEOREM ServerTypeCorrect == SSpec => []STypeOK
<1>1. SInv => STypeOK
  BY DEF SInv
<1> QED
  BY <1>1, SInvariant, PTL

\* Whatever users send and shut down, and when: m_connectionList has the connections
\* that are still read, from accept to the first close, and every connection whose
\* channel is registered at all is one that somebody holds.
THEOREM ListHoldsTheOpen == SSpec => []ListMatches
<1>1. SInv => ListMatches
  BY DEF SInv
<1> QED
  BY <1>1, SInvariant, PTL

\* On its loop's thread a user sees a connection established first and closed last, a
\* second close only after a shutDown that came too late, and not connected() before
\* that only after a shutDown or from the base loop.
THEOREM CallbacksInOrder == SSpec => []UserView
<1>1. SInv => UserView
  BY DEF SInv
<1> QED
  BY <1>1, SInvariant, PTL

\* Each open descriptor has one owner, and is closed with it, however many
\* loops, connections and descriptors there are.
THEOREM FdsHaveOneOwner == SSpec => []FdsOwned
<1>1. SInv => FdsOwned
  BY DEF SInv
<1> QED
  BY <1>1, SInvariant, PTL

\* Each of the ends of the server has the cause that KnownEnds gives: the asserts of the
\* erase and of ~TcpConnection fail only after a shutDown that came too late, that on
\* the state never.
THEOREM EndsAreKnown == SSpec => []KnownEnds
<1>1. SInv => KnownEnds
  BY DEF SInv
<1> QED
  BY <1>1, SInvariant, PTL

=============================================================================
