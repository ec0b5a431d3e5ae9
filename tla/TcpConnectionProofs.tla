------------------------- MODULE TcpConnectionProofs -------------------------
(* Proofs about TcpConnection: for any number of users, lengths of a message   *)
(* and calls of send.                                                         *)
EXTENDS TcpConnection, SequenceTheorems, FiniteSetTheorems, TLAPS

\* The small operators of the actions are expanded in every proof.
USE DEF EstablishedState, EstablishedEvents, ClosedState, Queued

-----------------------------------------------------------------------------
(* Messages, functors and bytes. *)

\* Below the bound on all calls of send, each caller's count is below it too.
LEMMA OneMoreSend ==
    ASSUME TypeOK, IsFiniteSet(Sent), Cardinality(Sent) < MaxSends, NEW c \in Callers
    PROVE  sends[c] \in 0..MaxSends /\ sends[c] + 1 \in 1..MaxSends
<1>1. sends[c] \in 0..MaxSends /\ MaxSends \in Nat
  BY ConnectionAssumption DEF TypeOK
<1>2. ASSUME sends[c] = MaxSends PROVE FALSE
  <2> DEFINE f == [k \in 1..MaxSends |-> <<c, k>>]
  <2>1. f \in [1..MaxSends -> Sent]
    BY <1>2 DEF Sent, Messages
  <2>2. f \in Injection(1..MaxSends, Sent)
    BY <2>1 DEF Injection, IsInjective
  <2>3. Cardinality(1..MaxSends) <= Cardinality(Sent)
    BY <2>2, FS_Injection
  <2>4. Cardinality(1..MaxSends) = MaxSends
    BY <1>1, FS_Interval
  <2>5. Cardinality(Sent) \in Nat
    BY FS_CardinalityType
  <2> QED
    BY <1>1, <2>3, <2>4, <2>5
<1> QED
  BY <1>1, <1>2

\* One call more makes one message more.
LEMMA SentGrows ==
    ASSUME TypeOK, IsFiniteSet(Sent), NEW c \in Callers, sends[c] + 1 \in 1..MaxSends,
           sends' = [sends EXCEPT ![c] = @ + 1]
    PROVE  /\ IsFiniteSet(Sent)' /\ sends' \in [Callers -> 0..MaxSends]
           /\ <<c, sends'[c]>> \in Messages
<1>1. /\ sends \in [Callers -> 0..MaxSends] /\ sends[c] + 1 \in 0..MaxSends
      /\ MaxSends \in Nat /\ \A d \in Callers : sends[d] \in Nat
      /\ sends'[c] = sends[c] + 1
      /\ \A d \in Callers : d # c => sends'[d] = sends[d]
      /\ sends' \in [Callers -> 0..MaxSends]
  <2>1. sends \in [Callers -> 0..MaxSends] /\ MaxSends \in Nat
    BY ConnectionAssumption DEF TypeOK
  <2>2. \A d \in Callers : sends[d] \in 0..MaxSends
    BY <2>1
  <2>3. sends[c] + 1 \in 0..MaxSends /\ \A d \in Callers : sends[d] \in Nat
    BY <2>1, <2>2
  <2>4. /\ sends'[c] = sends[c] + 1
        /\ \A d \in Callers : d # c => sends'[d] = sends[d]
        /\ sends' \in [Callers -> 0..MaxSends]
    BY <2>1, <2>3
  <2> QED
    BY <2>1, <2>3, <2>4
<1>2. Sent' = Sent \cup {<<c, sends[c] + 1>>}
  <2>1. ASSUME NEW d \in Callers, NEW k \in 1..MaxSends
        PROVE  k <= sends'[d] <=> k <= sends[d] \/ (d = c /\ k = sends[c] + 1)
    BY <1>1
  <2> QED
    BY <2>1 DEF Sent, Messages
<1>3. IsFiniteSet(Sent')
  BY <1>2, FS_AddElement
<1> QED
  BY <1>1, <1>3 DEF Messages

LEMMA FunctorAppended ==
    ASSUME TypeOK, NEW f \in Functors, functors' = Append(functors, f)
    PROVE  /\ functors' \in Seq(Functors) /\ Len(functors) \in Nat
           /\ DOMAIN functors = 1..Len(functors) /\ DOMAIN functors' = 1..(Len(functors) + 1)
           /\ functors'[Len(functors) + 1] = f
           /\ \A i \in 1..Len(functors) : functors'[i] = functors[i]
           /\ f.op # "connectEstablished" => (EstablishQueued' <=> EstablishQueued)
<1>1. functors \in Seq(Functors)
  BY DEF TypeOK
<1>2. /\ functors' \in Seq(Functors) /\ Len(functors) \in Nat /\ Len(functors') = Len(functors) + 1
      /\ DOMAIN functors = 1..Len(functors) /\ DOMAIN functors' = 1..(Len(functors) + 1)
      /\ functors'[Len(functors) + 1] = f
      /\ \A i \in 1..Len(functors) : functors'[i] = functors[i]
  BY <1>1, AppendProperties, LenProperties
<1>3. /\ functors # << >> <=> Len(functors) > 0
      /\ functors' # << >>
      /\ functors # << >> => Head(functors) = functors[1]
      /\ Head(functors') = functors'[1]
  BY <1>1, <1>2, EmptySeq, HeadTailProperties
<1> QED
  BY <1>2, <1>3 DEF EstablishQueued

LEMMA FunctorTaken ==
    ASSUME TypeOK, ConnectingFirst, functors # << >>, functors' = Tail(functors)
    PROVE  /\ functors' \in Seq(Functors) /\ Len(functors) \in Nat /\ Len(functors) > 0
           /\ DOMAIN functors = 1..Len(functors) /\ DOMAIN functors' = 1..(Len(functors) - 1)
           /\ Head(functors) = functors[1] /\ Head(functors) \in Functors
           /\ \A i \in 1..(Len(functors) - 1) : /\ i + 1 \in 1..Len(functors)
                                                /\ functors'[i] = functors[i + 1]
           /\ ~EstablishQueued'
<1>1. functors \in Seq(Functors)
  BY DEF TypeOK
<1>2. /\ functors' \in Seq(Functors) /\ Len(functors) \in Nat /\ Len(functors) > 0
      /\ Len(functors') = Len(functors) - 1
      /\ DOMAIN functors = 1..Len(functors) /\ DOMAIN functors' = 1..(Len(functors) - 1)
      /\ Head(functors) = functors[1] /\ Head(functors) \in Functors
      /\ \A i \in 1..(Len(functors) - 1) : functors'[i] = functors[i + 1]
  BY <1>1, HeadTailProperties, LenProperties, EmptySeq
<1>3. \A i \in 1..(Len(functors) - 1) : i + 1 \in 1..Len(functors)
  BY <1>2
<1>4. ~EstablishQueued'
  <2> SUFFICES ASSUME functors' # << >> PROVE functors'[1].op # "connectEstablished"
    BY <1>2, HeadTailProperties DEF EstablishQueued
  <2>1. 1 \in 1..(Len(functors) - 1)
    BY <1>2, EmptySeq
  <2>2. functors'[1] = functors[2] /\ 2 \in DOMAIN functors
    BY <1>2, <1>3, <2>1
  <2> QED
    BY <2>2 DEF ConnectingFirst
<1> QED
  BY <1>2, <1>3, <1>4

LEMMA BytesOf == \A m \in Messages : \A i \in 1..MsgLen : ByteSeq(m)[i] = <<m, i>>
                                                          /\ ByteSeq(m)[i] \in Bytes
BY DEF ByteSeq, Bytes

\* What sendInLoop does to the output, and that a message that went out whole, to a
\* socket that was open, has its last byte on the wire.
LEMMA SendInLoopIs ==
    ASSUME TypeOK, NEW m \in Messages, sendInLoop(m)
    PROVE  /\ m_outBuffer' \in Seq(Bytes) /\ wire' \in Seq(Bytes) /\ given' \in Seq(Bytes)
           /\ finSent' = finSent /\ partial' \in BOOLEAN /\ (partial => partial')
           /\ outcome' \in {outcome, "substr throws", "SIGPIPE"}
           /\ events' \in {events, events \cup {"OUT"}}
           /\ "OUT" \in events' => "OUT" \in events \/ partial'
           /\ m_state = "kDisconnected" => UNCHANGED <<events, outcome, wire, partial>>
           /\ DOMAIN wire \subseteq DOMAIN wire' /\ \A i \in DOMAIN wire : wire'[i] = wire[i]
           /\ m_state # "kDisconnected" /\ peer = "open" /\ ~finSent /\ ~partial' =>
                  \E i \in DOMAIN wire' : wire'[i] = <<m, MsgLen>>
<1>1. /\ m_outBuffer \in Seq(Bytes) /\ wire \in Seq(Bytes) /\ given \in Seq(Bytes)
      /\ partial \in BOOLEAN /\ MsgLen \in Nat /\ MsgLen > 0
  <2>1. /\ m_outBuffer \in Seq(Bytes) /\ wire \in Seq(Bytes) /\ given \in Seq(Bytes)
        /\ partial \in BOOLEAN
    BY DEF TypeOK
  <2>2. MsgLen \in Nat /\ MsgLen > 0
    BY ConnectionAssumption
  <2> QED
    BY <2>1, <2>2
<1>2. CASE m_state = "kDisconnected"
  BY <1>1, <1>2 DEF sendInLoop, output
<1>3. CASE m_state # "kDisconnected" /\ SendFaults
  BY <1>1, <1>3 DEF SendFaults, WriteFails, SocketOpen, output
<1>4. ASSUME m_state # "kDisconnected", NEW n \in 0..MsgLen, SendTakes(m, n)
      PROVE  /\ m_outBuffer' \in Seq(Bytes) /\ wire' \in Seq(Bytes) /\ given' \in Seq(Bytes)
             /\ finSent' = finSent /\ partial' \in BOOLEAN /\ (partial => partial')
             /\ outcome' \in {outcome, "substr throws", "SIGPIPE"}
             /\ events' \in {events, events \cup {"OUT"}}
             /\ "OUT" \in events' => "OUT" \in events \/ partial'
             /\ DOMAIN wire \subseteq DOMAIN wire' /\ \A i \in DOMAIN wire : wire'[i] = wire[i]
             /\ ~partial' => \E i \in DOMAIN wire' : wire'[i] = <<m, MsgLen>>
  <2> DEFINE part == SubSeq(ByteSeq(m), 1, n)
  <2>1. /\ part \in Seq(Bytes) /\ Len(part) = n
        /\ \A i \in 1..n : part[i] = <<m, i>>
    <3>1. \A i \in 1..n : ByteSeq(m)[i] \in Bytes /\ ByteSeq(m)[i] = <<m, i>>
      BY <1>1, BytesOf
    <3>2. /\ part \in Seq(Bytes)
          /\ Len(part) = IF 1 <= n THEN n - 1 + 1 ELSE 0
          /\ \A i \in 1..(n - 1 + 1) : part[i] = ByteSeq(m)[1 + i - 1]
      BY <3>1, SubSeqProperties
    <3> QED
      BY <3>1, <3>2
  <2>2. Kept(m, n) \in Seq(Bytes) \/ n = 0
    <3> SUFFICES ASSUME n # 0 PROVE SubSeq(ByteSeq(m), n, MsgLen - 1) \in Seq(Bytes)
      BY DEF Kept
    <3>1. \A i \in n..(MsgLen - 1) : ByteSeq(m)[i] \in Bytes
      BY <1>1, BytesOf
    <3>2. n \in Int /\ MsgLen - 1 \in Int
      BY <1>1
    <3> QED
      BY <3>1, <3>2, SubSeqProperties
  <2>3. ByteSeq(m) \in Seq(Bytes)
    <3>1. ByteSeq(m) \in [1..MsgLen -> Bytes]
      BY BytesOf DEF ByteSeq
    <3> QED
      BY <1>1, <3>1, SeqDef
  <2> HIDE DEF part
  <2>4. /\ given' = given \o ByteSeq(m) /\ wire' = wire \o part
        /\ partial' = (partial \/ n < MsgLen) /\ finSent' = finSent
    BY <1>4 DEF SendTakes, part
  <2>5. given' \in Seq(Bytes) /\ wire' \in Seq(Bytes)
    BY <1>1, <2>1, <2>3, <2>4, ConcatProperties
  <2>6. m_outBuffer' \in Seq(Bytes)
    BY <1>1, <1>4, <2>2, ConcatProperties DEF SendTakes
  <2>7. /\ Len(wire) \in Nat /\ DOMAIN wire = 1..Len(wire)
        /\ Len(wire') = Len(wire) + n /\ DOMAIN wire' = 1..(Len(wire) + n)
        /\ \A i \in 1..(Len(wire) + n) :
               wire'[i] = IF i <= Len(wire) THEN wire[i] ELSE part[i - Len(wire)]
    <3>1. /\ Len(wire) \in Nat /\ DOMAIN wire = 1..Len(wire) /\ DOMAIN wire' = 1..Len(wire')
      BY <1>1, <2>5, LenProperties
    <3>2. /\ Len(wire \o part) = Len(wire) + Len(part)
          /\ \A i \in 1..(Len(wire) + Len(part)) :
                 (wire \o part)[i] = IF i <= Len(wire) THEN wire[i] ELSE part[i - Len(wire)]
      BY <1>1, <2>1, ConcatProperties
    <3> QED
      BY <2>1, <2>4, <3>1, <3>2
  <2>8. ~partial' => \E i \in DOMAIN wire' : wire'[i] = <<m, MsgLen>>
    <3>1. ~(n < MsgLen) => n = MsgLen
      BY <1>1
    <3> SUFFICES ASSUME n = MsgLen PROVE \E i \in DOMAIN wire' : wire'[i] = <<m, MsgLen>>
      BY <2>4, <3>1
    <3>2. /\ Len(wire) + n \in 1..(Len(wire) + n) /\ ~(Len(wire) + n <= Len(wire))
          /\ (Len(wire) + n) - Len(wire) = MsgLen /\ MsgLen \in 1..n
      BY <1>1, <2>7
    <3>3. wire'[Len(wire) + n] = <<m, MsgLen>>
      BY <2>1, <2>7, <3>2
    <3> QED
      BY <2>7, <3>2, <3>3
  <2>9. DOMAIN wire \subseteq DOMAIN wire' /\ \A i \in DOMAIN wire : wire'[i] = wire[i]
    BY <2>7
  <2>10. /\ outcome' \in {outcome, "substr throws", "SIGPIPE"}
         /\ events' \in {events, events \cup {"OUT"}}
         /\ "OUT" \in events' => "OUT" \in events \/ partial'
    BY <1>4, <2>4 DEF SendTakes
  <2>11. partial' \in BOOLEAN /\ (partial => partial')
    BY <1>1, <2>4
  <2> QED
    BY <2>4, <2>5, <2>6, <2>8, <2>9, <2>10, <2>11
<1> QED
  BY <1>2, <1>3, <1>4 DEF sendInLoop

-----------------------------------------------------------------------------
(* Initial states. *)

LEMMA InitIInv == Init => IInv
<1> SUFFICES ASSUME Init PROVE IInv
  OBVIOUS
<1>1. /\ functors = <<[op |-> "connectEstablished"]>> /\ functors \in Seq(Functors)
      /\ DOMAIN functors = {1} /\ functors[1].op = "connectEstablished" /\ EstablishQueued
  <2>1. [op |-> "connectEstablished"] \in Functors
    BY DEF Functors
  <2>2. functors = <<[op |-> "connectEstablished"]>>
    BY DEF Init
  <2>3. functors \in Seq(Functors) /\ Len(functors) = 1 /\ DOMAIN functors = {1}
    BY <2>1, <2>2
  <2>4. functors # << >> /\ Head(functors) = [op |-> "connectEstablished"]
        /\ functors[1] = [op |-> "connectEstablished"]
    BY <2>2
  <2> QED
    BY <2>2, <2>3, <2>4 DEF EstablishQueued
<1>2. MaxSends \in Nat /\ \A c \in Callers : sends[c] = 0
  BY ConnectionAssumption DEF Init
<1>3. Sent = {}
  BY <1>2 DEF Sent, Messages
<1>4. TypeOK
  <2>1. sends \in [Callers -> 0..MaxSends]
    BY <1>2 DEF Init
  <2>2. m_outBuffer \in Seq(Bytes) /\ wire \in Seq(Bytes) /\ given \in Seq(Bytes)
    BY DEF Init
  <2>3. m_state = "kConnecting" <=> EstablishQueued
    BY <1>1 DEF Init
  <2> QED
    BY <1>1, <2>1, <2>2, <2>3 DEF Init, TypeOK, States
<1>5. IsFiniteSet(Sent)
  BY <1>3, FS_EmptySet
<1>6. ConnectingFirst /\ StateAndChannel /\ ClosedOnce /\ StaleNeedsHaste
  BY <1>1 DEF Init, ConnectingFirst, StateAndChannel, ClosedOnce, StaleNeedsHaste
<1>7. Holders /\ Shutting
  BY <1>1 DEF Init, Holders, Shutting, IsSend, IsShutDown, OwnFunctor
<1>8. Delivered
  BY <1>2 DEF Delivered, Callers
<1> QED
  BY <1>4, <1>5, <1>6, <1>7, <1>8 DEF IInv

-----------------------------------------------------------------------------
(* Steps that leave the functors and the calls alone. *)

\* What does not depend on the events of the channel.
LEMMA CallsUnchanged ==
    ASSUME IInv, UNCHANGED <<upc, sends, functors, finSent, shutBy, holds, hasty>>,
           m_state' \in {"kConnecting", "kConnected"} => m_state' = m_state,
           partial => partial'
    PROVE  IsFiniteSet(Sent)' /\ Holders' /\ Shutting'
BY DEF IInv, Sent, Holders, Shutting, IsSend, IsShutDown, OwnFunctor

LEMMA DeliveredKept ==
    ASSUME IInv, UNCHANGED <<upc, sends, functors, wire, shutBy>>,
           finSent => finSent', partial => partial',
           Running' => Running, peer' = "open" => peer = "open",
           partial \in BOOLEAN, partial' \in BOOLEAN
    PROVE  Delivered'
BY DEF IInv, Delivered, IsSend

LEMMA PollKeeps == ASSUME IInv, NEW w \in BOOLEAN, Poll(w) PROVE IInv'
<1> USE DEF object, output, remote, history
<1>1. TypeOK'
  <2>1. revents' \subseteq {"HUP", "IN", "OUT"}
    BY DEF Poll
  <2>2. EstablishQueued' <=> EstablishQueued
    BY DEF Poll, EstablishQueued
  <2> QED
    BY <2>1, <2>2 DEF IInv, Poll, TypeOK
<1>2. ConnectingFirst'
  BY DEF IInv, Poll, ConnectingFirst
<1>3. StateAndChannel'
  BY DEF IInv, Poll, TypeOK, StateAndChannel, HungUp
<1>4. IsFiniteSet(Sent)' /\ Holders' /\ Shutting'
  BY CallsUnchanged DEF Poll
<1>5. Delivered'
  BY DeliveredKept DEF Poll, Running, IInv, TypeOK
<1>6. ClosedOnce' /\ StaleNeedsHaste'
  BY DEF IInv, Poll, ClosedOnce, StaleNeedsHaste
<1> QED
  BY <1>1, <1>2, <1>3, <1>4, <1>5, <1>6 DEF IInv

LEMMA PeerKeeps == ASSUME IInv, Peer PROVE IInv'
<1> USE DEF object, channel, output, history
<1>1. TypeOK'
  BY DEF IInv, Peer, TypeOK, EstablishQueued
<1>2. ConnectingFirst'
  BY DEF IInv, Peer, ConnectingFirst
<1>3. StateAndChannel'
  BY DEF IInv, Peer, TypeOK, StateAndChannel
<1>4. IsFiniteSet(Sent)' /\ Holders' /\ Shutting'
  BY CallsUnchanged DEF Peer
<1>5. Delivered'
  BY DeliveredKept DEF Peer, Running, IInv, TypeOK
<1>6. ClosedOnce' /\ StaleNeedsHaste'
  BY DEF IInv, Peer, ClosedOnce, StaleNeedsHaste
<1> QED
  BY <1>1, <1>2, <1>3, <1>4, <1>5, <1>6 DEF IInv

LEMMA HandleReadOtherKeeps == ASSUME IInv, HandleReadOther PROVE IInv'
<1> USE DEF object, output, history
<1>1. TypeOK'
  BY DEF IInv, HandleReadOther, Dispatch, TypeOK, EstablishQueued
<1>2. ConnectingFirst'
  BY DEF IInv, HandleReadOther, Dispatch, ConnectingFirst
<1>3. StateAndChannel'
  BY DEF IInv, HandleReadOther, Dispatch, TypeOK, StateAndChannel
<1>4. IsFiniteSet(Sent)' /\ Holders' /\ Shutting'
  BY CallsUnchanged DEF HandleReadOther
<1>5. Delivered'
  BY DeliveredKept DEF HandleReadOther, Running, IInv, TypeOK
<1>6. ClosedOnce' /\ StaleNeedsHaste'
  BY DEF IInv, HandleReadOther, ClosedOnce, StaleNeedsHaste
<1> QED
  BY <1>1, <1>2, <1>3, <1>4, <1>5, <1>6 DEF IInv

\* The channel can only be gone with events left if one of them was EPOLLOUT.
LEMMA HandleStaleKeeps == ASSUME IInv, HandleStale PROVE IInv'
<1> USE DEF object, channel, output, remote, history
<1>1. TypeOK'
  BY DEF IInv, HandleStale, TypeOK, EstablishQueued
<1>2. ConnectingFirst' /\ StateAndChannel'
  BY DEF IInv, HandleStale, ConnectingFirst, StateAndChannel
<1>3. IsFiniteSet(Sent)' /\ Holders' /\ Shutting'
  BY CallsUnchanged DEF HandleStale
<1>4. Delivered'
  BY DEF HandleStale, Delivered, Running
<1>5. ClosedOnce' /\ StaleNeedsHaste'
  BY DEF IInv, HandleStale, Alive, StateAndChannel, ClosedOnce, StaleNeedsHaste
<1> QED
  BY <1>1, <1>2, <1>3, <1>4, <1>5 DEF IInv

\* handleClose finds the connection in the server's list, unless it was revived:
\* else the channel has no event but EPOLLOUT left.
LEMMA HandleCloseKeeps ==
    ASSUME IInv, NEW ev \in {"HUP", "IN"}, Dispatch(ev), peer # "open", handleClose,
           UNCHANGED remote
    PROVE  IInv'
<1> USE DEF output, remote, history
<1>1. outcome' \in {"ok", "erase assert"} /\ (outcome' = "erase assert" => ~inList)
  BY DEF handleClose, DestroyedBy
<1>2. m_state # "kConnecting"
  BY DEF IInv, ConnectingFirst, Dispatch
<1>3. TypeOK'
  BY <1>1, <1>2 DEF IInv, handleClose, Dispatch, TypeOK, EstablishQueued, States
<1>4. ConnectingFirst'
  BY DEF IInv, handleClose, ConnectingFirst
<1>5. StateAndChannel'
  BY DEF IInv, handleClose, Dispatch, TypeOK, StateAndChannel
<1>6. IsFiniteSet(Sent)' /\ Holders' /\ Shutting'
  BY CallsUnchanged DEF handleClose
<1>7. Delivered'
  BY DeliveredKept DEF handleClose, Dispatch, Running, IInv, TypeOK
<1>8. ClosedOnce' /\ StaleNeedsHaste'
  <2>1. inList \/ revived
    BY DEF IInv, Dispatch, StateAndChannel
  <2> QED
    BY <1>1, <2>1 DEF handleClose, ClosedOnce, StaleNeedsHaste
<1> QED
  BY <1>3, <1>4, <1>5, <1>6, <1>7, <1>8 DEF IInv

LEMMA HandleHupKeeps == ASSUME IInv, HandleHup PROVE IInv'
BY HandleCloseKeeps DEF HandleHup, IInv, StateAndChannel, Dispatch

LEMMA HandleReadEofKeeps == ASSUME IInv, HandleReadEof PROVE IInv'
BY HandleCloseKeeps DEF HandleReadEof

\* EPOLLOUT comes after a partial write only, which is when the bytes may be lost.
LEMMA HandleWriteKeeps == ASSUME IInv, HandleWrite PROVE IInv'
<1> USE DEF object, remote, history
<1>1. partial = TRUE /\ partial' = TRUE /\ given' = given
  BY DEF IInv, TypeOK, StateAndChannel, HandleWrite, Dispatch, output
<1>2. wire' \in Seq(Bytes) /\ m_outBuffer' \in Seq(Bytes)
  <2>1. wire \in Seq(Bytes) /\ m_outBuffer \in Seq(Bytes)
    BY DEF IInv, TypeOK
  <2>2. CASE "OUT" \notin events
    BY <2>1, <2>2 DEF HandleWrite, output
  <2>3. CASE "OUT" \in events
    <3>1. m_outBuffer' \in Seq(Bytes)
      <4>1. m_outBuffer' = << >>
        BY <2>3 DEF HandleWrite
      <4>2. << >> \in Seq(Bytes)
        OBVIOUS
      <4> QED
        BY <4>1, <4>2
    <3>2. ASSUME NEW n \in 1..Len(m_outBuffer), wire' = wire \o SubSeq(m_outBuffer, 1, n)
          PROVE  wire' \in Seq(Bytes)
      <4>1. Len(m_outBuffer) \in Nat
        BY <2>1, LenProperties
      <4>2. \A i \in 1..n : m_outBuffer[i] \in Bytes
        BY <2>1, <4>1, ElementOfSeq
      <4>3. SubSeq(m_outBuffer, 1, n) \in Seq(Bytes)
        BY <4>1, <4>2, SubSeqProperties
      <4> QED
        BY <2>1, <3>2, <4>3, ConcatProperties
    <3> QED
      BY <2>1, <2>3, <3>1, <3>2 DEF HandleWrite
  <2> QED
    BY <2>2, <2>3
<1>3. /\ finSent' \in {finSent, TRUE} /\ outcome' \in {"ok", "retrieve assert", "SIGPIPE"}
      /\ revents' \subseteq {"HUP", "IN", "OUT"} /\ revents' = {}
      /\ UNCHANGED <<object, upc, sends, functors, events, remote, history>>
  BY DEF IInv, TypeOK, HandleWrite, WriteFails, Dispatch, output, Running
<1>4. TypeOK'
  BY <1>1, <1>2, <1>3 DEF IInv, TypeOK, EstablishQueued
<1>5. ConnectingFirst' /\ StateAndChannel'
  BY <1>1, <1>3 DEF IInv, ConnectingFirst, StateAndChannel
<1>6. IsFiniteSet(Sent)' /\ Holders'
  BY <1>3 DEF IInv, Sent, Holders, IsSend, OwnFunctor
<1>7. Shutting'
  <2>1. UNCHANGED <<m_state, upc, functors, shutBy>>
    BY <1>3
  <2> QED
    BY <1>1, <2>1 DEF IInv, Shutting, IsSend, IsShutDown
<1>8. Delivered'
  BY <1>1 DEF Delivered
<1>9. ClosedOnce' /\ StaleNeedsHaste'
  BY <1>3 DEF ClosedOnce, StaleNeedsHaste
<1> QED
  BY <1>4, <1>5, <1>6, <1>7, <1>8, <1>9 DEF IInv

-----------------------------------------------------------------------------
(* Steps of the users. *)

LEMMA SendChecksKeeps == ASSUME IInv, NEW u \in Users, SendChecks(u) PROVE IInv'
<1> USE DEF Stays, object, channel, output, remote, history
<1>1. /\ u \in holds /\ upc[u] = "out" /\ m_state = "kConnected" /\ shutBy = {}
      /\ upc' = [upc EXCEPT ![u] = "send"] /\ upc \in [Users -> {"out", "send", "store", "queue"}]
  BY DEF IInv, TypeOK, Shutting, SendChecks
<1>2. /\ \A v \in Users : upc'[v] = IF v = u THEN "send" ELSE upc[v]
      /\ upc' \in [Users -> {"out", "send", "store", "queue"}]
  BY <1>1
<1>3. UNCHANGED <<object, functors, channel, output, remote, outcome, history>>
  BY DEF SendChecks
<1>4. u \in Callers /\ Cardinality(Sent) < MaxSends /\ sends' = [sends EXCEPT ![u] = @ + 1]
  BY DEF Callers, SendChecks
<1>5. sends[u] \in 0..MaxSends /\ sends[u] + 1 \in 1..MaxSends
  BY <1>4, OneMoreSend DEF IInv
<1>6. IsFiniteSet(Sent)' /\ sends' \in [Callers -> 0..MaxSends]
  BY <1>4, <1>5, SentGrows DEF IInv
<1>7. /\ sends'[u] = sends[u] + 1 /\ sends'[u] # 0
      /\ \A v \in Users : v # u => sends'[v] = sends[v]
      /\ \A v \in Users : sends[v] \in Nat
  <2>1. /\ sends \in [Callers -> 0..MaxSends] /\ Users \subseteq Callers
        /\ \A v \in Users : sends[v] \in 0..MaxSends
    BY DEF IInv, TypeOK, Callers
  <2> QED
    BY <1>4, <1>5, <2>1
<1>8. TypeOK'
  <2>1. EstablishQueued' <=> EstablishQueued
    BY <1>3 DEF EstablishQueued
  <2> QED
    BY <1>2, <1>3, <1>6, <2>1 DEF IInv, TypeOK
<1>9. ConnectingFirst' /\ StateAndChannel'
  BY <1>1, <1>3 DEF IInv, ConnectingFirst, StateAndChannel
<1>10. Holders'
  BY <1>1, <1>2, <1>3, <1>7 DEF IInv, Holders, IsSend, OwnFunctor
<1>11. Shutting'
  BY <1>1, <1>2, <1>3 DEF IInv, Shutting, IsSend, IsShutDown
<1>12. Delivered'
  <2> SUFFICES ASSUME Running, peer = "open", ~partial, NEW v \in Users, NEW k \in 1..sends'[v]
               PROVE  \/ upc'[v] = "send" /\ k = sends'[v]
                      \/ \E i \in DOMAIN functors : IsSend(i) /\ functors[i].msg = <<v, k>>
                      \/ \E i \in DOMAIN wire : wire[i] = <<<<v, k>>, MsgLen>>
                      \/ finSent /\ shutBy # {v}
    BY <1>3 DEF Delivered, Running, IsSend
  <2>1. CASE v = u /\ k = sends'[u]
    BY <1>2, <2>1
  <2>2. CASE ~(v = u /\ k = sends'[u])
    <3>1. k \in 1..sends[v]
      BY <1>7, <2>2
    <3>2. upc[v] = "send" => upc'[v] = "send" /\ sends'[v] = sends[v]
      BY <1>1, <1>2, <1>7
    <3> QED
      BY <3>1, <3>2 DEF IInv, Delivered
  <2> QED
    BY <2>1, <2>2
<1>13. ClosedOnce' /\ StaleNeedsHaste'
  BY <1>3 DEF IInv, ClosedOnce, StaleNeedsHaste
<1> QED
  BY <1>6, <1>8, <1>9, <1>10, <1>11, <1>12, <1>13 DEF IInv

LEMMA ShutDownChecksKeeps == ASSUME IInv, NEW u \in Users, ShutDownChecks(u) PROVE IInv'
<1> USE DEF Stays, object, channel, output, remote, history
<1>1. /\ u \in holds /\ upc[u] = "out" /\ m_state = "kConnected" /\ shutBy = {}
      /\ upc' = [upc EXCEPT ![u] = "store"] /\ upc \in [Users -> {"out", "send", "store", "queue"}]
  BY DEF IInv, TypeOK, Shutting, ShutDownChecks
<1>2. /\ \A v \in Users : upc'[v] = IF v = u THEN "store" ELSE upc[v]
      /\ upc' \in [Users -> {"out", "send", "store", "queue"}]
  BY <1>1
<1>3. UNCHANGED <<object, sends, functors, channel, output, remote, outcome, history>>
  BY DEF ShutDownChecks
<1>4. TypeOK'
  <2>1. EstablishQueued' <=> EstablishQueued
    BY <1>3 DEF EstablishQueued
  <2> QED
    BY <1>2, <1>3, <2>1 DEF IInv, TypeOK
<1>5. ConnectingFirst' /\ StateAndChannel'
  BY <1>1, <1>3 DEF IInv, ConnectingFirst, StateAndChannel
<1>6. IsFiniteSet(Sent)' /\ Holders'
  BY <1>1, <1>2, <1>3 DEF IInv, Sent, Holders, IsSend, OwnFunctor
<1>7. Shutting'
  BY <1>1, <1>2, <1>3 DEF IInv, Shutting, IsSend, IsShutDown
<1>8. Delivered'
  BY <1>1, <1>2, <1>3 DEF IInv, Delivered, Running, IsSend
<1>9. ClosedOnce' /\ StaleNeedsHaste'
  BY <1>3 DEF IInv, ClosedOnce, StaleNeedsHaste
<1> QED
  BY <1>4, <1>5, <1>6, <1>7, <1>8, <1>9 DEF IInv

\* A store over kDisconnected revives the connection; else the state was one in which
\* the server still has it.
LEMMA ShutDownStoresKeeps == ASSUME IInv, NEW u \in Users, ShutDownStores(u) PROVE IInv'
<1> USE DEF channel, output, remote
<1>1. /\ upc[u] = "store" /\ upc' = [upc EXCEPT ![u] = "queue"]
      /\ upc \in [Users -> {"out", "send", "store", "queue"}]
      /\ m_state # "kConnecting" /\ m_state' = "kDisConnecting"
  BY DEF IInv, TypeOK, ConnectingFirst, ShutDownStores
<1>2. /\ \A v \in Users : upc'[v] = IF v = u THEN "queue" ELSE upc[v]
      /\ upc' \in [Users -> {"out", "send", "store", "queue"}]
  BY <1>1
<1>3. /\ UNCHANGED <<inList, holds, sends, functors, channel, output, remote, outcome, hasty>>
      /\ revived' = (revived \/ m_state = "kDisconnected") /\ shutBy' = shutBy \cup {u}
  BY DEF ShutDownStores
<1>4. TypeOK'
  <2>1. revived' \in BOOLEAN /\ shutBy' \subseteq Callers
    BY <1>3 DEF IInv, TypeOK, Callers
  <2> QED
    BY <1>1, <1>2, <1>3, <2>1 DEF IInv, TypeOK, EstablishQueued, States
<1>5. ConnectingFirst'
  BY <1>1, <1>3 DEF IInv, ConnectingFirst
<1>6. StateAndChannel'
  BY <1>1, <1>3 DEF IInv, StateAndChannel
<1>7. IsFiniteSet(Sent)' /\ Holders'
  BY <1>1, <1>2, <1>3 DEF IInv, Sent, Holders, IsSend, OwnFunctor
<1>8. ASSUME finSent, ~partial, NEW v, shutBy' = {v} PROVE shutBy = {v}
  BY <1>3, <1>8 DEF IInv, Shutting
<1>9. Shutting'
  BY <1>1, <1>2, <1>3, <1>8 DEF IInv, Shutting, IsSend, IsShutDown
<1>10. Delivered'
  <2> SUFFICES ASSUME Running, peer = "open", ~partial, NEW v \in Users, NEW k \in 1..sends[v]
               PROVE  \/ upc'[v] = "send" /\ k = sends[v]
                      \/ \E i \in DOMAIN functors : IsSend(i) /\ functors[i].msg = <<v, k>>
                      \/ \E i \in DOMAIN wire : wire[i] = <<<<v, k>>, MsgLen>>
                      \/ finSent /\ shutBy' # {v}
    BY <1>3 DEF Delivered, Running, IsSend
  <2>1. upc[v] = "send" => upc'[v] = "send"
    BY <1>1, <1>2
  <2>2. finSent /\ shutBy # {v} => shutBy' # {v}
    BY <1>8
  <2> QED
    BY <2>1, <2>2 DEF IInv, Delivered
<1>11. ClosedOnce' /\ StaleNeedsHaste'
  BY <1>3 DEF IInv, ClosedOnce, StaleNeedsHaste
<1> QED
  BY <1>4, <1>5, <1>6, <1>7, <1>9, <1>10, <1>11 DEF IInv

\* The last shared_ptr of a connection which the server has given up.
LEMMA DropKeeps == ASSUME IInv, NEW u \in Users, Drop(u) PROVE IInv'
<1> USE DEF channel, output, remote
<1>1. /\ upc[u] = "out" /\ holds' = holds \ {u}
      /\ UNCHANGED <<m_state, inList, functors, upc, sends, channel, output, remote,
                     revived, shutBy>>
      /\ hasty \subseteq hasty' /\ hasty' \subseteq Users
      /\ \A i \in DOMAIN functors : OwnFunctor(u, functors[i]) => hasty' # {}
      /\ Running
  BY DEF IInv, TypeOK, Drop
<1>2. outcome' \in {"ok", "state assert"} /\ (outcome' = "state assert" => revived)
  <2>1. outcome' = "ok" \/ (outcome' = "state assert" /\ ~inList /\ m_state # "kDisconnected")
    <3>1. outcome' = IF Alive' \/ m_state = "kDisconnected" THEN "ok" ELSE "state assert"
      BY DEF Drop, DestroyedBy
    <3>2. inList => Alive'
      BY <1>1 DEF Alive
    <3> QED
      BY <3>1, <3>2
  <2> QED
    BY <2>1 DEF IInv, StateAndChannel
<1>3. TypeOK'
  BY <1>1, <1>2 DEF IInv, TypeOK, EstablishQueued
<1>4. ConnectingFirst' /\ StateAndChannel'
  BY <1>1 DEF IInv, ConnectingFirst, StateAndChannel
<1>5. IsFiniteSet(Sent)'
  BY <1>1 DEF IInv, Sent
<1>6. Holders'
  BY <1>1 DEF IInv, Holders, IsSend, OwnFunctor
<1>7. Shutting'
  BY <1>1 DEF IInv, Shutting, IsSend, IsShutDown
<1>8. Delivered'
  BY <1>1, DeliveredKept DEF IInv, TypeOK
<1>9. ClosedOnce' /\ StaleNeedsHaste'
  BY <1>1, <1>2 DEF ClosedOnce, StaleNeedsHaste
<1> QED
  BY <1>3, <1>4, <1>5, <1>6, <1>7, <1>8, <1>9 DEF IInv

LEMMA SendQueuesKeeps == ASSUME IInv, NEW u \in Users, SendQueues(u) PROVE IInv'
<1> USE DEF Stays, object, channel, output, remote, history
<1> DEFINE f == [op |-> "sendInLoop", msg |-> <<u, sends[u]>>]
<1>1. /\ upc[u] = "send" /\ upc' = [upc EXCEPT ![u] = "out"]
      /\ upc \in [Users -> {"out", "send", "store", "queue"}]
      /\ u \in holds /\ u \notin shutBy /\ m_state # "kConnecting"
  BY DEF IInv, TypeOK, ConnectingFirst, Holders, Shutting, SendQueues
<1>2. /\ \A v \in Users : upc'[v] = IF v = u THEN "out" ELSE upc[v]
      /\ upc' \in [Users -> {"out", "send", "store", "queue"}]
  BY <1>1
<1>3. /\ UNCHANGED <<object, sends, channel, output, remote, outcome, history>>
      /\ functors' = Append(functors, f)
  BY DEF SendQueues
<1>4. <<u, sends[u]>> \in Messages
  <2>1. sends \in [Callers -> 0..MaxSends] /\ MaxSends \in Nat /\ u \in Callers
    BY ConnectionAssumption DEF IInv, TypeOK, Callers
  <2>2. sends[u] \in 0..MaxSends /\ sends[u] # 0
    BY <1>1, <2>1 DEF IInv, Holders
  <2>3. sends[u] \in 1..MaxSends
    BY <2>1, <2>2
  <2> QED
    BY <2>1, <2>3 DEF Messages
<1>5. f \in Functors /\ f.op = "sendInLoop" /\ f.msg = <<u, sends[u]>> /\ f.msg[1] = u
  BY <1>4 DEF Functors
<1> HIDE DEF f
<1>6. /\ functors' \in Seq(Functors) /\ Len(functors) \in Nat
      /\ DOMAIN functors = 1..Len(functors) /\ DOMAIN functors' = 1..(Len(functors) + 1)
      /\ functors'[Len(functors) + 1] = f
      /\ \A i \in 1..Len(functors) : functors'[i] = functors[i]
      /\ EstablishQueued' <=> EstablishQueued
  BY <1>3, <1>5, FunctorAppended DEF IInv
<1>7. \A i \in DOMAIN functors' :
         (i \in DOMAIN functors /\ functors'[i] = functors[i])
         \/ (i = Len(functors) + 1 /\ functors'[i] = f /\ \A j \in DOMAIN functors : ~(j > i))
  BY <1>6
<1>8. TypeOK'
  BY <1>2, <1>3, <1>6 DEF IInv, TypeOK
<1>9. ConnectingFirst' /\ StateAndChannel'
  BY <1>1, <1>3, <1>5, <1>7 DEF IInv, ConnectingFirst, StateAndChannel
<1>10. IsFiniteSet(Sent)' /\ Holders'
  BY <1>1, <1>2, <1>3, <1>5, <1>7 DEF IInv, Sent, Holders, IsSend, OwnFunctor
<1>11. Shutting'
  <2>1. \A i \in DOMAIN functors' :
           IsShutDown(i)' =>
               /\ functors'[i].by \in shutBy
               /\ \A j \in DOMAIN functors' :
                      j > i /\ IsSend(j)' => functors'[j].msg[1] # functors'[i].by
    <3> SUFFICES ASSUME NEW i \in DOMAIN functors', IsShutDown(i)'
                 PROVE  /\ functors'[i].by \in shutBy
                        /\ \A j \in DOMAIN functors' :
                               j > i /\ IsSend(j)' => functors'[j].msg[1] # functors'[i].by
      OBVIOUS
    <3>1. i \in DOMAIN functors /\ functors'[i] = functors[i] /\ IsShutDown(i)
      BY <1>5, <1>7 DEF IsShutDown
    <3>2. functors[i].by \in shutBy /\ functors[i].by # u
      BY <1>1, <3>1 DEF IInv, Shutting
    <3>3. ASSUME NEW j \in DOMAIN functors', j > i, IsSend(j)'
          PROVE  functors'[j].msg[1] # functors'[i].by
      BY <1>5, <1>7, <3>1, <3>2, <3>3 DEF IInv, Shutting, IsSend
    <3> QED
      BY <3>1, <3>2, <3>3
  <2>2. ASSUME NEW v \in Users, finSent, shutBy = {v}, ~partial
        PROVE  \A i \in DOMAIN functors' : IsSend(i)' => functors'[i].msg[1] # v
    BY <1>1, <1>5, <1>7, <2>2 DEF IInv, Shutting, IsSend
  <2> QED
    BY <1>1, <1>2, <1>3, <2>1, <2>2 DEF IInv, Shutting
<1>12. Delivered'
  <2> SUFFICES ASSUME Running, peer = "open", ~partial, NEW v \in Users, NEW k \in 1..sends[v]
               PROVE  \/ \E i \in DOMAIN functors' : IsSend(i)' /\ functors'[i].msg = <<v, k>>
                      \/ upc'[v] = "send" /\ k = sends[v]
                      \/ \E i \in DOMAIN wire : wire[i] = <<<<v, k>>, MsgLen>>
                      \/ finSent /\ shutBy # {v}
    BY <1>3 DEF Delivered, Running
  <2>1. CASE v = u /\ k = sends[u]
    <3>1. Len(functors) + 1 \in DOMAIN functors'
      BY <1>6
    <3> QED
      BY <1>5, <1>6, <2>1, <3>1 DEF IsSend
  <2>2. CASE ~(v = u /\ k = sends[u])
    <3>1. upc[v] = "send" /\ k = sends[v] => upc'[v] = "send"
      BY <1>1, <1>2, <2>2
    <3>2. ASSUME NEW i \in DOMAIN functors, IsSend(i) /\ functors[i].msg = <<v, k>>
          PROVE  i \in DOMAIN functors' /\ IsSend(i)' /\ functors'[i].msg = <<v, k>>
      BY <1>6, <3>2 DEF IsSend
    <3> QED
      BY <3>1, <3>2 DEF IInv, Delivered
  <2> QED
    BY <2>1, <2>2
<1>13. ClosedOnce' /\ StaleNeedsHaste'
  BY <1>3 DEF IInv, ClosedOnce, StaleNeedsHaste
<1> QED
  BY <1>8, <1>9, <1>10, <1>11, <1>12, <1>13 DEF IInv

LEMMA ShutDownQueuesKeeps == ASSUME IInv, NEW u \in Users, ShutDownQueues(u) PROVE IInv'
<1> USE DEF Stays, object, channel, output, remote, history
<1> DEFINE f == [op |-> "shutDownInLoop", by |-> u]
<1>1. /\ upc[u] = "queue" /\ upc' = [upc EXCEPT ![u] = "out"]
      /\ upc \in [Users -> {"out", "send", "store", "queue"}]
      /\ u \in holds /\ u \in shutBy /\ m_state # "kConnecting"
  BY DEF IInv, TypeOK, ConnectingFirst, Holders, Shutting, ShutDownQueues
<1>2. /\ \A v \in Users : upc'[v] = IF v = u THEN "out" ELSE upc[v]
      /\ upc' \in [Users -> {"out", "send", "store", "queue"}]
  BY <1>1
<1>3. /\ UNCHANGED <<object, sends, channel, output, remote, outcome, history>>
      /\ functors' = Append(functors, f)
  BY DEF ShutDownQueues
<1>4. f \in Functors /\ f.op = "shutDownInLoop" /\ f.by = u
  BY DEF Functors
<1> HIDE DEF f
<1>5. /\ functors' \in Seq(Functors) /\ Len(functors) \in Nat
      /\ DOMAIN functors = 1..Len(functors) /\ DOMAIN functors' = 1..(Len(functors) + 1)
      /\ functors'[Len(functors) + 1] = f
      /\ \A i \in 1..Len(functors) : functors'[i] = functors[i]
      /\ EstablishQueued' <=> EstablishQueued
  BY <1>3, <1>4, FunctorAppended DEF IInv
<1>6. \A i \in DOMAIN functors' :
         (i \in DOMAIN functors /\ functors'[i] = functors[i])
         \/ (functors'[i] = f /\ \A j \in DOMAIN functors' : ~(j > i))
  BY <1>5
<1>7. TypeOK'
  BY <1>2, <1>3, <1>5 DEF IInv, TypeOK
<1>8. ConnectingFirst' /\ StateAndChannel'
  BY <1>1, <1>3, <1>4, <1>6 DEF IInv, ConnectingFirst, StateAndChannel
<1>9. IsFiniteSet(Sent)' /\ Holders'
  BY <1>1, <1>2, <1>3, <1>4, <1>6 DEF IInv, Sent, Holders, IsSend, OwnFunctor
<1>10. Shutting'
  <2>1. \A j \in DOMAIN functors' :
           IsSend(j)' => j \in DOMAIN functors /\ functors'[j] = functors[j] /\ IsSend(j)
    BY <1>4, <1>6 DEF IsSend
  <2>2. ASSUME NEW i \in DOMAIN functors', IsShutDown(i)'
        PROVE  /\ functors'[i].by \in shutBy
               /\ \A j \in DOMAIN functors' :
                      j > i /\ IsSend(j)' => functors'[j].msg[1] # functors'[i].by
    BY <1>1, <1>4, <1>6, <2>1, <2>2 DEF IInv, Shutting, IsShutDown
  <2>3. ASSUME NEW v \in Users, finSent, shutBy = {v}, ~partial
        PROVE  \A i \in DOMAIN functors' : IsSend(i)' => functors'[i].msg[1] # v
    BY <2>1, <2>3 DEF IInv, Shutting
  <2> QED
    BY <1>1, <1>2, <1>3, <2>2, <2>3 DEF IInv, Shutting
<1>11. Delivered'
  <2> SUFFICES ASSUME Running, peer = "open", ~partial, NEW v \in Users, NEW k \in 1..sends[v]
               PROVE  \/ \E i \in DOMAIN functors' : IsSend(i)' /\ functors'[i].msg = <<v, k>>
                      \/ upc'[v] = "send" /\ k = sends[v]
                      \/ \E i \in DOMAIN wire : wire[i] = <<<<v, k>>, MsgLen>>
                      \/ finSent /\ shutBy # {v}
    BY <1>3 DEF Delivered, Running
  <2>1. upc[v] = "send" => upc'[v] = "send"
    BY <1>1, <1>2
  <2>2. ASSUME NEW i \in DOMAIN functors, IsSend(i) /\ functors[i].msg = <<v, k>>
        PROVE  i \in DOMAIN functors' /\ IsSend(i)' /\ functors'[i].msg = <<v, k>>
    BY <1>5, <2>2 DEF IsSend
  <2> QED
    BY <2>1, <2>2 DEF IInv, Delivered
<1>12. ClosedOnce' /\ StaleNeedsHaste'
  BY <1>3 DEF IInv, ClosedOnce, StaleNeedsHaste
<1> QED
  BY <1>7, <1>8, <1>9, <1>10, <1>11, <1>12 DEF IInv

-----------------------------------------------------------------------------
(* The loop thread takes the first functor. *)

\* What a functor has to see to, of the invariants on functors.
LEMMA TakenKeeps ==
    ASSUME IInv, functors # << >>, functors' = Tail(functors),
           UNCHANGED <<upc, sends, holds, shutBy, hasty>>,
           partial => partial', partial \in BOOLEAN, partial' \in BOOLEAN,
           m_state' \in {"kConnecting", "kConnected"} => shutBy = {},
           finSent' => shutBy # {} \/ partial',
           \A u \in Users :
               finSent' /\ shutBy = {u} /\ ~partial' =>
                   \A i \in DOMAIN functors : i # 1 /\ IsSend(i) => functors[i].msg[1] # u
    PROVE  /\ functors' \in Seq(Functors) /\ ~EstablishQueued'
           /\ \A i \in DOMAIN functors' : functors'[i].op # "connectEstablished"
           /\ IsFiniteSet(Sent)' /\ Holders' /\ Shutting'
<1>1. /\ functors' \in Seq(Functors) /\ ~EstablishQueued'
      /\ DOMAIN functors = 1..Len(functors) /\ DOMAIN functors' = 1..(Len(functors) - 1)
      /\ Len(functors) \in Nat
      /\ \A i \in 1..(Len(functors) - 1) : /\ i + 1 \in 1..Len(functors)
                                           /\ functors'[i] = functors[i + 1]
  BY FunctorTaken DEF IInv
<1>2. \A i \in DOMAIN functors' : /\ i \in Nat /\ i + 1 \in DOMAIN functors /\ i + 1 # 1
                                  /\ functors'[i] = functors[i + 1]
  BY <1>1
<1>3. \A i, j \in DOMAIN functors' : j > i => j + 1 > i + 1
  BY <1>2
<1>4. \A i \in DOMAIN functors' : functors'[i].op # "connectEstablished"
  BY <1>2 DEF IInv, ConnectingFirst
<1>5. IsFiniteSet(Sent)' /\ Holders'
  BY <1>2 DEF IInv, Sent, Holders, IsSend, OwnFunctor
<1>6. Shutting'
  <2>1. \A i \in DOMAIN functors' : (IsSend(i)' <=> IsSend(i + 1))
                                    /\ (IsShutDown(i)' <=> IsShutDown(i + 1))
    BY <1>2 DEF IsSend, IsShutDown
  <2>2. ASSUME NEW i \in DOMAIN functors', IsShutDown(i)'
        PROVE  /\ functors'[i].by \in shutBy
               /\ \A j \in DOMAIN functors' :
                      j > i /\ IsSend(j)' => functors'[j].msg[1] # functors'[i].by
    BY <1>2, <1>3, <2>1, <2>2 DEF IInv, Shutting
  <2>3. ASSUME NEW u \in Users, finSent', shutBy = {u}, ~partial'
        PROVE  \A i \in DOMAIN functors' : IsSend(i)' => functors'[i].msg[1] # u
    BY <1>2, <2>1, <2>3
  <2> QED
    BY <2>2, <2>3 DEF IInv, Shutting
<1> QED
  BY <1>1, <1>4, <1>5, <1>6

\* If the functor carried a message, the kernel has it now, or could not any more.
LEMMA DeliveredTaken ==
    ASSUME IInv, functors # << >>, functors' = Tail(functors), UNCHANGED <<upc, sends, shutBy>>,
           finSent => finSent', partial => partial', partial \in BOOLEAN, partial' \in BOOLEAN,
           Running, peer' = peer,
           DOMAIN wire \subseteq DOMAIN wire', \A i \in DOMAIN wire : wire'[i] = wire[i],
           Running' /\ peer = "open" /\ ~partial' /\ IsSend(1) =>
               \/ \E i \in DOMAIN wire' : wire'[i] = <<functors[1].msg, MsgLen>>
               \/ finSent' /\ shutBy # {functors[1].msg[1]}
    PROVE  Delivered'
<1>1. /\ Len(functors) \in Nat /\ DOMAIN functors = 1..Len(functors)
      /\ DOMAIN functors' = 1..(Len(functors) - 1)
      /\ \A i \in 1..(Len(functors) - 1) : functors'[i] = functors[i + 1]
  BY FunctorTaken DEF IInv
<1>2. \A i \in DOMAIN functors :
         i # 1 => i - 1 \in DOMAIN functors' /\ functors'[i - 1] = functors[i]
  <2> SUFFICES ASSUME NEW i \in DOMAIN functors, i # 1
               PROVE  i - 1 \in DOMAIN functors' /\ functors'[i - 1] = functors[i]
    OBVIOUS
  <2>1. i - 1 \in 1..(Len(functors) - 1) /\ (i - 1) + 1 = i
    BY <1>1
  <2> QED
    BY <1>1, <2>1
<1> SUFFICES ASSUME Running', peer = "open", ~partial', NEW u \in Users, NEW k \in 1..sends[u]
             PROVE  \/ \E i \in DOMAIN functors' : IsSend(i)' /\ functors'[i].msg = <<u, k>>
                    \/ upc[u] = "send" /\ k = sends[u]
                    \/ \E i \in DOMAIN wire' : wire'[i] = <<<<u, k>>, MsgLen>>
                    \/ finSent' /\ shutBy # {u}
  BY DEF Delivered
<1>3. \/ \E i \in DOMAIN functors : IsSend(i) /\ functors[i].msg = <<u, k>>
      \/ upc[u] = "send" /\ k = sends[u]
      \/ \E i \in DOMAIN wire : wire[i] = <<<<u, k>>, MsgLen>>
      \/ finSent /\ shutBy # {u}
  BY DEF IInv, Delivered
<1>4. ASSUME NEW i \in DOMAIN functors, IsSend(i), functors[i].msg = <<u, k>>
      PROVE  \/ \E j \in DOMAIN functors' : IsSend(j)' /\ functors'[j].msg = <<u, k>>
             \/ \E j \in DOMAIN wire' : wire'[j] = <<<<u, k>>, MsgLen>>
             \/ finSent' /\ shutBy # {u}
  <2>1. CASE i = 1
    <3>1. functors[1].msg = <<u, k>> /\ functors[1].msg[1] = u
      BY <1>4, <2>1
    <3> QED
      BY <1>4, <2>1, <3>1
  <2>2. CASE i # 1
    BY <1>2, <1>4, <2>2 DEF IsSend
  <2> QED
    BY <2>1, <2>2
<1>5. ASSUME NEW i \in DOMAIN wire, wire[i] = <<<<u, k>>, MsgLen>>
      PROVE  \E j \in DOMAIN wire' : wire'[j] = <<<<u, k>>, MsgLen>>
  BY <1>5
<1> QED
  BY <1>3, <1>4, <1>5

LEMMA FirstFunctor ==
    ASSUME IInv, functors # << >>
    PROVE  Head(functors) = functors[1] /\ 1 \in DOMAIN functors
<1>1. functors \in Seq(Functors)
  BY DEF IInv, TypeOK
<1>2. /\ Head(functors) = functors[1] /\ DOMAIN functors = 1..Len(functors)
      /\ Len(functors) \in Nat /\ Len(functors) # 0
  BY <1>1, HeadTailProperties, LenProperties, EmptySeq
<1> QED
  BY <1>2

LEMMA EstablishedKeeps ==
    ASSUME IInv, Running, connectEstablished, UNCHANGED <<upc, sends, remote, history>>
    PROVE  IInv'
<1> USE DEF output, remote, history
<1>1. /\ functors # << >> /\ functors' = Tail(functors) /\ m_state = "kConnecting"
      /\ m_state' = "kConnected" /\ events' = {"IN"} /\ events = {} /\ revents' = {}
      /\ inList' = TRUE /\ shutBy = {} /\ partial \in BOOLEAN
      /\ UNCHANGED <<upc, sends, holds, output, remote, outcome, history>>
  BY DEF IInv, TypeOK, ConnectingFirst, Shutting, connectEstablished, EstablishQueued
<1>2. ~IsSend(1)
  <2>1. Head(functors) = functors[1]
    BY <1>1, FirstFunctor
  <2> QED
    BY <2>1 DEF connectEstablished, EstablishQueued, IsSend
<1>3. /\ functors' \in Seq(Functors) /\ ~EstablishQueued'
      /\ \A i \in DOMAIN functors' : functors'[i].op # "connectEstablished"
      /\ IsFiniteSet(Sent)' /\ Holders' /\ Shutting'
  <2>1. finSent => shutBy # {} \/ partial
    BY DEF IInv, Shutting
  <2>2. UNCHANGED <<upc, sends, holds, shutBy, hasty, partial, finSent>>
    BY <1>1
  <2> QED
    BY <1>1, <2>1, <2>2, TakenKeeps
<1>4. TypeOK'
  BY <1>1, <1>3 DEF IInv, TypeOK, States
<1>5. ConnectingFirst'
  BY <1>1, <1>3 DEF ConnectingFirst
<1>6. StateAndChannel'
  BY <1>1 DEF IInv, StateAndChannel
<1>7. Delivered'
  BY <1>1, <1>2, DeliveredTaken
<1>8. ClosedOnce' /\ StaleNeedsHaste'
  BY <1>1 DEF Running, ClosedOnce, StaleNeedsHaste
<1> QED
  BY <1>3, <1>4, <1>5, <1>6, <1>7, <1>8 DEF IInv

\* A message is given to the kernel by sendInLoop unless the connection is closed, or the
\* FIN has been sent, or a write was partial; the sender's own FIN comes after it.
LEMMA SendFunctorKeeps ==
    ASSUME IInv, Running, NEW m \in Messages, RunsOnObject([op |-> "sendInLoop", msg |-> m]),
           sendInLoop(m), UNCHANGED <<upc, sends, remote, history>>
    PROVE  IInv'
<1> USE DEF object, remote, history
<1>1. /\ functors # << >> /\ functors' = Tail(functors)
      /\ functors[1].op = "sendInLoop" /\ functors[1].msg = m
      /\ 1 \in DOMAIN functors /\ ~EstablishQueued /\ m_state # "kConnecting"
      /\ UNCHANGED <<object, revents, upc, sends, remote, history>>
  <2>1. functors # << >> /\ functors' = Tail(functors)
        /\ Head(functors) = [op |-> "sendInLoop", msg |-> m]
        /\ UNCHANGED <<object, revents, upc, sends, remote, history>>
    BY DEF RunsOnObject
  <2>2. Head(functors) = functors[1] /\ 1 \in DOMAIN functors
    BY <2>1, FirstFunctor
  <2>3. functors[1].op = "sendInLoop" /\ functors[1].msg = m
    BY <2>1, <2>2
  <2>4. ~EstablishQueued
    BY <2>1 DEF EstablishQueued
  <2> QED
    BY <2>1, <2>2, <2>3, <2>4 DEF IInv, TypeOK
<1>2. /\ m_outBuffer' \in Seq(Bytes) /\ wire' \in Seq(Bytes) /\ given' \in Seq(Bytes)
      /\ finSent' = finSent /\ partial' \in BOOLEAN /\ (partial => partial')
      /\ outcome' \in {outcome, "substr throws", "SIGPIPE"}
      /\ events' \in {events, events \cup {"OUT"}}
      /\ "OUT" \in events' => "OUT" \in events \/ partial'
      /\ m_state = "kDisconnected" => UNCHANGED <<events, outcome, wire, partial>>
      /\ DOMAIN wire \subseteq DOMAIN wire' /\ \A i \in DOMAIN wire : wire'[i] = wire[i]
      /\ m_state # "kDisconnected" /\ peer = "open" /\ ~finSent /\ ~partial' =>
             \E i \in DOMAIN wire' : wire'[i] = <<m, MsgLen>>
  BY SendInLoopIs DEF IInv
<1>3. partial \in BOOLEAN /\ m[1] = functors[1].msg[1]
  BY <1>1 DEF IInv, TypeOK
<1>4. /\ functors' \in Seq(Functors) /\ ~EstablishQueued'
      /\ \A i \in DOMAIN functors' : functors'[i].op # "connectEstablished"
      /\ IsFiniteSet(Sent)' /\ Holders' /\ Shutting'
  <2>1. m_state' \in {"kConnecting", "kConnected"} => shutBy = {}
    BY <1>1 DEF IInv, Shutting
  <2>2. finSent' => shutBy # {} \/ partial'
    BY <1>2 DEF IInv, Shutting
  <2>3. \A u \in Users :
           finSent' /\ shutBy = {u} /\ ~partial' =>
               \A i \in DOMAIN functors : i # 1 /\ IsSend(i) => functors[i].msg[1] # u
    BY <1>2 DEF IInv, Shutting
  <2>4. UNCHANGED <<upc, sends, holds, shutBy, hasty>>
    BY <1>1
  <2> QED
    BY <1>1, <1>2, <1>3, <2>1, <2>2, <2>3, <2>4, TakenKeeps
<1>5. TypeOK'
  <2>1. events' \subseteq {"IN", "OUT"} /\ finSent' \in BOOLEAN
    BY <1>2 DEF IInv, TypeOK
  <2> QED
    BY <1>1, <1>2, <1>4, <2>1 DEF IInv, TypeOK, Running
<1>6. ConnectingFirst'
  BY <1>1, <1>4 DEF ConnectingFirst
<1>7. StateAndChannel'
  <2>1. UNCHANGED <<inList, m_state, revents, revived, peer>>
    BY <1>1
  <2>2. "IN" \in events' => "IN" \in events
    <3>1. events' = events \/ events' = events \cup {"OUT"}
      BY <1>2
    <3> QED
      BY <3>1
  <2>3. CASE m_state = "kDisconnected"
    BY <1>2, <2>1, <2>3 DEF IInv, StateAndChannel
  <2>4. CASE m_state # "kDisconnected"
    <3>1. inList \/ revived
      BY <2>4 DEF IInv, StateAndChannel
    <3>2. ("OUT" \in events' => "OUT" \in events \/ partial') /\ (partial => partial')
      BY <1>2
    <3> QED
      BY <1>3, <2>1, <2>2, <2>4, <3>1, <3>2 DEF IInv, StateAndChannel
  <2> QED
    BY <2>3, <2>4
<1>8. Delivered'
  <2>1. ASSUME peer = "open", ~partial', finSent PROVE shutBy # {functors[1].msg[1]}
    <3>1. functors[1].msg[1] \in Users
      BY <1>1 DEF IInv, Holders, IsSend
    <3> QED
      BY <1>1, <1>2, <2>1, <3>1 DEF IInv, Shutting, IsSend
  <2>2. peer = "open" => m_state # "kDisconnected"
    BY DEF IInv, StateAndChannel
  <2>3. ASSUME peer = "open", ~partial'
        PROVE  \/ \E i \in DOMAIN wire' : wire'[i] = <<functors[1].msg, MsgLen>>
               \/ finSent' /\ shutBy # {functors[1].msg[1]}
    BY <1>1, <1>2, <2>1, <2>2, <2>3
  <2> QED
    BY <1>1, <1>2, <1>3, <2>3, DeliveredTaken
<1>9. ClosedOnce' /\ StaleNeedsHaste'
  BY <1>2 DEF Running, ClosedOnce, StaleNeedsHaste
<1> QED
  BY <1>4, <1>5, <1>6, <1>7, <1>8, <1>9 DEF IInv

LEMMA ShutDownFunctorKeeps ==
    ASSUME IInv, Running, NEW u \in Users, RunsOnObject([op |-> "shutDownInLoop", by |-> u]),
           shutDownInLoop, UNCHANGED <<upc, sends, remote, history>>
    PROVE  IInv'
<1> USE DEF object, remote, history
<1>1. /\ functors # << >> /\ functors' = Tail(functors)
      /\ functors[1].op = "shutDownInLoop" /\ functors[1].by = u
      /\ 1 \in DOMAIN functors /\ ~EstablishQueued /\ m_state # "kConnecting"
      /\ UNCHANGED <<object, revents, upc, sends, remote, history>>
  <2>1. functors # << >> /\ functors' = Tail(functors)
        /\ Head(functors) = [op |-> "shutDownInLoop", by |-> u]
        /\ UNCHANGED <<object, revents, upc, sends, remote, history>>
    BY DEF RunsOnObject
  <2>2. Head(functors) = functors[1] /\ 1 \in DOMAIN functors
    BY <2>1, FirstFunctor
  <2>3. functors[1].op = "shutDownInLoop" /\ functors[1].by = u
    BY <2>1, <2>2
  <2>4. ~EstablishQueued
    BY <2>1 DEF EstablishQueued
  <2> QED
    BY <2>1, <2>2, <2>3, <2>4 DEF IInv, TypeOK
<1>2. /\ finSent' \in BOOLEAN /\ (finSent => finSent') /\ partial \in BOOLEAN
      /\ UNCHANGED <<m_outBuffer, wire, given, partial, events, outcome>>
  BY DEF IInv, TypeOK, shutDownInLoop, ShutsNow
<1>3. u \in shutBy
  BY <1>1 DEF IInv, Shutting, IsShutDown
<1>4. /\ functors' \in Seq(Functors) /\ ~EstablishQueued'
      /\ \A i \in DOMAIN functors' : functors'[i].op # "connectEstablished"
      /\ IsFiniteSet(Sent)' /\ Holders' /\ Shutting'
  <2>1. m_state' \in {"kConnecting", "kConnected"} => shutBy = {}
    BY <1>1 DEF IInv, Shutting
  <2>2. \A i \in DOMAIN functors : i # 1 => i > 1
    BY <1>1, FunctorTaken DEF IInv
  <2>3. \A i \in DOMAIN functors : i # 1 /\ IsSend(i) => functors[i].msg[1] # u
    BY <1>1, <2>2 DEF IInv, Shutting, IsShutDown
  <2>4. \A v \in Users : shutBy = {v} => v = u
    BY <1>3
  <2>5. UNCHANGED <<upc, sends, holds, shutBy, hasty>>
    BY <1>1
  <2> QED
    BY <1>1, <1>2, <1>3, <2>1, <2>3, <2>4, <2>5, TakenKeeps
<1>5. TypeOK'
  BY <1>1, <1>2, <1>4 DEF IInv, TypeOK
<1>6. ConnectingFirst'
  BY <1>1, <1>4 DEF ConnectingFirst
<1>7. StateAndChannel'
  BY <1>1, <1>2 DEF IInv, StateAndChannel
<1>8. Delivered'
  <2>1. ~IsSend(1)
    BY <1>1 DEF IsSend
  <2> QED
    BY <1>1, <1>2, <2>1, DeliveredTaken
<1>9. ClosedOnce' /\ StaleNeedsHaste'
  BY <1>2 DEF Running, ClosedOnce, StaleNeedsHaste
<1> QED
  BY <1>4, <1>5, <1>6, <1>7, <1>8, <1>9 DEF IInv

\* Whose functor outlived the connection has let go before it ran.
LEMMA StaleFunctorKeeps ==
    ASSUME IInv, NEW f \in Functors, f.op # "connectEstablished", RunsOnObject(f),
           ~Alive, outcome' = "stale functor",
           UNCHANGED <<m_outBuffer, wire, finSent, given, partial, events>>,
           UNCHANGED <<upc, sends, remote, history>>
    PROVE  IInv'
<1> USE DEF object, remote, history
<1>1. /\ functors # << >> /\ functors' = Tail(functors) /\ functors[1] = f
      /\ 1 \in DOMAIN functors /\ ~EstablishQueued /\ m_state # "kConnecting"
      /\ UNCHANGED <<object, revents>>
  <2>1. functors # << >> /\ functors' = Tail(functors) /\ Head(functors) = f
        /\ UNCHANGED <<object, revents>>
    BY DEF RunsOnObject
  <2>2. Head(functors) = functors[1] /\ 1 \in DOMAIN functors
    BY <2>1, FirstFunctor
  <2>3. ~EstablishQueued
    BY DEF Alive
  <2> QED
    BY <2>1, <2>2, <2>3 DEF IInv, TypeOK
<1>2. hasty # {}
  <2>1. holds = {}
    BY DEF Alive
  <2>2. CASE f.op = "sendInLoop"
    BY <1>1, <2>1, <2>2 DEF IInv, Holders, IsSend, OwnFunctor
  <2>3. CASE f.op = "shutDownInLoop"
    <3>1. f.by \in Users
      BY <2>3 DEF Functors
    <3> QED
      BY <1>1, <2>1, <2>3, <3>1 DEF IInv, Holders, OwnFunctor
  <2> QED
    BY <2>2, <2>3 DEF Functors
<1>3. /\ functors' \in Seq(Functors) /\ ~EstablishQueued'
      /\ \A i \in DOMAIN functors' : functors'[i].op # "connectEstablished"
      /\ IsFiniteSet(Sent)' /\ Holders' /\ Shutting'
  <2>1. partial \in BOOLEAN /\ finSent \in BOOLEAN
    BY DEF IInv, TypeOK
  <2>2. m_state' \in {"kConnecting", "kConnected"} => shutBy = {}
    BY <1>1 DEF IInv, Shutting
  <2>3. finSent' => shutBy # {} \/ partial'
    BY <2>1 DEF IInv, Shutting
  <2>4. \A u \in Users :
           finSent' /\ shutBy = {u} /\ ~partial' =>
               \A i \in DOMAIN functors : i # 1 /\ IsSend(i) => functors[i].msg[1] # u
    BY <2>1 DEF IInv, Shutting
  <2>5. UNCHANGED <<upc, sends, holds, shutBy, hasty>>
    BY <1>1
  <2> QED
    BY <1>1, <2>1, <2>2, <2>3, <2>4, <2>5, TakenKeeps
<1>4. TypeOK'
  BY <1>1, <1>3 DEF IInv, TypeOK
<1>5. ConnectingFirst' /\ StateAndChannel'
  BY <1>1, <1>3 DEF IInv, ConnectingFirst, StateAndChannel
<1>6. Delivered'
  BY DEF Delivered, Running
<1>7. ClosedOnce' /\ StaleNeedsHaste'
  BY <1>1, <1>2 DEF ClosedOnce, StaleNeedsHaste
<1> QED
  BY <1>3, <1>4, <1>5, <1>6, <1>7 DEF IInv

LEMMA RunFunctorKeeps == ASSUME IInv, RunFunctor PROVE IInv'
<1>1. \A f \in Functors \ [op : {"connectEstablished"}] : f.op # "connectEstablished"
  BY DEF Functors
<1> QED
  BY <1>1, EstablishedKeeps, SendFunctorKeeps, ShutDownFunctorKeeps, StaleFunctorKeeps
     DEF RunFunctor, output

-----------------------------------------------------------------------------
(* Calls in callbacks on the loop thread. *)

LEMMA LoopSendKeeps == ASSUME IInv, LoopSend PROVE IInv'
<1> USE DEF object, remote, history
<1>1. /\ Running /\ inList /\ m_state = "kConnected" /\ shutBy = {}
      /\ UNCHANGED <<object, upc, functors, revents, remote, history>>
  BY DEF IInv, Shutting, LoopSend
<1>2. Loop \in Callers /\ Cardinality(Sent) < MaxSends /\ sends' = [sends EXCEPT ![Loop] = @ + 1]
  BY DEF Callers, LoopSend
<1>3. /\ IsFiniteSet(Sent)' /\ sends' \in [Callers -> 0..MaxSends]
      /\ <<Loop, sends'[Loop]>> \in Messages
  BY <1>2, OneMoreSend, SentGrows DEF IInv
<1>4. \A u \in Users : sends'[u] = sends[u]
  <2>1. sends \in [Callers -> 0..MaxSends] /\ \A u \in Users : u \in Callers /\ u # Loop
    BY ConnectionAssumption DEF IInv, TypeOK, Callers
  <2> QED
    BY <1>2, <2>1
<1> DEFINE m == <<Loop, sends'[Loop]>>
<1>5. sendInLoop(m)
  BY DEF LoopSend
<1> HIDE DEF m
<1>6. /\ m_outBuffer' \in Seq(Bytes) /\ wire' \in Seq(Bytes) /\ given' \in Seq(Bytes)
      /\ finSent' = finSent /\ partial' \in BOOLEAN /\ (partial => partial')
      /\ outcome' \in {outcome, "substr throws", "SIGPIPE"}
      /\ events' \in {events, events \cup {"OUT"}}
      /\ "OUT" \in events' => "OUT" \in events \/ partial'
      /\ DOMAIN wire \subseteq DOMAIN wire' /\ \A i \in DOMAIN wire : wire'[i] = wire[i]
  <2>1. m \in Messages
    BY <1>3 DEF m
  <2> QED
    BY <1>5, <2>1, SendInLoopIs DEF IInv
<1>7. TypeOK'
  <2>1. events' \subseteq {"IN", "OUT"} /\ finSent' \in BOOLEAN
    BY <1>6 DEF IInv, TypeOK
  <2> QED
    BY <1>1, <1>3, <1>6, <2>1 DEF IInv, TypeOK, EstablishQueued, Running
<1>8. ConnectingFirst'
  BY <1>1 DEF IInv, ConnectingFirst
<1>9. StateAndChannel'
  <2>1. ("OUT" \in events' => "OUT" \in events \/ partial') /\ (partial => partial')
    BY <1>6
  <2> QED
    BY <1>1, <2>1 DEF IInv, StateAndChannel
<1>10. Holders'
  <2>1. \A u \in Users : sends'[u] # 0 <=> sends[u] # 0
    BY <1>4
  <2> QED
    BY <1>1, <2>1 DEF IInv, Holders, IsSend, OwnFunctor
<1>11. Shutting'
  <2>1. (finSent' <=> finSent) /\ (partial => partial') /\ partial' \in BOOLEAN
    BY <1>6
  <2>2. UNCHANGED <<m_state, upc, functors, shutBy>>
    BY <1>1
  <2> QED
    BY <1>1, <2>1, <2>2 DEF IInv, Shutting, IsSend, IsShutDown
<1>12. Delivered'
  <2> SUFFICES ASSUME peer = "open", ~partial', NEW u \in Users, NEW k \in 1..sends[u]
               PROVE  \/ upc[u] = "send" /\ k = sends[u]
                      \/ \E i \in DOMAIN functors : IsSend(i) /\ functors[i].msg = <<u, k>>
                      \/ \E i \in DOMAIN wire' : wire'[i] = <<<<u, k>>, MsgLen>>
                      \/ finSent /\ shutBy # {u}
    BY <1>1, <1>4, <1>6 DEF Delivered, IsSend
  <2>1. ~partial
    BY <1>6
  <2>2. ASSUME NEW i \in DOMAIN wire, wire[i] = <<<<u, k>>, MsgLen>>
        PROVE  \E j \in DOMAIN wire' : wire'[j] = <<<<u, k>>, MsgLen>>
    BY <1>6, <2>2
  <2> QED
    BY <1>1, <2>1, <2>2 DEF IInv, Delivered
<1>13. ClosedOnce' /\ StaleNeedsHaste'
  BY <1>1, <1>6 DEF Running, ClosedOnce, StaleNeedsHaste
<1> QED
  BY <1>3, <1>7, <1>8, <1>9, <1>10, <1>11, <1>12, <1>13 DEF IInv

LEMMA LoopShutDownKeeps == ASSUME IInv, LoopShutDown PROVE IInv'
<1> USE DEF remote
<1>1. /\ inList /\ m_state = "kConnected" /\ shutBy = {} /\ Running
      /\ m_state' = "kDisConnecting" /\ shutBy' = {Loop}
      /\ Loop \in Callers /\ Loop \notin Users
      /\ (finSent => finSent') /\ finSent' \in BOOLEAN
      /\ UNCHANGED <<inList, holds, upc, sends, functors, revents, remote, revived, hasty>>
      /\ UNCHANGED <<m_outBuffer, wire, given, partial, events, outcome>>
  BY ConnectionAssumption
     DEF IInv, TypeOK, Shutting, LoopShutDown, shutDownInLoop, ShutsNow, Callers
<1>2. TypeOK'
  BY <1>1 DEF IInv, TypeOK, EstablishQueued, States
<1>3. ConnectingFirst' /\ StateAndChannel'
  BY <1>1 DEF IInv, ConnectingFirst, StateAndChannel
<1>4. IsFiniteSet(Sent)' /\ Holders'
  BY <1>1 DEF IInv, Sent, Holders, IsSend, OwnFunctor
<1>5. Shutting'
  <2>1. \A u \in Users : {Loop} # {u} /\ u \notin {Loop}
    BY <1>1
  <2>2. \A i \in DOMAIN functors : ~IsShutDown(i)
    BY <1>1 DEF IInv, Shutting
  <2>3. \A u \in Users : upc[u] # "queue"
    BY <1>1 DEF IInv, Shutting
  <2> QED
    BY <1>1, <2>1, <2>2, <2>3 DEF Shutting, IsShutDown
<1>6. Delivered'
  <2>1. \A u \in Users : shutBy' # {u}
    BY <1>1
  <2> SUFFICES ASSUME peer = "open", ~partial, NEW u \in Users, NEW k \in 1..sends[u]
               PROVE  \/ upc[u] = "send" /\ k = sends[u]
                      \/ \E i \in DOMAIN functors : IsSend(i) /\ functors[i].msg = <<u, k>>
                      \/ \E i \in DOMAIN wire : wire[i] = <<<<u, k>>, MsgLen>>
                      \/ finSent' /\ shutBy' # {u}
    BY <1>1 DEF Delivered, IsSend
  <2> QED
    BY <1>1, <2>1 DEF IInv, Delivered
<1>7. ClosedOnce' /\ StaleNeedsHaste'
  BY <1>1 DEF Running, ClosedOnce, StaleNeedsHaste
<1> QED
  BY <1>2, <1>3, <1>4, <1>5, <1>6, <1>7 DEF IInv

-----------------------------------------------------------------------------
(* The invariant. *)

LEMMA StutterKeeps == ASSUME IInv, UNCHANGED vars PROVE IInv'
<1> USE DEF vars, object, channel, output, remote, history
<1>1. TypeOK'
  <2>1. EstablishQueued' <=> EstablishQueued
    BY DEF EstablishQueued
  <2> QED
    BY <2>1 DEF IInv, TypeOK
<1>2. ConnectingFirst' /\ StateAndChannel'
  BY DEF IInv, ConnectingFirst, StateAndChannel
<1>3. IsFiniteSet(Sent)' /\ Holders' /\ Shutting'
  BY CallsUnchanged
<1>4. Delivered'
  BY DEF IInv, Delivered, Running, IsSend
<1>5. ClosedOnce' /\ StaleNeedsHaste'
  BY DEF IInv, ClosedOnce, StaleNeedsHaste
<1> QED
  BY <1>1, <1>2, <1>3, <1>4, <1>5 DEF IInv

LEMMA NextIInv == IInv /\ [Next]_vars => IInv'
<1> SUFFICES ASSUME IInv, [Next]_vars PROVE IInv'
  OBVIOUS
<1>1. ASSUME NEW u \in Users, UserStep(u) PROVE IInv'
  BY <1>1, SendChecksKeeps, ShutDownChecksKeeps, DropKeeps, SendQueuesKeeps,
     ShutDownStoresKeeps, ShutDownQueuesKeeps DEF UserStep, UserInCall
<1>2. ASSUME NEW w \in BOOLEAN, Poll(w) PROVE IInv'
  BY <1>2, PollKeeps
<1>3. CASE RunFunctor
  BY <1>3, RunFunctorKeeps
<1>4. CASE LoopSend
  BY <1>4, LoopSendKeeps
<1>5. CASE LoopShutDown
  BY <1>5, LoopShutDownKeeps
<1>6. CASE EventStep
  BY <1>6, HandleHupKeeps, HandleReadEofKeeps, HandleReadOtherKeeps, HandleWriteKeeps,
     HandleStaleKeeps DEF EventStep
<1>7. CASE Peer
  BY <1>7, PeerKeeps
<1>8. CASE UNCHANGED vars
  BY <1>8, StutterKeeps
<1> QED
  BY <1>1, <1>2, <1>3, <1>4, <1>5, <1>6, <1>7, <1>8 DEF Next

LEMMA Invariant == Spec => []IInv
<1> QED
  BY InitIInv, NextIInv, PTL DEF Spec


-----------------------------------------------------------------------------
(* The order of what the kernel gets. *)

LEMMA InitOrder == Init => OrderInv
<1> SUFFICES ASSUME Init PROVE OrderInv
  OBVIOUS
<1>1. \A i \in DOMAIN functors : ~IsSend(i)
  <2>1. functors = <<[op |-> "connectEstablished"]>>
    BY DEF Init
  <2>2. DOMAIN functors = {1} /\ functors[1] = [op |-> "connectEstablished"]
    BY <2>1
  <2> QED
    BY <2>2 DEF IsSend
<1>2. DOMAIN wire = {}
  BY DEF Init
<1>3. Sent = {}
  <2>1. MaxSends \in Nat /\ \A c \in Callers : sends[c] = 0
    BY ConnectionAssumption DEF Init
  <2> QED
    BY <2>1 DEF Sent, Messages
<1> QED
  BY <1>1, <1>2, <1>3 DEF OrderInv, QueuedInOrder, SentInOrder, WireInOrder, WaitsOrWent, Begun

\* Steps that neither queue or take a message nor write.
LEMMA OrderKept ==
    ASSUME OrderInv, UNCHANGED <<sends, wire>>,
           \A i : (i \in DOMAIN functors' /\ IsSend(i)') <=> (i \in DOMAIN functors /\ IsSend(i)),
           \A i \in DOMAIN functors : IsSend(i) => functors'[i] = functors[i],
           \A i \in DOMAIN functors : IsSend(i) => functors[i].msg[1] \in Users,
           \A u \in Users : upc'[u] = "send" <=> upc[u] = "send",
           partial \in BOOLEAN, partial' \in BOOLEAN, revived \in BOOLEAN, revived' \in BOOLEAN,
           partial => partial', revived => revived', Dead /\ ~revived' => Dead'
    PROVE  OrderInv'
<1>1. QueuedInOrder'
  <2> SUFFICES ASSUME NEW i \in DOMAIN functors', IsSend(i)'
               PROVE  /\ functors'[i].msg[2] <= sends[functors'[i].msg[1]]
                      /\ upc'[functors'[i].msg[1]] = "send" =>
                             functors'[i].msg[2] < sends[functors'[i].msg[1]]
                      /\ \A j \in DOMAIN functors' :
                             j > i /\ IsSend(j)' /\ functors'[j].msg[1] = functors'[i].msg[1] =>
                                 functors'[j].msg[2] > functors'[i].msg[2]
    BY DEF QueuedInOrder
  <2>1. i \in DOMAIN functors /\ IsSend(i) /\ functors'[i] = functors[i]
    OBVIOUS
  <2>2. /\ functors[i].msg[2] <= sends[functors[i].msg[1]]
        /\ upc[functors[i].msg[1]] = "send" => functors[i].msg[2] < sends[functors[i].msg[1]]
        /\ functors[i].msg[1] \in Users
    BY <2>1 DEF OrderInv, QueuedInOrder
  <2>3. ASSUME NEW j \in DOMAIN functors', j > i, IsSend(j)',
               functors'[j].msg[1] = functors'[i].msg[1]
        PROVE  functors'[j].msg[2] > functors'[i].msg[2]
    <3>1. j \in DOMAIN functors /\ IsSend(j) /\ functors'[j] = functors[j]
      BY <2>3
    <3> QED
      BY <2>1, <2>3, <3>1 DEF OrderInv, QueuedInOrder
  <2> QED
    BY <2>1, <2>2, <2>3
<1>2. SentInOrder'
  BY DEF OrderInv, SentInOrder, WireInOrder
<1>3. \A m : Waits(m)' <=> Waits(m)
  BY DEF Waits
<1>4. WaitsOrWent'
  <2> SUFFICES ASSUME ~partial', ~revived'
               PROVE  /\ \A m \in Sent : Waits(m) \/ Dead' \/ OnWire(m)
                      /\ \A m \in Messages : Begun(m) => m \in Sent /\ ~Waits(m)
    BY <1>3 DEF WaitsOrWent, Sent, OnWire, Begun
  <2>1. ~partial /\ ~revived /\ (Dead => Dead')
    OBVIOUS
  <2> QED
    BY <2>1 DEF OrderInv, WaitsOrWent
<1> QED
  BY <1>1, <1>2, <1>4 DEF OrderInv

\* A message written whole, behind those its caller sent before.
LEMMA MessageWritten ==
    ASSUME wire \in Seq(Bytes), WireInOrder, NEW m \in Messages, wire' = wire \o ByteSeq(m),
           ~Begun(m),
           \A x \in Messages : x[1] = m[1] /\ x[2] < m[2] => OnWire(x)
    PROVE  /\ WireInOrder' /\ OnWire(m)'
           /\ \A x : OnWire(x) => OnWire(x)'
           /\ \A x : Begun(x)' => x = m \/ Begun(x)
<1> DEFINE n == Len(wire)
<1>1. MsgLen \in Nat /\ MsgLen > 0
  BY ConnectionAssumption
<1>2. ByteSeq(m) \in Seq(Bytes) /\ Len(ByteSeq(m)) = MsgLen
  <2>1. ByteSeq(m) \in [1..MsgLen -> Bytes]
    BY BytesOf DEF ByteSeq
  <2> QED
    BY <1>1, <2>1, SeqDef, LenProperties
<1>3. /\ n \in Nat /\ DOMAIN wire = 1..n /\ DOMAIN wire' = 1..(n + MsgLen)
      /\ \A i \in 1..n : wire'[i] = wire[i] /\ wire[i] \in Bytes
      /\ \A b \in 1..MsgLen : wire'[n + b] = <<m, b>>
  <2>1. n \in Nat /\ DOMAIN wire = 1..n /\ \A i \in 1..n : wire[i] \in Bytes
    BY LenProperties, ElementOfSeq
  <2>2. /\ DOMAIN wire' = 1..(n + MsgLen)
        /\ \A i \in 1..(n + MsgLen) :
               wire'[i] = IF i <= n THEN wire[i] ELSE ByteSeq(m)[i - n]
    <3>1. /\ wire' \in Seq(Bytes) /\ Len(wire') = n + MsgLen
          /\ \A i \in 1..(n + MsgLen) :
                 wire'[i] = IF i <= n THEN wire[i] ELSE ByteSeq(m)[i - n]
      BY <1>2, ConcatProperties
    <3> QED
      BY <3>1, LenProperties
  <2>3. ASSUME NEW b \in 1..MsgLen PROVE wire'[n + b] = <<m, b>>
    <3>1. n + b \in 1..(n + MsgLen) /\ ~(n + b <= n) /\ (n + b) - n = b
      BY <1>1, <2>1
    <3> QED
      BY <2>2, <3>1, BytesOf
  <2>4. ASSUME NEW i \in 1..n PROVE wire'[i] = wire[i]
    <3>1. i \in 1..(n + MsgLen) /\ i <= n
      BY <1>1, <2>1
    <3> QED
      BY <2>2, <3>1
  <2> QED
    BY <2>1, <2>2, <2>3, <2>4
<1> HIDE DEF n
<1>4. \A i \in DOMAIN wire' : i \in 1..n \/ \E b \in 1..MsgLen : i = n + b
  <2> SUFFICES ASSUME NEW i \in 1..(n + MsgLen), i \notin 1..n
               PROVE  \E b \in 1..MsgLen : i = n + b
    BY <1>3
  <2>1. i - n \in 1..MsgLen /\ i = n + (i - n)
    BY <1>1, <1>3
  <2> QED
    BY <2>1
<1>5. \A b \in 1..MsgLen : n + b \in DOMAIN wire' /\ b \in Nat
  BY <1>1, <1>3
<1>6. \A i \in 1..n : i \in DOMAIN wire' /\ i \in Nat
  BY <1>1, <1>3
<1>7. WireInOrder'
  <2> DEFINE Placed(i) ==
        /\ \A j \in DOMAIN wire' : wire'[j] = wire'[i] => j = i
        /\ \A x \in Bytes : Before(x, wire'[i]) => \E j \in DOMAIN wire' : j < i /\ wire'[j] = x
        /\ wire'[i][2] < MsgLen =>
               i + 1 \in DOMAIN wire' /\ wire'[i + 1] = <<wire'[i][1], wire'[i][2] + 1>>
  <2>1. ASSUME NEW i \in 1..n PROVE Placed(i)
    <3>1. wire'[i] = wire[i] /\ wire[i][1] # m /\ i \in DOMAIN wire
      BY <1>3 DEF Begun
    <3>2. ASSUME NEW j \in DOMAIN wire', wire'[j] = wire'[i] PROVE j = i
      <4>1. j \in 1..n
        <5>1. ASSUME NEW b \in 1..MsgLen, j = n + b PROVE FALSE
          <6>1. wire'[j] = <<m, b>>
            BY <1>3, <5>1
          <6> QED
            BY <3>1, <3>2, <6>1
        <5> QED
          BY <1>4, <5>1
      <4> QED
        BY <1>3, <3>1, <3>2, <4>1 DEF WireInOrder
    <3>3. ASSUME NEW x \in Bytes, Before(x, wire'[i])
          PROVE  \E j \in DOMAIN wire' : j < i /\ wire'[j] = x
      <4>1. PICK j \in DOMAIN wire : j < i /\ wire[j] = x
        BY <3>1, <3>3 DEF WireInOrder
      <4> QED
        BY <1>3, <1>6, <4>1
    <3>4. ASSUME wire'[i][2] < MsgLen
          PROVE  i + 1 \in DOMAIN wire' /\ wire'[i + 1] = <<wire'[i][1], wire'[i][2] + 1>>
      <4>1. i + 1 \in DOMAIN wire /\ wire[i + 1] = <<wire[i][1], wire[i][2] + 1>>
        BY <3>1, <3>4 DEF WireInOrder
      <4> QED
        BY <1>3, <1>6, <3>1, <4>1
    <3> QED
      BY <3>2, <3>3, <3>4
  <2>2. ASSUME NEW i, NEW b \in 1..MsgLen, i = n + b PROVE Placed(i)
    <3>1. wire'[i] = <<m, b>> /\ <<m, b>>[1] = m /\ <<m, b>>[2] = b
      BY <1>3, <2>2
    <3>2. ASSUME NEW j \in DOMAIN wire', wire'[j] = <<m, b>> PROVE j = i
      <4>1. j \notin 1..n
        BY <1>3, <3>2 DEF Begun
      <4>2. PICK a \in 1..MsgLen : j = n + a
        BY <1>4, <4>1
      <4>3. <<m, a>> = <<m, b>>
        BY <1>3, <3>2, <4>2
      <4> QED
        BY <2>2, <4>2, <4>3
    <3>3. ASSUME NEW x \in Bytes, Before(x, <<m, b>>)
          PROVE  \E j \in DOMAIN wire' : j < i /\ wire'[j] = x
      <4>1. x = <<x[1], x[2]>> /\ x[1] \in Messages /\ x[2] \in 1..MsgLen
        BY DEF Bytes
      <4>2. CASE x[1][2] < m[2]
        <5>1. OnWire(x[1])
          BY <3>3, <4>1, <4>2 DEF Before
        <5>2. PICK j \in DOMAIN wire : wire[j] = x
          BY <4>1, <5>1 DEF OnWire
        <5>3. j \in 1..n /\ j < i
          BY <1>3, <2>2
        <5> QED
          BY <1>3, <1>6, <5>2, <5>3
      <4>3. CASE x[1][2] = m[2] /\ x[2] < b
        <5>1. x[1] = m
          <6>1. x[1][1] = m[1]
            BY <3>3 DEF Before
          <6>2. x[1] = <<x[1][1], x[1][2]>> /\ m = <<m[1], m[2]>>
            BY <4>1 DEF Messages
          <6> QED
            BY <4>3, <6>1, <6>2
        <5>2. n + x[2] \in DOMAIN wire' /\ n + x[2] < i
          BY <1>3, <1>5, <2>2, <4>1, <4>3
        <5> QED
          BY <1>3, <4>1, <5>1, <5>2
      <4> QED
        BY <3>3, <4>2, <4>3 DEF Before
    <3>4. ASSUME b < MsgLen
          PROVE  i + 1 \in DOMAIN wire' /\ wire'[i + 1] = <<m, b + 1>>
      <4>1. b + 1 \in 1..MsgLen /\ i + 1 = n + (b + 1)
        BY <1>1, <1>3, <2>2, <3>4
      <4> QED
        BY <1>3, <1>5, <4>1
    <3>5. wire'[i] = <<m, b>> /\ wire'[i][1] = m /\ wire'[i][2] = b
      BY <3>1
    <3> HIDE DEF n
    <3> QED
      BY <3>2, <3>3, <3>4, <3>5
  <2> HIDE DEF Placed
  <2>3. \A i \in DOMAIN wire' : Placed(i)
    BY <1>4, <2>1, <2>2
  <2> QED
    BY <2>3 DEF Placed, WireInOrder
<1>8. OnWire(m)'
  BY <1>3, <1>5 DEF OnWire
<1>9. ASSUME NEW x, OnWire(x) PROVE OnWire(x)'
  BY <1>3, <1>6, <1>9 DEF OnWire
<1>10. ASSUME NEW i \in DOMAIN wire'
       PROVE  wire'[i][1] = m \/ (i \in DOMAIN wire /\ wire'[i][1] = wire[i][1])
  <2>1. CASE i \in 1..n
    BY <1>3, <2>1
  <2>2. ASSUME NEW b \in 1..MsgLen, i = n + b PROVE wire'[i][1] = m
    <3>1. wire'[i] = <<m, b>>
      BY <1>3, <2>2
    <3> QED
      BY <3>1
  <2> QED
    BY <1>4, <2>1, <2>2
<1> QED
  BY <1>7, <1>8, <1>9, <1>10 DEF Begun

\* Steps that leave the functors alone, and the calls of send.
LEMMA QuietStep ==
    ASSUME IInv, OrderInv, UNCHANGED <<functors, sends, wire>>,
           \A u \in Users : upc'[u] = "send" <=> upc[u] = "send",
           partial \in BOOLEAN, partial' \in BOOLEAN, revived \in BOOLEAN, revived' \in BOOLEAN,
           partial => partial', revived => revived', Dead /\ ~revived' => Dead'
    PROVE  OrderInv'
<1>1. \A i : IsSend(i)' <=> IsSend(i)
  BY DEF IsSend
<1>2. \A i \in DOMAIN functors : IsSend(i) => functors[i].msg[1] \in Users
  BY DEF IInv, Holders
<1> QED
  BY <1>1, <1>2, OrderKept

LEMMA SendTyped ==
    ASSUME TypeOK
    PROVE  /\ MaxSends \in Nat /\ sends \in [Callers -> 0..MaxSends] /\ Users \subseteq Callers
           /\ \A c \in Callers : sends[c] \in Nat
           /\ \A m \in Messages : m = <<m[1], m[2]>> /\ m[1] \in Callers /\ m[2] \in Nat
           /\ \A i \in DOMAIN functors : IsSend(i) => functors[i].msg \in Messages
           /\ wire \in Seq(Bytes)
<1>1. MaxSends \in Nat /\ sends \in [Callers -> 0..MaxSends] /\ Users \subseteq Callers
  BY ConnectionAssumption DEF TypeOK, Callers
<1>2. \A c \in Callers : sends[c] \in Nat
  BY <1>1
<1>3. \A m \in Messages : m = <<m[1], m[2]>> /\ m[1] \in Callers /\ m[2] \in Nat
  BY <1>1 DEF Messages
<1>4. \A i \in DOMAIN functors : IsSend(i) => functors[i].msg \in Messages
  <2>1. \A i \in DOMAIN functors : functors[i] \in Functors
    <3>1. functors \in Seq(Functors)
      BY DEF TypeOK
    <3> QED
      BY <3>1, ElementOfSeq, LenProperties
  <2> QED
    BY <2>1 DEF Functors, IsSend
<1>5. wire \in Seq(Bytes)
  BY DEF TypeOK
<1> QED
  BY <1>1, <1>2, <1>3, <1>4, <1>5

\* What sendInLoop does to a message: it drops it and all that follow, or it writes it
\* whole, or the write is partial.
LEMMA SendOutcome ==
    ASSUME TypeOK, NEW m \in Messages, sendInLoop(m)
    PROVE  /\ partial' \in BOOLEAN /\ (partial => partial') /\ finSent' = finSent
           /\ \/ partial'
              \/ Dead /\ wire' = wire
              \/ ~Dead /\ wire' = wire \o ByteSeq(m)
<1>1. partial' \in BOOLEAN /\ (partial => partial') /\ finSent' = finSent
  BY SendInLoopIs
<1>2. CASE m_state = "kDisconnected"
  BY <1>1, <1>2 DEF sendInLoop, Dead, output
<1>3. CASE m_state # "kDisconnected" /\ SendFaults
  BY <1>1, <1>3 DEF SendFaults, WriteFails, Dead, output
<1>4. ASSUME m_state # "kDisconnected", NEW n \in 0..MsgLen, SendTakes(m, n), ~partial'
      PROVE  ~Dead /\ wire' = wire \o ByteSeq(m)
  <2>1. MsgLen \in Nat /\ MsgLen > 0
    BY ConnectionAssumption
  <2>2. ~(n < MsgLen) /\ wire' = wire \o SubSeq(ByteSeq(m), 1, n)
    BY <1>4 DEF SendTakes
  <2>3. n = MsgLen /\ n # 0
    BY <2>1, <2>2
  <2>4. SocketOpen
    BY <1>4, <2>3 DEF SendTakes
  <2>5. SubSeq(ByteSeq(m), 1, MsgLen) = ByteSeq(m)
    BY <2>1 DEF ByteSeq
  <2> QED
    BY <1>4, <2>2, <2>3, <2>4, <2>5 DEF Dead
<1> QED
  BY <1>1, <1>2, <1>3, <1>4 DEF sendInLoop

\* A functor taken waits no more; the others keep their order.
LEMMA TakenOrder ==
    ASSUME IInv, OrderInv, functors # << >>, functors' = Tail(functors), UNCHANGED <<upc, sends>>
    PROVE  /\ QueuedInOrder'
           /\ \A x \in Messages : Waits(x) <=> Waits(x)' \/ (IsSend(1) /\ x = functors[1].msg)
           /\ IsSend(1) => functors[1].msg \in Messages
           /\ \A m \in Messages :
                  IsSend(1) /\ m = functors[1].msg =>
                      /\ Waits(m) /\ ~Waits(m)' /\ m[2] <= sends[m[1]]
                      /\ \A x \in Messages : x[1] = m[1] /\ x[2] < m[2] => ~Waits(x)
<1>1. /\ DOMAIN functors = 1..Len(functors) /\ DOMAIN functors' = 1..(Len(functors) - 1)
      /\ Len(functors) \in Nat /\ Len(functors) > 0
      /\ \A i \in 1..(Len(functors) - 1) : /\ i + 1 \in 1..Len(functors)
                                           /\ functors'[i] = functors[i + 1]
  BY FunctorTaken DEF IInv
<1>2. \A i \in DOMAIN functors' : /\ i \in Nat /\ i + 1 \in DOMAIN functors /\ i + 1 > 1
                                  /\ functors'[i] = functors[i + 1]
                                  /\ (IsSend(i)' <=> IsSend(i + 1))
  BY <1>1 DEF IsSend
<1>3. \A i, j \in DOMAIN functors' : j > i => j + 1 > i + 1
  BY <1>2
<1>4. \A i \in DOMAIN functors : i = 1 \/ (i > 1 /\ \E j \in DOMAIN functors' : i = j + 1)
  <2> SUFFICES ASSUME NEW i \in DOMAIN functors, i # 1
               PROVE  i > 1 /\ \E j \in DOMAIN functors' : i = j + 1
    OBVIOUS
  <2>1. i - 1 \in DOMAIN functors' /\ i = (i - 1) + 1 /\ i > 1
    BY <1>1
  <2> QED
    BY <2>1
<1>5. /\ \A i \in DOMAIN functors : IsSend(i) => functors[i].msg \in Messages
      /\ \A m \in Messages : m[1] \in Callers /\ m[2] \in Nat
      /\ \A c \in Callers : sends[c] \in Nat
  BY SendTyped DEF IInv
<1>6. 1 \in DOMAIN functors
  BY <1>1
<1>7. QueuedInOrder'
  BY <1>2, <1>3 DEF OrderInv, QueuedInOrder
<1>8. ASSUME NEW x \in Messages
      PROVE  Waits(x) <=> Waits(x)' \/ (IsSend(1) /\ x = functors[1].msg)
  BY <1>2, <1>4, <1>6 DEF Waits, IsSend
<1>9. ASSUME NEW m \in Messages, IsSend(1), m = functors[1].msg
      PROVE  /\ Waits(m) /\ ~Waits(m)' /\ m[2] <= sends[m[1]]
             /\ \A x \in Messages : x[1] = m[1] /\ x[2] < m[2] => ~Waits(x)
  <2>1. m[1] \in Callers /\ m[2] \in Nat /\ sends[m[1]] \in Nat
    BY <1>5
  <2>2. /\ m[2] <= sends[m[1]] /\ (upc[m[1]] = "send" => m[2] < sends[m[1]])
        /\ \A j \in DOMAIN functors :
               j > 1 /\ IsSend(j) /\ functors[j].msg[1] = m[1] => functors[j].msg[2] > m[2]
    BY <1>6, <1>9 DEF OrderInv, QueuedInOrder
  <2>3. Waits(m)
    BY <1>6, <1>9 DEF Waits
  <2>4. ~Waits(m)'
    <3>1. ASSUME NEW j \in DOMAIN functors', IsSend(j)', functors'[j].msg = m PROVE FALSE
      BY <1>2, <2>1, <2>2, <3>1
    <3>2. ASSUME upc[m[1]] = "send", m[2] = sends[m[1]] PROVE FALSE
      BY <2>1, <2>2, <3>2
    <3> QED
      BY <3>1, <3>2 DEF Waits
  <2>5. ASSUME NEW x \in Messages, x[1] = m[1], x[2] < m[2], Waits(x) PROVE FALSE
    <3>1. x[2] \in Nat /\ x # m
      BY <1>5, <2>1, <2>5
    <3>2. ASSUME NEW i \in DOMAIN functors, IsSend(i), functors[i].msg = x PROVE FALSE
      <4>1. i = 1 \/ i > 1
        BY <1>4
      <4>2. functors[1].msg # x
        BY <1>9, <3>1
      <4> QED
        BY <2>1, <2>2, <2>5, <3>1, <3>2, <4>1, <4>2
    <3>3. ASSUME x[2] = sends[x[1]] PROVE FALSE
      BY <2>1, <2>2, <2>5, <3>1, <3>3
    <3> QED
      BY <2>5, <3>2, <3>3 DEF Waits
  <2> QED
    BY <2>1, <2>2, <2>3, <2>4, <2>5
<1> QED
  BY <1>5, <1>6, <1>7, <1>8, <1>9

\* The first functor is taken, and nothing is written: either it was no send, or nothing
\* goes out any more.
LEMMA TakenUnwritten ==
    ASSUME IInv, OrderInv, functors # << >>, functors' = Tail(functors),
           UNCHANGED <<upc, sends, wire>>, partial \in BOOLEAN, partial' \in BOOLEAN,
           partial => partial', revived' = revived, revived \in BOOLEAN,
           Dead /\ ~revived => Dead', IsSend(1) /\ ~partial' /\ ~revived => Dead'
    PROVE  OrderInv'
<1>1. QueuedInOrder'
  BY TakenOrder
<1>2. SentInOrder'
  BY DEF OrderInv, SentInOrder, WireInOrder
<1>3. WaitsOrWent'
  <2> SUFFICES ASSUME ~partial', ~revived
               PROVE  /\ \A m \in Sent : Waits(m)' \/ Dead' \/ OnWire(m)
                      /\ \A m \in Messages : Begun(m) => m \in Sent /\ ~Waits(m)'
    BY DEF WaitsOrWent, Sent, OnWire, Begun
  <2>1. ~partial
    OBVIOUS
  <2>2. \A m \in Sent : m \in Messages
    BY DEF Sent
  <2>3. \A m \in Messages : Waits(m) <=> Waits(m)' \/ (IsSend(1) /\ m = functors[1].msg)
    BY TakenOrder
  <2>4. \A m \in Sent : Waits(m) \/ Dead \/ OnWire(m)
    BY <2>1 DEF OrderInv, WaitsOrWent
  <2>5. \A m \in Messages : Begun(m) => m \in Sent /\ ~Waits(m)
    BY <2>1 DEF OrderInv, WaitsOrWent
  <2> QED
    BY <2>1, <2>2, <2>3, <2>4, <2>5
<1> QED
  BY <1>1, <1>2, <1>3 DEF OrderInv

\* The first functor is a send, and its message is written whole.
LEMMA TakenWritten ==
    ASSUME IInv, OrderInv, functors # << >>, functors' = Tail(functors), UNCHANGED <<upc, sends>>,
           NEW m \in Messages, IsSend(1), m = functors[1].msg, ~Dead, ~partial, ~revived,
           wire' = wire \o ByteSeq(m)
    PROVE  OrderInv'
<1>1. QueuedInOrder'
  BY TakenOrder
<1>2. /\ Waits(m) /\ ~Waits(m)' /\ m[2] <= sends[m[1]]
      /\ \A x \in Messages : x[1] = m[1] /\ x[2] < m[2] => ~Waits(x)
      /\ \A x \in Messages : Waits(x) <=> Waits(x)' \/ x = m
  BY TakenOrder
<1>3. /\ \A x \in Messages : x[1] \in Callers /\ x[2] \in Nat
      /\ \A c \in Callers : sends[c] \in Nat
      /\ wire \in Seq(Bytes)
  BY SendTyped DEF IInv
<1>4. /\ \A x \in Sent : Waits(x) \/ OnWire(x)
      /\ \A x \in Messages : Begun(x) => x \in Sent /\ ~Waits(x)
      /\ WireInOrder
  BY DEF OrderInv, WaitsOrWent, SentInOrder
<1>5. \A x \in Messages : x[1] = m[1] /\ x[2] < m[2] => OnWire(x)
  <2> SUFFICES ASSUME NEW x \in Messages, x[1] = m[1], x[2] < m[2] PROVE OnWire(x)
    OBVIOUS
  <2>1. x[2] <= sends[x[1]]
    BY <1>2, <1>3
  <2>2. x \in Sent
    BY <2>1 DEF Sent
  <2> QED
    BY <1>2, <1>4, <2>2
<1>6. ~Begun(m)
  BY <1>2, <1>4
<1>7. /\ WireInOrder' /\ OnWire(m)' /\ \A x : OnWire(x) => OnWire(x)'
      /\ \A x : Begun(x)' => x = m \/ Begun(x)
  BY <1>3, <1>4, <1>5, <1>6, MessageWritten
<1>8. WaitsOrWent'
  <2>1. Sent' = Sent /\ m \in Sent /\ \A x \in Sent : x \in Messages
    BY <1>2 DEF Sent
  <2>2. \A x \in Sent : Waits(x)' \/ OnWire(x)'
    BY <1>2, <1>4, <1>7, <2>1
  <2>3. \A x \in Messages : Begun(x)' => x \in Sent /\ ~Waits(x)'
    BY <1>2, <1>4, <1>7, <2>1
  <2> QED
    BY <2>1, <2>2, <2>3 DEF WaitsOrWent
<1> QED
  BY <1>1, <1>7, <1>8 DEF OrderInv, SentInOrder

LEMMA SendChecksOrder ==
    ASSUME IInv, OrderInv, NEW u \in Users, SendChecks(u) PROVE OrderInv'
<1> USE DEF Stays, object, channel, output, remote, history
<1> DEFINE m == <<u, sends[u] + 1>>
<1>1. /\ UNCHANGED <<m_state, functors, wire, partial, revived, finSent, peer>>
      /\ upc[u] = "out" /\ upc' = [upc EXCEPT ![u] = "send"]
      /\ sends' = [sends EXCEPT ![u] = @ + 1]
      /\ Cardinality(Sent) < MaxSends /\ u \in Callers
  BY DEF SendChecks, Callers
<1>2. /\ sends \in [Callers -> 0..MaxSends] /\ \A c \in Callers : sends[c] \in Nat
      /\ Users \subseteq Callers
      /\ \A x \in Messages : x = <<x[1], x[2]>> /\ x[1] \in Callers /\ x[2] \in Nat
      /\ \A i \in DOMAIN functors : IsSend(i) => functors[i].msg \in Messages
  BY SendTyped DEF IInv
<1>3. upc \in [Users -> {"out", "send", "store", "queue"}]
  BY DEF IInv, TypeOK
<1>4. /\ sends'[u] = sends[u] + 1 /\ \A c \in Callers : c # u => sends'[c] = sends[c]
      /\ upc'[u] = "send" /\ \A v \in Users : v # u => upc'[v] = upc[v]
  BY <1>1, <1>2, <1>3
<1>5. \A x \in Messages : Waits(x)' <=> Waits(x) \/ x = m
  <2> SUFFICES ASSUME NEW x \in Messages
               PROVE  (x[1] \in Users /\ upc'[x[1]] = "send" /\ x[2] = sends'[x[1]]) <=>
                      (x[1] \in Users /\ upc[x[1]] = "send" /\ x[2] = sends[x[1]]) \/ x = m
    BY <1>1 DEF Waits, IsSend
  <2>1. CASE x[1] = u
    <3>1. x = m <=> x[2] = sends[u] + 1
      BY <1>2, <2>1
    <3> QED
      BY <1>1, <1>4, <2>1, <3>1
  <2>2. CASE x[1] # u
    BY <1>2, <1>4, <2>2
  <2> QED
    BY <2>1, <2>2
<1>6. QueuedInOrder'
  <2> SUFFICES ASSUME NEW i \in DOMAIN functors, IsSend(i)
               PROVE  /\ functors[i].msg[2] <= sends'[functors[i].msg[1]]
                      /\ upc'[functors[i].msg[1]] = "send" =>
                             functors[i].msg[2] < sends'[functors[i].msg[1]]
    BY <1>1 DEF OrderInv, QueuedInOrder, IsSend
  <2>1. /\ functors[i].msg \in Messages
        /\ functors[i].msg[1] \in Callers /\ functors[i].msg[1] \in Users
        /\ functors[i].msg[2] \in Nat
    BY <1>2 DEF IInv, Holders
  <2>2. /\ functors[i].msg[2] <= sends[functors[i].msg[1]]
        /\ upc[functors[i].msg[1]] = "send" => functors[i].msg[2] < sends[functors[i].msg[1]]
    BY DEF OrderInv, QueuedInOrder
  <2> QED
    BY <1>2, <1>4, <2>1, <2>2
<1>7. SentInOrder'
  BY <1>1 DEF OrderInv, SentInOrder, WireInOrder
<1>8. WaitsOrWent'
  <2>1. \A x \in Messages : /\ x \in Sent => x \in Sent' /\ x # m
                            /\ x \in Sent' => x \in Sent \/ x = m
    <3> SUFFICES ASSUME NEW x \in Messages
                 PROVE  /\ x[2] <= sends[x[1]] => x[2] <= sends'[x[1]] /\ x # m
                        /\ x[2] <= sends'[x[1]] => x[2] <= sends[x[1]] \/ x = m
      BY DEF Sent
    <3>1. CASE x[1] = u
      <4>1. (x = m <=> x[2] = sends[u] + 1) /\ x[2] \in Nat /\ sends[u] \in Nat
        BY <1>1, <1>2, <3>1
      <4> QED
        BY <1>4, <3>1, <4>1
    <3>2. CASE x[1] # u
      BY <1>2, <1>4, <3>2
    <3> QED
      BY <3>1, <3>2
  <2>2. \A x \in Sent \cup Sent' : x \in Messages
    BY DEF Sent
  <2> HIDE DEF m
  <2>3. Dead' <=> Dead
    BY <1>1 DEF Dead, SocketOpen
  <2> SUFFICES ASSUME ~partial, ~revived
               PROVE  /\ \A x \in Sent' : Waits(x)' \/ Dead \/ OnWire(x)
                      /\ \A x \in Messages : Begun(x) => x \in Sent' /\ ~Waits(x)'
    BY <1>1, <2>3 DEF WaitsOrWent, OnWire, Begun
  <2>4. /\ \A x \in Sent : Waits(x) \/ Dead \/ OnWire(x)
        /\ \A x \in Messages : Begun(x) => x \in Sent /\ ~Waits(x)
    BY DEF OrderInv, WaitsOrWent
  <2> QED
    BY <1>5, <2>1, <2>2, <2>4
<1> QED
  BY <1>6, <1>7, <1>8 DEF OrderInv

LEMMA SendQueuesOrder ==
    ASSUME IInv, OrderInv, NEW u \in Users, SendQueues(u) PROVE OrderInv'
<1> USE DEF Stays, object, channel, output, remote, history
<1> DEFINE f == [op |-> "sendInLoop", msg |-> <<u, sends[u]>>]
<1>1. /\ UNCHANGED <<m_state, sends, wire, partial, revived, finSent, peer>>
      /\ upc[u] = "send" /\ upc' = [upc EXCEPT ![u] = "out"]
      /\ functors' = Append(functors, f)
  BY DEF SendQueues
<1>2. /\ sends \in [Callers -> 0..MaxSends] /\ \A c \in Callers : sends[c] \in Nat
      /\ MaxSends \in Nat /\ Users \subseteq Callers
      /\ \A x \in Messages : x = <<x[1], x[2]>> /\ x[1] \in Callers /\ x[2] \in Nat
      /\ \A i \in DOMAIN functors : IsSend(i) => functors[i].msg \in Messages
  BY SendTyped DEF IInv
<1>3. <<u, sends[u]>> \in Messages
  <2>1. sends[u] \in 0..MaxSends /\ sends[u] # 0
    BY <1>1, <1>2 DEF IInv, Holders
  <2>2. sends[u] \in 1..MaxSends /\ u \in Callers
    BY <1>2, <2>1
  <2> QED
    BY <2>2 DEF Messages
<1>4. f \in Functors /\ f.op = "sendInLoop" /\ f.msg = <<u, sends[u]>>
      /\ f.msg[1] = u /\ f.msg[2] = sends[u]
  BY <1>3 DEF Functors
<1> HIDE DEF f
<1>5. \A v \in Users : upc'[v] = IF v = u THEN "out" ELSE upc[v]
  <2>1. upc \in [Users -> {"out", "send", "store", "queue"}]
    BY DEF IInv, TypeOK
  <2> QED
    BY <1>1, <2>1
<1>6. /\ DOMAIN functors = 1..Len(functors) /\ DOMAIN functors' = 1..(Len(functors) + 1)
      /\ Len(functors) \in Nat /\ functors'[Len(functors) + 1] = f
      /\ \A i \in 1..Len(functors) : functors'[i] = functors[i]
  BY <1>1, <1>4, FunctorAppended DEF IInv
<1>7. \A i \in DOMAIN functors' :
         (i \in DOMAIN functors /\ functors'[i] = functors[i])
         \/ (functors'[i] = f /\ \A j \in DOMAIN functors' : ~(j > i))
  BY <1>6
<1>8. \A i \in DOMAIN functors : i \in DOMAIN functors' /\ functors'[i] = functors[i]
  BY <1>6
<1>9. \E i \in DOMAIN functors' : functors'[i] = f
  <2>1. Len(functors) + 1 \in DOMAIN functors'
    BY <1>6
  <2> QED
    BY <1>6, <2>1
<1>10. QueuedInOrder'
  <2> SUFFICES ASSUME NEW i \in DOMAIN functors', IsSend(i)'
               PROVE  /\ functors'[i].msg[2] <= sends[functors'[i].msg[1]]
                      /\ upc'[functors'[i].msg[1]] = "send" =>
                             functors'[i].msg[2] < sends[functors'[i].msg[1]]
                      /\ \A j \in DOMAIN functors' :
                             j > i /\ IsSend(j)' /\ functors'[j].msg[1] = functors'[i].msg[1] =>
                                 functors'[j].msg[2] > functors'[i].msg[2]
    BY <1>1 DEF QueuedInOrder
  <2>1. CASE functors'[i] = f /\ \A j \in DOMAIN functors' : ~(j > i)
    <3>1. functors'[i].msg[1] = u /\ functors'[i].msg[2] = sends[u] /\ sends[u] \in Nat
      BY <1>2, <1>4, <2>1
    <3>2. upc'[u] # "send"
      BY <1>5
    <3> QED
      BY <2>1, <3>1, <3>2
  <2>2. CASE i \in DOMAIN functors /\ functors'[i] = functors[i]
    <3> DEFINE m == functors[i].msg
    <3>1. IsSend(i) /\ m \in Messages /\ m[1] \in Users /\ functors'[i].msg = m
      BY <1>2, <2>2 DEF IsSend, IInv, Holders
    <3>2. /\ m[2] <= sends[m[1]] /\ (upc[m[1]] = "send" => m[2] < sends[m[1]])
          /\ \A j \in DOMAIN functors :
                 j > i /\ IsSend(j) /\ functors[j].msg[1] = m[1] => functors[j].msg[2] > m[2]
      BY <2>2, <3>1 DEF OrderInv, QueuedInOrder
    <3>3. m[2] \in Nat /\ sends[m[1]] \in Nat
      BY <1>2, <3>1
    <3> HIDE DEF m
    <3>4. upc'[m[1]] = "send" => m[2] < sends[m[1]]
      BY <1>5, <3>1, <3>2
    <3>5. ASSUME NEW j \in DOMAIN functors', j > i, IsSend(j)', functors'[j].msg[1] = m[1]
          PROVE  functors'[j].msg[2] > m[2]
      <4>1. CASE j \in DOMAIN functors /\ functors'[j] = functors[j]
        BY <3>2, <3>5, <4>1 DEF IsSend
      <4>2. CASE functors'[j] = f
        <5>1. m[1] = u /\ functors'[j].msg[2] = sends[u]
          BY <1>4, <3>5, <4>2
        <5>2. m[2] < sends[u]
          BY <1>1, <3>2, <5>1
        <5> QED
          BY <1>2, <3>3, <5>1, <5>2
      <4> QED
        BY <1>7, <4>1, <4>2
    <3> QED
      BY <3>1, <3>2, <3>4, <3>5
  <2> QED
    BY <1>7, <2>1, <2>2
<1>11. ASSUME NEW x \in Messages PROVE Waits(x)' <=> Waits(x)
  <2>1. CASE x = <<u, sends[u]>>
    <3>1. Waits(x)'
      BY <1>4, <1>9, <2>1 DEF Waits, IsSend
    <3>2. Waits(x)
      BY <1>1, <2>1 DEF Waits
    <3> QED
      BY <3>1, <3>2
  <2>2. CASE x # <<u, sends[u]>>
    <3>1. (x[1] \in Users /\ upc'[x[1]] = "send" /\ x[2] = sends[x[1]]) <=>
          (x[1] \in Users /\ upc[x[1]] = "send" /\ x[2] = sends[x[1]])
      BY <1>2, <1>5, <2>2
    <3>2. (\E i \in DOMAIN functors' : IsSend(i)' /\ functors'[i].msg = x) <=>
          (\E i \in DOMAIN functors : IsSend(i) /\ functors[i].msg = x)
      BY <1>4, <1>7, <1>8, <2>2 DEF IsSend
    <3> QED
      BY <1>1, <3>1, <3>2 DEF Waits
  <2> QED
    BY <2>1, <2>2
<1>12. SentInOrder'
  BY <1>1 DEF OrderInv, SentInOrder, WireInOrder
<1>13. WaitsOrWent'
  <2>1. Dead' <=> Dead
    BY <1>1 DEF Dead, SocketOpen
  <2> SUFFICES ASSUME ~partial, ~revived
               PROVE  /\ \A x \in Sent : Waits(x)' \/ Dead \/ OnWire(x)
                      /\ \A x \in Messages : Begun(x) => x \in Sent /\ ~Waits(x)'
    BY <1>1, <2>1 DEF WaitsOrWent, OnWire, Begun, Sent
  <2>2. \A x \in Sent : x \in Messages
    BY DEF Sent
  <2>3. /\ \A x \in Sent : Waits(x) \/ Dead \/ OnWire(x)
        /\ \A x \in Messages : Begun(x) => x \in Sent /\ ~Waits(x)
    BY DEF OrderInv, WaitsOrWent
  <2> QED
    BY <1>11, <2>2, <2>3
<1> QED
  BY <1>10, <1>12, <1>13 DEF OrderInv

LEMMA ShutDownQueuesOrder ==
    ASSUME IInv, OrderInv, NEW u \in Users, ShutDownQueues(u) PROVE OrderInv'
<1> USE DEF Stays, object, channel, output, remote, history
<1> DEFINE f == [op |-> "shutDownInLoop", by |-> u]
<1>1. /\ UNCHANGED <<m_state, sends, wire, partial, revived, finSent, peer>>
      /\ upc[u] = "queue" /\ upc' = [upc EXCEPT ![u] = "out"]
      /\ functors' = Append(functors, f)
  BY DEF ShutDownQueues
<1>2. f \in Functors /\ f.op = "shutDownInLoop"
  BY DEF Functors
<1> HIDE DEF f
<1>3. /\ DOMAIN functors = 1..Len(functors) /\ DOMAIN functors' = 1..(Len(functors) + 1)
      /\ Len(functors) \in Nat /\ functors'[Len(functors) + 1] = f
      /\ \A i \in 1..Len(functors) : functors'[i] = functors[i]
  BY <1>1, <1>2, FunctorAppended DEF IInv
<1>4. /\ \A i \in DOMAIN functors' : (i \in DOMAIN functors /\ functors'[i] = functors[i])
                                     \/ functors'[i] = f
      /\ \A i \in DOMAIN functors : i \in DOMAIN functors' /\ functors'[i] = functors[i]
  BY <1>3
<1>5. \A i : (i \in DOMAIN functors' /\ IsSend(i)') <=> (i \in DOMAIN functors /\ IsSend(i))
  BY <1>2, <1>4 DEF IsSend
<1>6. \A v \in Users : upc'[v] = "send" <=> upc[v] = "send"
  <2>1. upc \in [Users -> {"out", "send", "store", "queue"}]
    BY DEF IInv, TypeOK
  <2> QED
    BY <1>1, <2>1
<1>7. \A i \in DOMAIN functors : IsSend(i) => functors[i].msg[1] \in Users
  BY DEF IInv, Holders
<1>8. Dead' <=> Dead
  BY <1>1 DEF Dead, SocketOpen
<1>9. partial \in BOOLEAN /\ revived \in BOOLEAN
  BY DEF IInv, TypeOK
<1> QED
  BY <1>1, <1>4, <1>5, <1>6, <1>7, <1>8, <1>9, OrderKept

LEMMA RunFunctorOrder == ASSUME IInv, OrderInv, RunFunctor PROVE OrderInv'
<1> USE DEF object, remote, history
<1>1. /\ UNCHANGED <<upc, sends, peer, revived>>
      /\ partial \in BOOLEAN /\ revived \in BOOLEAN
  BY DEF RunFunctor, IInv, TypeOK
<1>2. CASE connectEstablished
  <2>1. /\ functors # << >> /\ functors' = Tail(functors)
        /\ Head(functors).op = "connectEstablished" /\ m_state = "kConnecting"
        /\ UNCHANGED <<wire, partial, finSent>>
    BY <1>2 DEF connectEstablished, EstablishQueued, output, IInv, TypeOK
  <2>2. ~IsSend(1)
    BY <2>1, FirstFunctor DEF IsSend
  <2>3. Dead => Dead'
    BY <1>1, <2>1 DEF Dead, SocketOpen
  <2> QED
    BY <1>1, <2>1, <2>2, <2>3, TakenUnwritten
<1>3. ASSUME NEW m \in Messages, RunsOnObject([op |-> "sendInLoop", msg |-> m]), sendInLoop(m)
      PROVE  OrderInv'
  <2>1. /\ functors # << >> /\ functors' = Tail(functors)
        /\ Head(functors) = [op |-> "sendInLoop", msg |-> m] /\ m_state' = m_state
    BY <1>3 DEF RunsOnObject
  <2>2. IsSend(1) /\ m = functors[1].msg
    BY <2>1, FirstFunctor DEF IsSend
  <2>3. /\ partial' \in BOOLEAN /\ (partial => partial') /\ finSent' = finSent
        /\ partial' \/ (Dead /\ wire' = wire) \/ (~Dead /\ wire' = wire \o ByteSeq(m))
    BY <1>3, SendOutcome DEF IInv
  <2>4. Dead' <=> Dead
    BY <1>1, <2>1, <2>3 DEF Dead, SocketOpen
  <2>5. CASE partial'
    BY <1>1, <2>1, <2>5, TakenOrder DEF OrderInv, SentInOrder, WaitsOrWent
  <2>6. CASE Dead /\ wire' = wire
    BY <1>1, <2>1, <2>3, <2>4, <2>6, TakenUnwritten
  <2>7. CASE ~partial' /\ ~Dead /\ wire' = wire \o ByteSeq(m)
    <3>1. CASE revived
      BY <1>1, <2>1, <3>1, TakenOrder DEF OrderInv, SentInOrder, WaitsOrWent
    <3>2. CASE ~revived
      BY <1>1, <2>1, <2>2, <2>3, <2>7, <3>2, TakenWritten
    <3> QED
      BY <3>1, <3>2
  <2> QED
    BY <2>3, <2>5, <2>6, <2>7
<1>4. ASSUME NEW u \in Users, RunsOnObject([op |-> "shutDownInLoop", by |-> u]), shutDownInLoop
      PROVE  OrderInv'
  <2>1. /\ functors # << >> /\ functors' = Tail(functors)
        /\ Head(functors) = [op |-> "shutDownInLoop", by |-> u]
        /\ UNCHANGED <<m_state, wire, partial>> /\ (finSent => finSent')
    BY <1>4 DEF RunsOnObject, shutDownInLoop
  <2>2. ~IsSend(1)
    BY <2>1, FirstFunctor DEF IsSend
  <2>3. Dead => Dead'
    BY <1>1, <2>1 DEF Dead, SocketOpen
  <2> QED
    BY <1>1, <2>1, <2>2, <2>3, TakenUnwritten
<1>5. ASSUME NEW f \in Functors, RunsOnObject(f), ~Alive, UNCHANGED <<output, events>>
      PROVE  OrderInv'
  <2>1. /\ functors # << >> /\ functors' = Tail(functors)
        /\ UNCHANGED <<m_state, wire, partial, finSent>>
    BY <1>5 DEF RunsOnObject, output
  <2>2. Dead' <=> Dead
    BY <1>1, <2>1 DEF Dead, SocketOpen
  <2>3. ~revived => Dead
    BY <1>5 DEF Alive, IInv, StateAndChannel, Dead
  <2> QED
    BY <1>1, <2>1, <2>2, <2>3, TakenUnwritten
<1> QED
  BY <1>2, <1>3, <1>4, <1>5 DEF RunFunctor

\* The loop thread's own messages never wait.
LEMMA LoopSendOrder == ASSUME IInv, OrderInv, LoopSend PROVE OrderInv'
<1> USE DEF object, remote, history
<1> PICK n : n = sends[Loop] + 1
  OBVIOUS
<1> PICK m : m = <<Loop, n>>
  OBVIOUS
<1>1. /\ UNCHANGED <<m_state, upc, functors, peer, revived>>
      /\ sends' = [sends EXCEPT ![Loop] = @ + 1] /\ sendInLoop(<<Loop, sends'[Loop]>>)
      /\ Cardinality(Sent) < MaxSends /\ Loop \in Callers /\ Loop \notin Users
  BY ConnectionAssumption DEF LoopSend, Callers
<1>2. /\ sends \in [Callers -> 0..MaxSends] /\ \A c \in Callers : sends[c] \in Nat
      /\ Users \subseteq Callers /\ wire \in Seq(Bytes)
      /\ \A x \in Messages : x = <<x[1], x[2]>> /\ x[1] \in Callers /\ x[2] \in Nat
  BY SendTyped DEF IInv
<1>3. /\ sends'[Loop] = n /\ n \in Nat /\ \A c \in Callers : c # Loop => sends'[c] = sends[c]
  BY <1>1, <1>2
<1>4. m \in Messages
  <2>1. n \in 1..MaxSends
    BY <1>1, OneMoreSend DEF IInv
  <2> QED
    BY <1>1, <2>1 DEF Messages
<1>5. /\ partial' \in BOOLEAN /\ (partial => partial') /\ finSent' = finSent
      /\ partial' \/ (Dead /\ wire' = wire) \/ (~Dead /\ wire' = wire \o ByteSeq(m))
  BY <1>1, <1>3, <1>4, SendOutcome DEF IInv
<1>6. \A x \in Messages : x \in Sent' <=> x \in Sent \/ x = m
  <2> SUFFICES ASSUME NEW x \in Messages
               PROVE  x[2] <= sends'[x[1]] <=> x[2] <= sends[x[1]] \/ x = m
    BY DEF Sent
  <2>1. CASE x[1] = Loop
    <3>1. (x = m <=> x[2] = n) /\ x[2] \in Nat /\ sends[Loop] \in Nat
      BY <1>1, <1>2, <2>1
    <3> QED
      BY <1>3, <2>1, <3>1
  <2>2. CASE x[1] # Loop
    BY <1>2, <1>3, <2>2
  <2> QED
    BY <2>1, <2>2
<1>7. m \notin Sent
  BY <1>1, <1>2 DEF Sent
<1>8. \A x \in Messages : x[1] = Loop /\ x[2] < n => x \in Sent
  BY <1>1, <1>2 DEF Sent
<1>9. m[1] = Loop /\ m[2] = n
  OBVIOUS
<1>10. \A i \in DOMAIN functors : IsSend(i) => functors[i].msg[1] \in Users
  BY DEF IInv, Holders
<1>11. \A x : Waits(x)' <=> Waits(x)
  BY <1>1, <1>2, <1>3 DEF Waits, IsSend
<1>12. \A x : Waits(x) => x[1] # Loop
  BY <1>1, <1>10 DEF Waits
<1>13. QueuedInOrder'
  BY <1>1, <1>2, <1>3, <1>10 DEF OrderInv, QueuedInOrder, IsSend
<1>14. ASSUME ~partial', ~revived PROVE SentInOrder' /\ WaitsOrWent'
  <2>1. /\ \A x \in Sent : Waits(x) \/ Dead \/ OnWire(x)
        /\ \A x \in Messages : Begun(x) => x \in Sent /\ ~Waits(x)
        /\ WireInOrder
    BY <1>5, <1>14 DEF OrderInv, WaitsOrWent, SentInOrder
  <2>2. Dead' <=> Dead
    BY <1>1, <1>5 DEF Dead, SocketOpen
  <2>3. \A x \in Sent \cup Sent' : x \in Messages
    BY DEF Sent
  <2>4. CASE Dead /\ wire' = wire
    <3>1. SentInOrder'
      BY <2>1, <2>4 DEF SentInOrder, WireInOrder
    <3>2. \A x \in Messages : Begun(x)' <=> Begun(x)
      BY <2>4 DEF Begun
    <3> QED
      BY <1>6, <1>11, <2>1, <2>2, <2>3, <2>4, <3>1, <3>2 DEF WaitsOrWent
  <2>5. CASE ~Dead /\ wire' = wire \o ByteSeq(m)
    <3>1. \A x \in Messages : x[1] = m[1] /\ x[2] < m[2] => OnWire(x)
      BY <1>8, <1>9, <1>12, <2>1, <2>5
    <3>2. ~Begun(m)
      BY <1>4, <1>7, <2>1
    <3>3. /\ WireInOrder' /\ OnWire(m)' /\ \A x : OnWire(x) => OnWire(x)'
          /\ \A x : Begun(x)' => x = m \/ Begun(x)
      BY <1>2, <1>4, <2>1, <2>5, <3>1, <3>2, MessageWritten
    <3>4. \A x \in Sent' : Waits(x)' \/ OnWire(x)'
      BY <1>6, <1>11, <2>1, <2>3, <2>5, <3>3
    <3>5. \A x \in Messages : Begun(x)' => x \in Sent' /\ ~Waits(x)'
      BY <1>6, <1>9, <1>11, <1>12, <2>1, <3>3
    <3> QED
      BY <3>3, <3>4, <3>5 DEF SentInOrder, WaitsOrWent
  <2> QED
    BY <1>5, <1>14, <2>4, <2>5
<1>15. ASSUME partial' \/ revived PROVE SentInOrder' /\ WaitsOrWent'
  BY <1>1, <1>15 DEF SentInOrder, WaitsOrWent
<1> QED
  BY <1>13, <1>14, <1>15 DEF OrderInv

\* Steps of the loop thread's channel, of the peer, and those of a user but send.
LEMMA OtherStepsOrder ==
    ASSUME IInv, OrderInv,
           \/ \E u \in Users : ShutDownChecks(u) \/ ShutDownStores(u) \/ Drop(u)
           \/ \E w \in BOOLEAN : Poll(w)
           \/ LoopShutDown \/ HandleHup \/ HandleReadEof \/ HandleReadOther \/ HandleStale \/ Peer
           \/ UNCHANGED vars
    PROVE  OrderInv'
<1> USE DEF object, channel, output, remote, history
<1>1. partial \in BOOLEAN /\ revived \in BOOLEAN /\ finSent \in BOOLEAN
      /\ upc \in [Users -> {"out", "send", "store", "queue"}]
  BY DEF IInv, TypeOK
<1>2. ASSUME NEW u \in Users, ShutDownChecks(u) PROVE OrderInv'
  <2>1. UNCHANGED <<functors, sends, wire, partial, revived, m_state, finSent, peer>>
        /\ \A v \in Users : upc'[v] = "send" <=> upc[v] = "send"
    BY <1>1, <1>2 DEF ShutDownChecks, Stays
  <2> QED
    BY <1>1, <2>1, QuietStep DEF Dead, SocketOpen
<1>3. ASSUME NEW u \in Users, ShutDownStores(u) PROVE OrderInv'
  <2>1. /\ UNCHANGED <<functors, sends, wire, partial, finSent, peer>>
        /\ revived' = (revived \/ m_state = "kDisconnected")
        /\ \A v \in Users : upc'[v] = "send" <=> upc[v] = "send"
    BY <1>1, <1>3 DEF ShutDownStores
  <2>2. revived' \in BOOLEAN /\ (revived => revived')
    BY <1>1, <2>1
  <2>3. Dead /\ ~revived' => Dead'
    BY <2>1 DEF Dead, SocketOpen
  <2> QED
    BY <1>1, <2>1, <2>2, <2>3, QuietStep
<1>4. ASSUME NEW u \in Users, Drop(u) PROVE OrderInv'
  <2>1. UNCHANGED <<functors, sends, upc, wire, partial, revived, m_state, finSent, peer>>
    BY <1>4 DEF Drop
  <2> QED
    BY <1>1, <2>1, QuietStep DEF Dead, SocketOpen
<1>5. ASSUME NEW w \in BOOLEAN, Poll(w) PROVE OrderInv'
  <2>1. UNCHANGED <<functors, sends, upc, wire, partial, revived, m_state, finSent, peer>>
    BY <1>5 DEF Poll
  <2> QED
    BY <1>1, <2>1, QuietStep DEF Dead, SocketOpen
<1>6. CASE LoopShutDown
  <2>1. /\ UNCHANGED <<functors, sends, upc, wire, partial, revived, peer>>
        /\ (finSent => finSent') /\ m_state = "kConnected"
    BY <1>6 DEF LoopShutDown, shutDownInLoop
  <2>2. Dead => Dead'
    BY <2>1 DEF Dead, SocketOpen
  <2> QED
    BY <1>1, <2>1, <2>2, QuietStep
<1>7. CASE HandleHup \/ HandleReadEof
  <2>1. /\ UNCHANGED <<functors, sends, upc, wire, partial, revived>>
        /\ m_state' = "kDisconnected"
    BY <1>7 DEF HandleHup, HandleReadEof, handleClose
  <2> QED
    BY <1>1, <2>1, QuietStep DEF Dead
<1>8. CASE HandleReadOther \/ Peer
  <2>1. /\ UNCHANGED <<functors, sends, upc, wire, partial, revived, m_state, finSent>>
        /\ peer' = peer \/ peer' \in {"rst", "eof"} \/ (peer = "open" /\ peer' = "fin")
    BY <1>8 DEF HandleReadOther, Peer
  <2>2. Dead => Dead'
    BY <2>1 DEF Dead, SocketOpen
  <2> QED
    BY <1>1, <2>1, <2>2, QuietStep
<1>9. CASE HandleStale \/ UNCHANGED vars
  <2>1. UNCHANGED <<functors, sends, upc, wire, partial, revived, m_state, finSent, peer>>
    BY <1>9 DEF HandleStale, vars
  <2> QED
    BY <1>1, <2>1, QuietStep DEF Dead, SocketOpen
<1> QED
  BY <1>2, <1>3, <1>4, <1>5, <1>6, <1>7, <1>8, <1>9

\* EPOLLOUT comes after a partial write only.
LEMMA HandleWriteOrder == ASSUME IInv, OrderInv, HandleWrite PROVE OrderInv'
<1>1. partial = TRUE /\ UNCHANGED <<functors, upc, sends, partial>>
  BY DEF IInv, TypeOK, StateAndChannel, HandleWrite, Dispatch, output
<1>2. QueuedInOrder'
  BY <1>1 DEF OrderInv, QueuedInOrder, IsSend
<1> QED
  BY <1>1, <1>2 DEF OrderInv, SentInOrder, WaitsOrWent

LEMMA NextOrder == IInv /\ OrderInv /\ [Next]_vars => OrderInv'
<1> SUFFICES ASSUME IInv, OrderInv, [Next]_vars PROVE OrderInv'
  OBVIOUS
<1>1. ASSUME NEW u \in Users, UserStep(u) PROVE OrderInv'
  BY <1>1, SendChecksOrder, SendQueuesOrder, ShutDownQueuesOrder, OtherStepsOrder
     DEF UserStep, UserInCall
<1>2. CASE (\E w \in BOOLEAN : Poll(w)) \/ LoopShutDown \/ Peer \/ UNCHANGED vars
  BY <1>2, OtherStepsOrder
<1>3. CASE RunFunctor
  BY <1>3, RunFunctorOrder
<1>4. CASE LoopSend
  BY <1>4, LoopSendOrder
<1>5. CASE EventStep
  BY <1>5, HandleWriteOrder, OtherStepsOrder DEF EventStep
<1> QED
  BY <1>1, <1>2, <1>3, <1>4, <1>5 DEF Next

-----------------------------------------------------------------------------
(* What the invariants say of the connection. *)

\* Every variable keeps its type, and the connection is kConnecting as long as its
\* connectEstablished waits (TcpConnection.cpp).
THEOREM ConnectionTypeCorrect == Spec => []TypeOK
<1>1. IInv => TypeOK
  BY DEF IInv
<1> QED
  BY <1>1, Invariant, PTL

\* The asserts of ~TcpConnection and of the erase in removeConnection hold unless a
\* shutDown stored kDisConnecting over what handleClose had stored.
THEOREM ClosedOnceUnlessRevived == Spec => []ClosedOnce
<1>1. IInv => ClosedOnce
  BY DEF IInv
<1> QED
  BY <1>1, Invariant, PTL

\* A raw pointer outlives the connection in a functor only after a user let go of it with
\* calls pending, and in handleEvent only after a partial write.
THEOREM StalePointersNeedHaste == Spec => []StaleNeedsHaste
<1>1. IInv => StaleNeedsHaste
  BY DEF IInv
<1> QED
  BY <1>1, Invariant, PTL

\* The FIN of a user that alone shuts down is behind the last byte of all it sent: the
\* functors of send and shutDown run in the order of the calls.
THEOREM FinComesLast == Spec => []FinAfterOwnSends
<1>1. IInv => FinAfterOwnSends
  <2> SUFFICES ASSUME IInv, NEW u \in Users, Running, finSent, shutBy = {u}, peer = "open",
                      ~partial, NEW k \in 1..sends[u]
               PROVE  \E i \in DOMAIN wire : wire[i] = <<<<u, k>>, MsgLen>>
    BY DEF FinAfterOwnSends
  <2>1. upc[u] # "send"
    BY DEF IInv, Shutting
  <2>2. ASSUME NEW i \in DOMAIN functors, IsSend(i), functors[i].msg = <<u, k>> PROVE FALSE
    <3>1. functors[i].msg[1] = u
      BY <2>2
    <3> QED
      BY <2>2, <3>1 DEF IInv, Shutting
  <2> QED
    BY <2>1, <2>2 DEF IInv, Delivered
<1> QED
  BY <1>1, Invariant, PTL


\* The bytes of a caller are on the wire whole, in the order of its calls of send, none
\* left out, unless a write was partial or a shutDown undid a close.
THEOREM MessagesInOrder == Spec => []SentInOrder
<1>1. OrderInv => SentInOrder
  BY DEF OrderInv
<1> QED
  BY <1>1, InitIInv, InitOrder, NextIInv, NextOrder, PTL DEF Spec

=============================================================================
