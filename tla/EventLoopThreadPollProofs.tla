---------------------- MODULE EventLoopThreadPollProofs ----------------------
(* Proofs about EventLoopThreadPoll: for any number of threads and calls.     *)
EXTENDS EventLoopThreadPoll, SequenceTheorems, TLAPS

\* start() numbers the loops in the order in which they were started.
LEMMA StartKeepsIInv == ASSUME IInv, start PROVE IInv'
<1>1. /\ m_loops' \in Seq(1..MaxThreadNum)
      /\ Len(m_loops') = m_threadNum
      /\ \A i \in 1..m_threadNum : m_loops'[i] = i
  <2>1. m_threadNum \in Nat /\ m_threadNum <= MaxThreadNum
    BY MaxThreadNumAssumption DEF IInv, TypeOK
  <2>2. m_loops' = [i \in 1..m_threadNum |-> i]
    BY DEF start
  <2>3. \A i \in 1..m_threadNum : i \in 1..MaxThreadNum
    BY <2>1, MaxThreadNumAssumption
  <2> QED
    BY <2>1, <2>2, <2>3, IsASeq
<1>2. given = << >> /\ given' = << >> /\ m_next' = 0 /\ m_started'
  BY DEF start, IInv, NotStarted
<1>3. Len(given') = 0
  BY <1>2, EmptySeq
<1>4. TypeOK'
  BY <1>1, <1>2 DEF IInv, TypeOK, start, Size
<1> QED
  BY <1>1, <1>2, <1>3, <1>4 DEF IInv, TypeOK, LoopsNumbered, NotStarted, Alone, Pooled,
     LastTurn, Rotation, Distinct, Size

\* setThreadNum: a call after start() leaves the rotation alone.
LEMMA SetThreadNumKeepsIInv ==
    ASSUME IInv, NEW n \in 0..MaxThreadNum, setThreadNum(n) PROVE IInv'
BY DEF IInv, setThreadNum, TypeOK, LoopsNumbered, NotStarted, Alone, Pooled, LastTurn,
   Rotation, Distinct, Size, Period, Behind

\* The next loop of a pool without threads is the base loop, again.
LEMMA BaseKeepsIInv == ASSUME IInv, getNextLoop, Size = 0 PROVE IInv'
<1>1. /\ given' = Append(given, BaseLoop) /\ m_next' = m_next /\ m_next = 0
      /\ m_loops' = m_loops /\ Size' = 0 /\ Period = 1 /\ Period' = 1
      /\ given \in Seq(LoopIds) /\ BaseLoop \in LoopIds
      /\ m_started' = m_started /\ m_started /\ m_threadNum' = m_threadNum
  BY MaxThreadNumAssumption
     DEF getNextLoop, IInv, TypeOK, Alone, Size, Period, BaseLoop, LoopIds
<1>2. /\ given' \in Seq(LoopIds) /\ Len(given) \in Nat /\ Len(given') = Len(given) + 1
      /\ \A i \in 1..Len(given) : given'[i] = given[i]
      /\ given'[Len(given) + 1] = BaseLoop
  BY <1>1, AppendProperties, LenProperties
<1>3. \A i \in 1..Len(given') : given'[i] = BaseLoop
  BY <1>1, <1>2 DEF IInv, Alone
<1>4. Rotation' /\ Distinct'
  BY <1>1, <1>2, <1>3 DEF Rotation, Distinct
<1> QED
  BY <1>1, <1>2, <1>3, <1>4 DEF IInv, TypeOK, LoopsNumbered, NotStarted, Alone, Pooled,
     LastTurn, Size

\* The next loop of a pool with threads is the one that a whole turn ago was
\* chosen last, and no other of the turn.
LEMMA PoolKeepsIInv == ASSUME IInv, getNextLoop, Size > 0 PROVE IInv'
<1> DEFINE L == Len(given)
<1>0. /\ Size \in Nat /\ Size > 0 /\ L \in Nat
      /\ m_next \in Nat /\ m_next < Size
  BY LenProperties DEF IInv, TypeOK, Size
<1>1. /\ Size \in Nat /\ Size > 0 /\ L \in Nat
      /\ m_next \in Nat /\ m_next < Size
      /\ m_loops' = m_loops /\ Size' = Size /\ Period = Size /\ Period' = Size
      /\ given \in Seq(LoopIds)
      /\ m_started' = m_started /\ m_started /\ m_threadNum' = m_threadNum
  <2>1. m_loops' = m_loops /\ m_started' = m_started /\ m_started /\ m_threadNum' = m_threadNum
    BY DEF getNextLoop
  <2>2. Size' = Size
    BY <2>1 DEF Size
  <2>3. Period = Size /\ Period' = Size
    BY <1>0, <2>2 DEF Period
  <2> QED
    BY <1>0, <2>1, <2>2, <2>3 DEF IInv, TypeOK
<1>2. /\ Chosen = m_next + 1 /\ Chosen \in 1..Size /\ Chosen \in LoopIds
      /\ given' = Append(given, m_next + 1)
      /\ m_next' = Advance(m_next)
  <2>1. Chosen = m_next + 1
    BY <1>1 DEF Chosen, IInv, LoopsNumbered
  <2>2. Chosen \in 1..MaxThreadNum
    <3>1. m_loops \in Seq(1..MaxThreadNum) /\ m_next + 1 \in 1..Len(m_loops)
      BY <1>1 DEF IInv, TypeOK, Size
    <3> QED
      BY <3>1, ElementOfSeq DEF Chosen
  <2> QED
    BY <1>1, <2>1, <2>2, MaxThreadNumAssumption DEF getNextLoop, LoopIds
<1>3. /\ given' \in Seq(LoopIds) /\ Len(given') = L + 1
      /\ \A i \in 1..L : given'[i] = given[i]
      /\ given'[L + 1] = m_next + 1
  BY <1>1, <1>2, AppendProperties, LenProperties
<1>4. /\ m_next' \in 0..(Size - 1)
      /\ \/ m_next' = 0 /\ m_next = Size - 1
         \/ m_next' = m_next + 1
  BY <1>1, <1>2 DEF Advance
<1>5. LastTurn'
  <2> SUFFICES ASSUME NEW i \in 1..(L + 1), L + 1 - i < Size
               PROVE  given'[i] = IF m_next' - 1 - (L + 1 - i) >= 0
                                  THEN m_next' - (L + 1 - i)
                                  ELSE m_next' - (L + 1 - i) + Size
    BY <1>1, <1>3 DEF LastTurn, Behind
  <2>1. CASE i = L + 1
    BY <2>1, <1>1, <1>3, <1>4
  <2>2. CASE i \in 1..L
    <3>1. given[i] = IF m_next - 1 - (L - i) >= 0 THEN m_next - (L - i)
                     ELSE m_next - (L - i) + Size
      BY <2>2, <1>1 DEF IInv, LastTurn, Behind
    <3> QED
      BY <3>1, <2>2, <1>1, <1>3, <1>4
  <2> QED
    BY <2>1, <2>2, <1>1
<1>6. Rotation'
  <2> SUFFICES ASSUME NEW i \in 1..(L + 1), i + Size <= L + 1
               PROVE  given'[i + Size] = given'[i]
    BY <1>1, <1>3 DEF Rotation
  <2>1. CASE i + Size = L + 1
    <3>1. i \in 1..L /\ L - i = Size - 1
      BY <2>1, <1>1
    <3>2. given[i] = IF m_next - 1 - (L - i) >= 0 THEN m_next - (L - i)
                     ELSE m_next - (L - i) + Size
      BY <3>1, <1>1 DEF IInv, LastTurn, Behind
    <3> QED
      BY <3>1, <3>2, <2>1, <1>1, <1>3
  <2>2. CASE i + Size <= L
    <3>1. i \in 1..L /\ i + Size \in 1..L
      BY <2>2, <1>1
    <3> QED
      BY <3>1, <2>2, <1>1, <1>3 DEF IInv, Rotation
  <2> QED
    BY <2>1, <2>2, <1>1
<1>7. Distinct'
  <2> SUFFICES ASSUME NEW i \in 1..(L + 1), NEW j \in 1..(L + 1), i < j, j - i < Size
               PROVE  given'[i] # given'[j]
    BY <1>1, <1>3 DEF Distinct
  <2>1. i \in 1..L
    BY <1>1
  <2>2. CASE j = L + 1
    <3>1. L - i < Size - 1
      BY <2>2, <1>1
    <3>2. given[i] = IF m_next - 1 - (L - i) >= 0 THEN m_next - (L - i)
                     ELSE m_next - (L - i) + Size
      BY <3>1, <2>1, <1>1 DEF IInv, LastTurn, Behind
    <3> QED
      BY <3>1, <3>2, <2>1, <2>2, <1>1, <1>3
  <2>3. CASE j \in 1..L
    BY <2>1, <2>3, <1>1, <1>3 DEF IInv, Distinct
  <2> QED
    BY <2>2, <2>3, <1>1
<1>8. TypeOK'
  BY <1>1, <1>3, <1>4 DEF IInv, TypeOK, Size
<1>9. LoopsNumbered' /\ NotStarted' /\ Alone'
  BY <1>1 DEF IInv, LoopsNumbered, NotStarted, Alone, Size
<1>10. Pooled'
  <2>1. m_next + 1 \in 1..Size
    BY <1>1
  <2>2. \A i \in 1..L : given[i] \in 1..Size
    BY <1>1 DEF IInv, Pooled
  <2> QED
    BY <2>1, <2>2, <1>1, <1>3 DEF Pooled
<1> QED
  BY <1>5, <1>6, <1>7, <1>8, <1>9, <1>10 DEF IInv

LEMMA InitIInv == Init => IInv
<1> SUFFICES ASSUME Init PROVE IInv
  OBVIOUS
<1>1. Len(m_loops) = 0 /\ Len(given) = 0 /\ Size = 0 /\ m_next = 0
  BY EmptySeq DEF Init, Size
<1>2. TypeOK
  <2>1. << >> \in Seq(1..MaxThreadNum) /\ << >> \in Seq(LoopIds)
    BY EmptySeq
  <2>2. 0 \in 0..MaxThreadNum
    BY MaxThreadNumAssumption
  <2>3. m_started \in BOOLEAN
    BY DEF Init
  <2>4. m_loops = << >> /\ given = << >> /\ m_threadNum = 0
    BY DEF Init
  <2> QED
    BY <1>1, <2>1, <2>2, <2>3, <2>4 DEF TypeOK
<1> QED
  BY <1>1, <1>2 DEF Init, IInv, LoopsNumbered, NotStarted, Alone, Pooled, LastTurn,
     Rotation, Distinct

LEMMA NextIInv == IInv /\ [Next]_vars => IInv'
<1> SUFFICES ASSUME IInv, [Next]_vars PROVE IInv'
  OBVIOUS
<1>1. CASE UNCHANGED vars
  BY <1>1 DEF vars, IInv, TypeOK, LoopsNumbered, NotStarted, Alone, Pooled, LastTurn,
     Rotation, Distinct, Size, Period, Behind
<1>2. CASE getNextLoop
  <2>1. Size = 0 \/ Size > 0
    BY LenProperties DEF IInv, TypeOK, Size
  <2> QED
    BY <1>2, <2>1, BaseKeepsIInv, PoolKeepsIInv
<1> QED
  BY <1>1, <1>2, StartKeepsIInv, SetThreadNumKeepsIInv DEF Next

LEMMA Invariant == Spec => []IInv
BY InitIInv, NextIInv, PTL DEF Spec

\* The index into m_loops stays inside the vector, for any number of threads.
THEOREM IndexInRange == Spec => []TypeOK
BY Invariant, PTL DEF IInv

\* What EventThreadPoll_test.cpp asserts for 1 and 3 threads, for any number of
\* threads and calls: after one whole turn the same loop comes again, and before
\* that another one every time.
THEOREM DealsInTurn == Spec => []RoundRobin
BY Invariant, PTL DEF IInv, RoundRobin

=============================================================================
