------------------------- MODULE EventLoopThreadPoll -------------------------
(***************************************************************************)
(* The pool of loops (EventLoopThreadPoll.cpp, .h) that TcpServer deals its *)
(* connections to.  All calls are made by the thread of the base loop, the  *)
(* one that asserts ask for.  A loop is named by its place in m_loops,     *)
(* counted from 1; 0 is the base loop.  What startLoop() does is in        *)
(* EventLoopThread: it returns the pointer to a new loop.                  *)
(***************************************************************************)
EXTENDS Integers, Sequences

CONSTANTS MaxThreadNum,     \* bounds the arguments of setThreadNum
          MaxCalls          \* bounds the calls of getNextLoop

ASSUME MaxThreadNumAssumption == MaxThreadNum \in Nat
ASSUME MaxCallsAssumption == MaxCalls \in Nat

BaseLoop == 0
LoopIds  == 0..MaxThreadNum

VARIABLES m_started,
          m_threadNum,
          m_loops,
          m_next,
          given         \* history: what getNextLoop returned so far

vars == <<m_started, m_threadNum, m_loops, m_next, given>>

Size == Len(m_loops)

TypeOK == /\ m_started \in BOOLEAN
          /\ m_threadNum \in 0..MaxThreadNum
          /\ m_loops \in Seq(1..MaxThreadNum)
          /\ m_next \in Nat
          /\ Size > 0 => m_next < Size
          /\ given \in Seq(LoopIds)

Init == /\ m_started = FALSE
        /\ m_threadNum = 0
        /\ m_loops = << >>
        /\ m_next = 0
        /\ given = << >>

\* A call after start() is kept, and has no effect on the loops.
setThreadNum(n) ==
    /\ m_threadNum' = n
    /\ UNCHANGED <<m_started, m_loops, m_next, given>>

\* assert(!m_started); then one thread after the other is started, and its
\* loop is known before the next one is created.
start ==
    /\ ~m_started
    /\ m_started' = TRUE
    /\ m_loops' = [i \in 1..m_threadNum |-> i]
    /\ UNCHANGED <<m_threadNum, m_next, given>>

Advance_OffByOne(n) == IF n + 1 > Size THEN 0 ELSE n + 1
Advance_Sticks(n) == IF n + 1 >= Size THEN n ELSE n + 1

\* m_next after the post-increment and the wrap.
Advance(n) == IF n + 1 >= Size THEN 0 ELSE n + 1

\* m_loops[m_next++] read before the wrap; the index there starts at 0.
Chosen == m_loops[m_next + 1]

\* assert(m_started); the base loop if there is no other.
getNextLoop ==
    /\ m_started
    /\ Len(given) < MaxCalls
    /\ IF Size = 0
         THEN /\ given' = Append(given, BaseLoop)
              /\ UNCHANGED m_next
         ELSE /\ given' = Append(given, Chosen)
              /\ m_next' = Advance(m_next)
    /\ UNCHANGED <<m_started, m_threadNum, m_loops>>

Next == \/ \E n \in 0..MaxThreadNum : setThreadNum(n)
        \/ start
        \/ getNextLoop

Spec == Init /\ [][Next]_vars

-----------------------------------------------------------------------------
(* Properties: what EventThreadPoll_test.cpp asserts for 0, 1 and 3 threads   *)
(* and four calls, for any number of threads and calls.                       *)

\* The period of the rotation; the base loop alone is one of length 1.
Period == IF Size = 0 THEN 1 ELSE Size

\* After a whole turn the same loop comes again.
Rotation == \A i \in 1..Len(given) : i + Period <= Len(given) => given[i + Period] = given[i]

\* Within a turn no loop comes twice, so no loop is ever ahead of another by
\* more than one connection, whatever setThreadNum is called with after start().
Distinct == \A i, j \in 1..Len(given) : i < j /\ j - i < Period => given[i] # given[j]

\* getNextLoop deals the loops in turn: both of the above.
RoundRobin == Rotation /\ Distinct

-----------------------------------------------------------------------------
(* The invariant behind them: the last turn read backwards from m_next. *)

\* The loop that was chosen d calls before the last one.
Behind(d) == IF m_next - 1 - d >= 0 THEN m_next - d ELSE m_next - d + Size

LastTurn == Size > 0 => \A i \in 1..Len(given) :
                           Len(given) - i < Size => given[i] = Behind(Len(given) - i)

LoopsNumbered == \A i \in 1..Size : m_loops[i] = i
NotStarted == ~m_started => Size = 0 /\ m_next = 0 /\ given = << >>
Alone == Size = 0 => m_next = 0 /\ \A i \in 1..Len(given) : given[i] = BaseLoop
Pooled == Size > 0 => \A i \in 1..Len(given) : given[i] \in 1..Size

IInv == TypeOK /\ LoopsNumbered /\ NotStarted /\ Alone /\ Pooled /\ LastTurn
        /\ Rotation /\ Distinct

=============================================================================
