---------------------------- MODULE SyscallServer ----------------------------
(***************************************************************************)
(* The system call server (system/syscall_server.cc): futexes, timed waits *)
(* and sleeping threads.  A timeout is kept as the number of barrier       *)
(* quanta that are still to pass before HOOK_PERIODIC finds it expired.    *)
(* The bit mask of a waiter is left out: handleFutexCall() matches every   *)
(* wake-up against FUTEX_BITSET_MATCH_ANY.                                 *)
(***************************************************************************)
EXTENDS ThreadManager, Sequences

CONSTANTS
  Futexes,      \* the addresses used as futexes
  Values,       \* what the word at such an address may hold
  MaxDelay,     \* bound: the longest timeout, in barrier quanta
  TidFutex,     \* the address CLONE_CHILD_CLEARTID names
  ClearsTid     \* the threads that were created with CLONE_CHILD_CLEARTID

ASSUME FutexAssumption == /\ MaxDelay \in Nat /\ 0 \in Values
                          /\ TidFutex \in Futexes /\ ClearsTid \subseteq Threads

VARIABLES
  word,         \* the application's memory at the futexes
  futexWaiting, \* SimFutex::m_waiting
  sleeping      \* m_sleeping

futexVars == <<word, futexWaiting, sleeping>>

Never  == MaxDelay + 1                   \* SubsecondTime::MaxTime()
Waiter == [thread : Threads, left : 0..Never]

FutexInit == /\ word = [a \in Futexes |-> 0]
             /\ futexWaiting = [a \in Futexes |-> <<>>]
             /\ sleeping = <<>>

ThreadsOf(queue) == {queue[i].thread : i \in DOMAIN queue}
-----------------------------------------------------------------------------
handleSleepCall(t) ==
  /\ Calls(t)
  /\ \E d \in 0..MaxDelay : sleeping' = Append(sleeping, [thread |-> t, left |-> d])
  /\ Stall(t, "sleep", {})
  /\ UNCHANGED <<waiter, word, futexWaiting>>

\* The comparison with the expected value and the queueing are under one lock.
futexWait(t, a, val) ==
  /\ Calls(t)
  /\ \/ word[a] # val /\ UNCHANGED <<threadVars, futexWaiting>>
     \/ /\ word[a] = val
        /\ \E d \in 0..Never :
             futexWaiting' = [futexWaiting EXCEPT ![a] = Append(@, [thread |-> t, left |-> d])]
        /\ Stall(t, "futex", {})
        /\ UNCHANGED waiter
  /\ UNCHANGED <<word, sleeping>>

\* wakeFutexOne() up to n times: the waiters that are woken and those that stay.
Woken(queue, n) == SubSeq(queue, 1, IF n < Len(queue) THEN n ELSE Len(queue))
Staying(queue, n) == SubSeq(queue, n + 1, Len(queue))

futexWake(t, a, n) ==
  /\ Calls(t)
  /\ futexWaiting' = [futexWaiting EXCEPT ![a] = Staying(@, n)]
  /\ Resume(ThreadsOf(Woken(futexWaiting[a], n)))
  /\ UNCHANGED <<word, sleeping>>

\* futexDoOp() stores some value at the second address; whether the old one
\* meets the condition in the call decides if its waiters are woken as well.
futexWakeOp(t, a, b, n, n2) ==
  /\ Calls(t)
  /\ \E v \in Values : word' = [word EXCEPT ![b] = v]
  /\ \E met \in BOOLEAN :
       LET first == [futexWaiting EXCEPT ![a] = Staying(@, n)]
           k     == IF met THEN n2 ELSE 0
       IN /\ futexWaiting' = [first EXCEPT ![b] = Staying(@, k)]
          /\ Resume(ThreadsOf(Woken(futexWaiting[a], n)) \union ThreadsOf(Woken(first[b], k)))
  /\ UNCHANGED sleeping

\* The waiters that are not woken move to the other futex, all of them, with
\* their timeouts; their threads stay stalled.
MutRequeued(a, b, n) == [futexWaiting EXCEPT ![a] = <<>>]
Requeued(a, b, n) ==
  [futexWaiting EXCEPT ![a] = <<>>, ![b] = @ \o Staying(futexWaiting[a], n)]

futexCmpRequeue(t, a, b, n, val) ==
  /\ Calls(t) /\ a # b
  /\ \/ word[a] # val /\ UNCHANGED <<threadVars, futexWaiting>>
     \/ /\ word[a] = val
        /\ futexWaiting' = Requeued(a, b, n)
        /\ Resume(ThreadsOf(Woken(futexWaiting[a], n)))
  /\ UNCHANGED <<word, sleeping>>

\* The application stores to a futex without a system call.
Store(t, a, v) == /\ host[t] = "app" /\ word[a] # v
                  /\ word' = [word EXCEPT ![a] = v]
                  /\ UNCHANGED <<threadVars, futexWaiting, sleeping>>

\* The part of onThreadExit() that belongs to CLONE_CHILD_CLEARTID.
TidWoken(t) == IF t \in ClearsTid THEN ThreadsOf(Woken(futexWaiting[TidFutex], 1)) ELSE {}
ClearTid(t) ==
  /\ IF t \in ClearsTid
     THEN /\ word' = [word EXCEPT ![TidFutex] = 0]
          /\ futexWaiting' = [futexWaiting EXCEPT ![TidFutex] = Staying(@, 1)]
     ELSE UNCHANGED <<word, futexWaiting>>
  /\ UNCHANGED sleeping
-----------------------------------------------------------------------------
(***************************************************************************)
(* HOOK_PERIODIC.                                                          *)
(***************************************************************************)
\* The first waiter of a list whose time has come, if any: one per list and call.
MutExpired(queue) == {i \in DOMAIN queue : i = 1 /\ queue[i].left = 0}
Expired(queue) == {i \in DOMAIN queue : queue[i].left = 0}
FirstExpired(queue) == {i \in Expired(queue) : \A j \in Expired(queue) : i <= j}

\* A quantum passes for those that stay.
OneLater(w) == [w EXCEPT !.left = IF @ \in {0, Never} THEN @ ELSE @ - 1]
Later(queue) ==
  LET gone == FirstExpired(queue)
      At(i) == IF \E j \in gone : j <= i THEN i + 1 ELSE i
  IN [i \in 1..(Len(queue) - Cardinality(gone)) |-> OneLater(queue[At(i)])]

TimedOut(queue) == {queue[i].thread : i \in FirstExpired(queue)}

futexPeriodic ==
  /\ sleeping' = Later(sleeping)
  /\ futexWaiting' = [a \in Futexes |-> Later(futexWaiting[a])]
  /\ Resume(TimedOut(sleeping) \union UNION {TimedOut(futexWaiting[a]) : a \in Futexes})
  /\ UNCHANGED word

\* getNextTimeout() is used only to find out whether anybody has a timeout.
Timed(queue) == {i \in DOMAIN queue : queue[i].left # Never}
AnyTimeout == \/ Timed(sleeping) # {}
              \/ \E a \in Futexes : Timed(futexWaiting[a]) # {}

FutexCall(t) ==
  \/ handleSleepCall(t)
  \/ \E a \in Futexes, v \in Values : futexWait(t, a, v) \/ Store(t, a, v)
  \/ \E a \in Futexes, n \in 1..2 : futexWake(t, a, n)
  \/ \E a, b \in Futexes : futexWakeOp(t, a, b, 1, 1)
  \/ \E a, b \in Futexes, v \in Values : futexCmpRequeue(t, a, b, 1, v)
-----------------------------------------------------------------------------
FutexTypeOK == /\ word \in [Futexes -> Values]
               /\ futexWaiting \in [Futexes -> Seq(Waiter)]
               /\ sleeping \in Seq(Waiter)
=============================================================================
