-------------------------- MODULE AsynchronousStart --------------------------
(***************************************************************************)
(* The static start/stop state shared by the message sources               *)
(* (lib/asynchronous_start): a mutex, a condition variable and one state   *)
(* for the whole process.  Every source calls start() and stop() from its   *)
(* own thread; any thread may call wait_for_start() and is_stopped().       *)
(*                                                                         *)
(* The mutex and the condition variable are those of boost: notify_all     *)
(* wakes the threads that wait at that moment, a wait may also end without *)
(* a notification, and a woken thread takes the mutex before it goes on.    *)
(***************************************************************************)
EXTENDS Integers, FiniteSets

CONSTANTS
  Starters,        \* threads of the blocks that call start() and stop()
  Waiters,         \* threads that call wait_for_start() and is_stopped()
  None,            \* no thread
  MaxStarts,       \* bound: calls of start() by each source
  MaxCalls         \* bound: calls by each waiter

ASSUME StartAssumption ==
  /\ Starters \intersect Waiters = {}
  /\ None \notin Starters \union Waiters
  /\ MaxStarts \in Nat /\ MaxCalls \in Nat

VARIABLES
  d_astart_state,  \* d_state: CONSTRUCTING, RUNNING or STOPPED
  d_mutex,         \* the thread that holds the mutex
  pc,              \* where each thread is
  starts,          \* calls of start() each source has made
  calls            \* calls each waiter has made

startVars == <<d_astart_state, d_mutex, pc, starts, calls>>

StartThreads == Starters \union Waiters
States       == {"CONSTRUCTING", "RUNNING", "STOPPED"}
SourcePcs    == {"down", "setting", "unlocking", "notifying", "up", "clearing"}
WaiterPcs    == {"outside", "entered", "testing", "waiting", "woken", "polling"}

\* A thread gets the free mutex and moves on
Acquire(t, from, to) ==
  /\ pc[t] = from /\ d_mutex = None
  /\ d_mutex' = t
  /\ pc' = [pc EXCEPT ![t] = to]

\* A thread gives the mutex back and moves on
Release(t, from, to) ==
  /\ pc[t] = from /\ d_mutex = t
  /\ d_mutex' = None
  /\ pc' = [pc EXCEPT ![t] = to]

-----------------------------------------------------------------------------
(* start(): the state is set under the mutex, the notification follows *)

StartLock(s) ==
  /\ starts[s] < MaxStarts
  /\ Acquire(s, "down", "setting")
  /\ starts' = [starts EXCEPT ![s] = @ + 1]
  /\ UNCHANGED <<d_astart_state, calls>>

StartSet(s) ==
  /\ pc[s] = "setting"
  /\ d_astart_state' = "RUNNING"
  /\ pc' = [pc EXCEPT ![s] = "unlocking"]
  /\ UNCHANGED <<d_mutex, starts, calls>>

\* Mutant of StartUnlock: start() returns without a notification
StartUnlock_Quiet(s) ==
  /\ Release(s, "unlocking", "up")
  /\ UNCHANGED <<d_astart_state, starts, calls>>

StartUnlock(s) ==
  /\ Release(s, "unlocking", "notifying")
  /\ UNCHANGED <<d_astart_state, starts, calls>>

\* Mutant of Woken: one thread instead of all
Woken_One == LET waiting == {w \in Waiters : pc[w] = "waiting"}
             IN IF waiting = {} THEN {} ELSE {CHOOSE w \in waiting : TRUE}

\* The threads notify_all wakes
Woken == {w \in Waiters : pc[w] = "waiting"}

StartNotify(s) ==
  /\ pc[s] = "notifying"
  /\ pc' = [t \in StartThreads |->
              IF t = s THEN "up" ELSE IF t \in Woken THEN "woken" ELSE pc[t]]
  /\ UNCHANGED <<d_astart_state, d_mutex, starts, calls>>

(* stop(): nobody is notified *)

StopLock(s) ==
  /\ Acquire(s, "up", "clearing")
  /\ UNCHANGED <<d_astart_state, starts, calls>>

StopSet(s) ==
  /\ Release(s, "clearing", "down")
  /\ d_astart_state' = "STOPPED"
  /\ UNCHANGED <<starts, calls>>

-----------------------------------------------------------------------------
(* wait_for_start() and is_stopped() *)

EnterWait(w) ==
  /\ calls[w] < MaxCalls
  /\ Acquire(w, "outside", "entered")
  /\ calls' = [calls EXCEPT ![w] = @ + 1]
  /\ UNCHANGED <<d_astart_state, starts>>

\* false, without waiting
ReturnStopped(w) ==
  /\ d_astart_state = "STOPPED"
  /\ Release(w, "entered", "outside")
  /\ UNCHANGED <<d_astart_state, starts, calls>>

EnterLoop(w) ==
  /\ pc[w] = "entered" /\ d_astart_state # "STOPPED"
  /\ pc' = [pc EXCEPT ![w] = "testing"]
  /\ UNCHANGED <<d_astart_state, d_mutex, starts, calls>>

\* true
ReturnRunning(w) ==
  /\ d_astart_state = "RUNNING"
  /\ Release(w, "testing", "outside")
  /\ UNCHANGED <<d_astart_state, starts, calls>>

(* d_cond.wait: the thread waits and gives the mutex back in one step.  In *)
(* the loop STOPPED is a reason to wait like CONSTRUCTING.                  *)
Wait(w) ==
  /\ d_astart_state # "RUNNING"
  /\ Release(w, "testing", "waiting")
  /\ UNCHANGED <<d_astart_state, starts, calls>>

Spurious(w) ==
  /\ pc[w] = "waiting"
  /\ pc' = [pc EXCEPT ![w] = "woken"]
  /\ UNCHANGED <<d_astart_state, d_mutex, starts, calls>>

Reacquire(w) ==
  /\ Acquire(w, "woken", "testing")
  /\ UNCHANGED <<d_astart_state, starts, calls>>

PollLock(w) ==
  /\ calls[w] < MaxCalls
  /\ Acquire(w, "outside", "polling")
  /\ calls' = [calls EXCEPT ![w] = @ + 1]
  /\ UNCHANGED <<d_astart_state, starts>>

PollReturn(w) ==
  /\ Release(w, "polling", "outside")
  /\ UNCHANGED <<d_astart_state, starts, calls>>

-----------------------------------------------------------------------------
StartInit ==
  /\ d_astart_state = "CONSTRUCTING"
  /\ d_mutex = None
  /\ pc = [t \in StartThreads |-> IF t \in Starters THEN "down" ELSE "outside"]
  /\ starts = [s \in Starters |-> 0]
  /\ calls = [w \in Waiters |-> 0]

\* One source: start(), then stop() when the flowgraph ends
StartStep(s) == StartLock(s) \/ StartSet(s) \/ StartUnlock(s) \/ StartNotify(s)
StopStep(s)  == StopLock(s) \/ StopSet(s)

\* One waiter that is inside a call
WaitStep(w) == \/ ReturnStopped(w) \/ EnterLoop(w) \/ ReturnRunning(w) \/ Wait(w)
               \/ Reacquire(w) \/ PollReturn(w)

StartNext ==
  \/ \E s \in Starters : StartStep(s) \/ StopStep(s)
  \/ \E w \in Waiters : EnterWait(w) \/ PollLock(w) \/ Spurious(w) \/ WaitStep(w)

(* A thread that has begun a call is scheduled until it leaves it; boost's *)
(* mutex gives no turn to anyone, so that a thread that asks for it again  *)
(* and again gets it in the end (strong fairness).  Nobody has to call     *)
(* start(), stop(), wait_for_start() or is_stopped(), and a wait need not  *)
(* end without a notification.                                             *)
StartFairness ==
  /\ \A s \in Starters :
       WF_startVars(StartSet(s) \/ StartUnlock(s) \/ StartNotify(s) \/ StopSet(s))
  /\ \A w \in Waiters : SF_startVars(WaitStep(w))

StartSpec     == StartInit /\ [][StartNext]_startVars
StartFairSpec == StartSpec /\ StartFairness

-----------------------------------------------------------------------------
(* Properties *)

\* The state, the owner of the mutex and every thread's place have their types
StartTypeOK ==
  /\ d_astart_state \in States
  /\ d_mutex \in StartThreads \union {None}
  /\ pc \in [StartThreads -> SourcePcs \union WaiterPcs]
  /\ \A s \in Starters : pc[s] \in SourcePcs
  /\ \A w \in Waiters : pc[w] \in WaiterPcs
  /\ starts \in [Starters -> 0 .. MaxStarts]
  /\ calls \in [Waiters -> 0 .. MaxCalls]

(* A thread that waits while the state is RUNNING is about to be notified:  *)
(* start() leaves the mutex before it notifies, and a waiter tests the      *)
(* state and goes to wait under one hold of the mutex, so that no start is  *)
(* missed in between (wait_for_start, start).                               *)
NoLostWakeup ==
  d_astart_state = "RUNNING" =>
    \/ \A w \in Waiters : pc[w] # "waiting"
    \/ \E s \in Starters : pc[s] \in {"unlocking", "notifying"}

(* Only the owner of the mutex is in the code that tests or sets the state: *)
(* the two halves of a test and wait, or of a test and return, see the same *)
(* state (the scoped locks of all four functions).                          *)
Locked(t) == pc[t] \in {"setting", "unlocking", "clearing", "entered", "testing", "polling"}

OneInside == \A t \in StartThreads : Locked(t) <=> d_mutex = t

(* A call of wait_for_start returns once the flowgraph has been started and *)
(* is not stopped again, however the starts and stops of several sources    *)
(* were interleaved with it before.  (A stop that overtakes the woken       *)
(* thread makes it wait for the next start: stop() notifies nobody.)        *)
WaitersReturn ==
  \A w \in Waiters :
    <>[](d_astart_state = "RUNNING") =>
      (pc[w] \in WaiterPcs \ {"outside"} ~> pc[w] = "outside")
=============================================================================
