---------------------------- MODULE ScopeRunner ----------------------------
(***************************************************************************)
(* ScopeRunner (utility.hpp): every asio handler of the websocket client   *)
(* begins with continue_lock() and returns at once when it is refused; the *)
(* client's destructor calls stop(), which waits for the handlers that     *)
(* hold a lock and refuses the later ones.  All of it is one atomic count, *)
(* changed by compare-and-exchange loops: an action is one atomic          *)
(* operation.  A compare_exchange_weak that fails spuriously leaves the    *)
(* state as it is and is retried, so it is a stuttering step.              *)
(***************************************************************************)
EXTENDS Integers, FiniteSets

CONSTANTS
    Threads,       \* the threads that run handlers
    Stoppers       \* the threads that call stop()

ASSUME ThreadsAssumption == IsFiniteSet(Threads)

VARIABLES
    count,         \* the number of locks, or -1
    handler,       \* thread -> outside, loaded or inside
    expected,      \* thread -> the count it has read in continue_lock()
    stopper        \* stopper -> running, stopping or stopped

vars == <<count, handler, expected, stopper>>

Init ==
    /\ count = 0
    /\ handler = [t \in Threads |-> "outside"]
    /\ expected = [t \in Threads |-> 0]
    /\ stopper = [s \in Stoppers |-> "running"]

----------------------------------------------------------------------------
(* continue_lock() *)

\* expected = count.
Load(t) ==
    /\ handler[t] = "outside"
    /\ handler' = [handler EXCEPT ![t] = "loaded"]
    /\ expected' = [expected EXCEPT ![t] = count]
    /\ UNCHANGED <<count, stopper>>

NotCompared(t) == TRUE           \* mutant: expected + 1 is stored unconditionally
Compared(t) == count = expected[t]

\* The exchange succeeds: the caller gets a SharedLock.
Lock(t) ==
    /\ handler[t] = "loaded"
    /\ expected[t] >= 0
    /\ Compared(t)
    /\ count' = expected[t] + 1
    /\ handler' = [handler EXCEPT ![t] = "inside"]
    /\ UNCHANGED <<expected, stopper>>

\* The exchange fails, and has stored the count in expected.
Retry(t) ==
    /\ handler[t] = "loaded"
    /\ expected[t] >= 0
    /\ ~Compared(t)
    /\ expected' = [expected EXCEPT ![t] = count]
    /\ UNCHANGED <<count, handler, stopper>>

\* nullptr: the handler returns.
Refused(t) ==
    /\ handler[t] = "loaded"
    /\ expected[t] < 0
    /\ handler' = [handler EXCEPT ![t] = "outside"]
    /\ UNCHANGED <<count, expected, stopper>>

NotReleased == count             \* mutant: the destructor does not count down
Released == count - 1

\* ~SharedLock(): the handler is done.
Unlock(t) ==
    /\ handler[t] = "inside"
    /\ count' = Released
    /\ handler' = [handler EXCEPT ![t] = "outside"]
    /\ UNCHANGED <<expected, stopper>>

----------------------------------------------------------------------------
(* stop() *)

Stop(s) ==
    /\ stopper[s] = "running"
    /\ stopper' = [stopper EXCEPT ![s] = "stopping"]
    /\ UNCHANGED <<count, handler, expected>>

AlwaysFree == count >= 0         \* mutant: stop() does not wait for the locks
Free == count = 0

\* The exchange of 0 with -1 succeeds.
Shut(s) ==
    /\ stopper[s] = "stopping"
    /\ Free
    /\ count' = -1
    /\ stopper' = [stopper EXCEPT ![s] = "stopped"]
    /\ UNCHANGED <<handler, expected>>

\* It fails because another call of stop() was first; with locks held it is
\* only tried again.
AlreadyShut(s) ==
    /\ stopper[s] = "stopping"
    /\ count < 0
    /\ stopper' = [stopper EXCEPT ![s] = "stopped"]
    /\ UNCHANGED <<count, handler, expected>>

----------------------------------------------------------------------------

Next ==
    \/ \E t \in Threads : Load(t) \/ Lock(t) \/ Retry(t) \/ Refused(t) \/ Unlock(t)
    \/ \E s \in Stoppers : Stop(s) \/ Shut(s) \/ AlreadyShut(s)

\* A thread inside continue_lock(), a handler or stop() goes on.
Fairness ==
    /\ \A t \in Threads : WF_vars(Lock(t) \/ Retry(t) \/ Refused(t) \/ Unlock(t))
    /\ \A s \in Stoppers : WF_vars(Shut(s) \/ AlreadyShut(s))

Spec == Init /\ [][Next]_vars

FairSpec == Spec /\ Fairness

----------------------------------------------------------------------------
(* Properties *)

Inside == {t \in Threads : handler[t] = "inside"}

\* Every variable keeps its type, and the count is a number of threads or -1.
TypeOK ==
    /\ count \in -1 .. Cardinality(Threads)
    /\ handler \in [Threads -> {"outside", "loaded", "inside"}]
    /\ expected \in [Threads -> Int]
    /\ stopper \in [Stoppers -> {"running", "stopping", "stopped"}]

\* continue_lock() and ~SharedLock() race on the count from many threads, and no
\* update is lost: it is the number of locks held, or -1 when there are none.
CountsLocks == count = Cardinality(Inside) \/ (count = -1 /\ Inside = {})

\* "The shared lock ensures that a potential destructor call is delayed until all
\* locks are released": once a stop() has returned no handler is inside, neither
\* one that was before it nor one that read the count before and got its lock
\* after it.
StopExcludes == (\E s \in Stoppers : stopper[s] = "stopped") => Inside = {}

\* stop() has no way to hold back new handlers while it waits; once the handlers
\* pause, it returns, and so does every other stop() that was waiting.
StopReturns ==
    \A s \in Stoppers :
        <>[](Inside = {}) => (stopper[s] = "stopping" ~> stopper[s] = "stopped")

----------------------------------------------------------------------------
(* The counter implements a gate. *)

G == INSTANCE Gate WITH inside <- Inside, shut <- count = -1

\* A lock granted is one the gate would grant, and the step that stores -1 is
\* the one at which the gate is shut.
ImplementsGate == G!Spec
=============================================================================
