----------------------------- MODULE ThreadPool -----------------------------
(***************************************************************************)
(* CThreadPool (shared/Threading/ThreadPool.cpp): the threads that run     *)
(* every long task of the servers.  A thread that has no task sleeps on    *)
(* its semaphore in m_freeThreads; ExecuteTask wakes one or starts a new   *)
(* one; IntegrityCheck keeps a reserve; Shutdown ends them all.  All of    *)
(* the pool's operations hold _mutex, so each is one step; what a thread   *)
(* does between them is not protected.                                     *)
(***************************************************************************)
EXTENDS Integers, FiniteSets

CONSTANTS Tid,         \* bound: the Thread objects there can be
          Task,        \* bound: the tasks that are given to the pool
          NoTask,
          Reserve,     \* THREAD_RESERVE
          MaxChecks,   \* bound: calls of IntegrityCheck
          Shutdowns    \* bound: whether Shutdown is called

ASSUME ReserveAssumption == /\ Reserve \in Nat /\ MaxChecks \in Nat
                            /\ Reserve <= Cardinality(Tid)
                            /\ Shutdowns \in BOOLEAN
                            /\ NoTask \notin Tid \cup Task

VARIABLES pc,          \* where each thread is in thread_proc
          target,      \* ExecutionTarget
          running,     \* the task whose run() a thread is in
          sem,         \* the thread's semaphore
          dae,         \* DeleteAfterExit
          free,        \* m_freeThreads
          active,      \* m_activeThreads
          toExit,      \* _threadsToExit
          eaten,       \* _threadsEaten
          task,        \* what has become of each task
          checks,      \* how often IntegrityCheck has run
          phase        \* of Shutdown: "no", "loop", "done"

threads == <<pc, target, running, sem, dae>>
pool == <<free, active, toExit, eaten>>
poolVars == <<threads, pool, task, checks, phase>>

Fresh == {t \in Tid : pc[t] = "none"}

\* StartThread for every thread of a set; each heads straight for its target.
StartThreads(new, k) ==
    /\ pc' = [t \in Tid |-> IF t \in new THEN "check" ELSE pc[t]]
    /\ target' = [t \in Tid |-> IF t \in new THEN k ELSE target[t]]

\* Startup has been called.
PoolInit ==
    /\ \E first \in SUBSET Tid :
          /\ Cardinality(first) = Reserve
          /\ pc = [t \in Tid |-> IF t \in first THEN "check" ELSE "none"]
    /\ target = [t \in Tid |-> NoTask]
    /\ running = [t \in Tid |-> NoTask]
    /\ sem = [t \in Tid |-> 0]
    /\ dae = [t \in Tid |-> FALSE]
    /\ free = {} /\ active = {}
    /\ toExit = 0 /\ eaten = 0
    /\ task = [k \in Task |-> "new"]
    /\ checks = 0
    /\ phase = "no"

\* Bound: only IntegrityCheck reads _threadsEaten, so it is not counted on once
\* Shutdown has begun.
Count(n) == eaten' = IF phase = "no" THEN eaten + n ELSE eaten

-----------------------------------------------------------------------------
\* Operations of the pool

\* Plausible mistakes: the thread is not woken, or not counted.
ExecuteFreeAsleep(k, t) ==
    /\ task[k] = "new"
    /\ t \in free
    /\ free' = free \ {t}
    /\ target' = [target EXCEPT ![t] = k]
    /\ active' = active \cup {t}
    /\ Count(-1)
    /\ task' = [task EXCEPT ![k] = "given"]
    /\ UNCHANGED <<pc, running, sem, dae, toExit, checks, phase>>

ExecuteFreeUncounted(k, t) ==
    /\ task[k] = "new"
    /\ t \in free
    /\ free' = free \ {t}
    /\ target' = [target EXCEPT ![t] = k]
    /\ sem' = [sem EXCEPT ![t] = @ + 1]
    /\ active' = active \cup {t}
    /\ task' = [task EXCEPT ![k] = "given"]
    /\ UNCHANGED <<pc, running, dae, toExit, eaten, checks, phase>>

\* ExecuteTask: a free thread gets the target and is woken ...
ExecuteFree(k, t) ==
    /\ task[k] = "new"
    /\ t \in free
    /\ free' = free \ {t}
    /\ target' = [target EXCEPT ![t] = k]
    /\ sem' = [sem EXCEPT ![t] = @ + 1]
    /\ active' = active \cup {t}
    /\ Count(-1)
    /\ task' = [task EXCEPT ![k] = "given"]
    /\ UNCHANGED <<pc, running, dae, toExit, checks, phase>>

\* ... or a new one is started with it.
ExecuteNew(k, t) ==
    /\ task[k] = "new"
    /\ free = {} /\ t \in Fresh
    /\ StartThreads({t}, k)
    /\ active' = active \cup {t}
    /\ Count(-1)
    /\ task' = [task EXCEPT ![k] = "given"]
    /\ UNCHANGED <<running, sem, dae, free, toExit, checks, phase>>

\* KillFreeThreads: the victims are woken to find that they must exit; they
\* stay in m_freeThreads until they do.
KillFreeThreads(victims) ==
    /\ target' = [t \in Tid |-> IF t \in victims THEN NoTask ELSE target[t]]
    /\ dae' = [t \in Tid |-> dae[t] \/ t \in victims]
    /\ sem' = [t \in Tid |-> IF t \in victims THEN sem[t] + 1 ELSE sem[t]]

\* IntegrityCheck, on the main thread: too few threads, too many, or enough.
IntegrityCheck ==
    /\ checks < MaxChecks /\ phase = "no"
    /\ checks' = checks + 1
    /\ \/ /\ eaten < Reserve
          /\ eaten' = IF eaten < 0 THEN 0 ELSE eaten
          /\ \E new \in SUBSET Fresh :
                Cardinality(new) = Reserve - eaten /\ StartThreads(new, NoTask)
          /\ UNCHANGED <<running, sem, dae, free, active, toExit>>
       \/ /\ eaten > Reserve
          /\ eaten' = Reserve
          /\ \E victims \in SUBSET free :
                /\ \/ Cardinality(victims) = eaten - Reserve
                   \/ victims = free /\ Cardinality(free) < eaten - Reserve
                /\ KillFreeThreads(victims)
                /\ toExit' = toExit + Cardinality(victims)
          /\ UNCHANGED <<pc, running, free, active>>
       \/ eaten = Reserve /\ UNCHANGED <<threads, pool>>
    /\ UNCHANGED <<task, phase>>

-----------------------------------------------------------------------------
\* thread_proc

Check(t) ==
    /\ pc[t] = "check"
    /\ pc' = [pc EXCEPT ![t] = IF target[t] = NoTask THEN "exit" ELSE "run"]
    /\ running' = [running EXCEPT ![t] = target[t]]
    /\ task' = IF target[t] = NoTask THEN task ELSE [task EXCEPT ![target[t]] = "running"]
    /\ UNCHANGED <<target, sem, dae, pool, checks, phase>>

\* run() returns.  What is deleted and cleared is the target as it is now.
Run(t) ==
    /\ pc[t] = "run"
    /\ pc' = [pc EXCEPT ![t] = "exit"]
    /\ task' = [task EXCEPT ![running[t]] = "done"]
    /\ target' = [target EXCEPT ![t] = NoTask]
    /\ running' = [running EXCEPT ![t] = NoTask]
    /\ UNCHANGED <<sem, dae, pool, checks, phase>>

\* Plausible mistakes: threads go whether they must or not, or stay in the pool.
ThreadExitAlways(t) ==
    /\ pc[t] = "exit"
    /\ toExit' = toExit - 1
    /\ active' = active \ {t}
    /\ free' = IF dae[t] THEN free \ {t} ELSE free
    /\ pc' = [pc EXCEPT ![t] = "gone"]
    /\ UNCHANGED <<target, running, sem, dae, eaten, task, checks, phase>>

ThreadExitGoneKept(t) ==
    /\ pc[t] = "exit" /\ toExit > 0
    /\ toExit' = toExit - 1
    /\ active' = active \ {t}
    /\ pc' = [pc EXCEPT ![t] = "gone"]
    /\ UNCHANGED <<target, running, sem, dae, free, eaten, task, checks, phase>>

\* ThreadExit: the thread goes, if threads must ...
ThreadExitGone(t) ==
    /\ pc[t] = "exit" /\ toExit > 0
    /\ toExit' = toExit - 1
    /\ active' = active \ {t}
    /\ free' = IF dae[t] THEN free \ {t} ELSE free
    /\ pc' = [pc EXCEPT ![t] = "gone"]
    /\ UNCHANGED <<target, running, sem, dae, eaten, task, checks, phase>>

\* A plausible mistake: the thread stays among the active ones.
ThreadExitFreeActive(t) ==
    /\ pc[t] = "exit" /\ toExit = 0
    /\ free' = free \cup {t}
    /\ Count(1)
    /\ pc' = [pc EXCEPT ![t] = "suspend"]
    /\ UNCHANGED <<target, running, sem, dae, active, toExit, task, checks, phase>>

\* ... or enters the free pool.
ThreadExitFree(t) ==
    /\ pc[t] = "exit" /\ toExit = 0
    /\ active' = active \ {t}
    /\ free' = free \cup {t}
    /\ Count(1)
    /\ pc' = [pc EXCEPT ![t] = "suspend"]
    /\ UNCHANGED <<target, running, sem, dae, toExit, task, checks, phase>>

Suspend(t) ==
    /\ pc[t] = "suspend" /\ sem[t] > 0
    /\ sem' = [sem EXCEPT ![t] = @ - 1]
    /\ pc' = [pc EXCEPT ![t] = "check"]
    /\ UNCHANGED <<target, running, dae, pool, task, checks, phase>>

ThreadProc(t) ==
    Check(t) \/ ThreadExitGone(t) \/ ThreadExitFree(t) \/ Suspend(t)

-----------------------------------------------------------------------------
\* Shutdown: the free threads are woken to exit; the active ones are told to
\* end (OnShutdown), or woken when they have no target.
Shutdown ==
    /\ Shutdowns /\ phase = "no"
    /\ target' = [t \in Tid |-> IF t \in free THEN NoTask ELSE target[t]]
    /\ dae' = [t \in Tid |-> dae[t] \/ t \in free]
    /\ sem' = [t \in Tid |-> sem[t] + (IF t \in free THEN 1 ELSE 0)
                                  + (IF t \in active /\ target[t] = NoTask THEN 1 ELSE 0)]
    /\ toExit' = toExit + Cardinality(free) + Cardinality(active)
    /\ phase' = "first"
    /\ UNCHANGED <<pc, running, free, active, eaten, task, checks>>

\* Its loop, once a second (in which a thread that was woken has run): "all we
\* need to do is to resume it".
ShutdownLoop ==
    /\ phase \in {"first", "loop"}
    /\ \A t \in free : sem[t] = 0
    /\ phase' = IF free \cup active = {} THEN "done" ELSE "loop"
    /\ sem' = IF phase = "loop" THEN [t \in Tid |-> IF t \in free THEN sem[t] + 1 ELSE sem[t]]
              ELSE sem
    /\ UNCHANGED <<pc, target, running, dae, pool, task, checks>>

PoolNext ==
    \/ \E t \in Tid : ThreadProc(t) \/ Run(t)
    \/ \E k \in Task, t \in Tid : ExecuteFree(k, t) \/ ExecuteNew(k, t)
    \/ IntegrityCheck
    \/ Shutdown
    \/ ShutdownLoop

PoolSpec == PoolInit /\ [][PoolNext]_poolVars

\* Threads are scheduled, and Shutdown goes on.  A task need not end before
\* Shutdown has told it to.
PoolFairSpec ==
    /\ PoolSpec
    /\ \A t \in Tid : WF_poolVars(ThreadProc(t)) /\ WF_poolVars(phase # "no" /\ Run(t))
    /\ WF_poolVars(ShutdownLoop)

-----------------------------------------------------------------------------
PoolTypeOK ==
    /\ pc \in [Tid -> {"none", "check", "run", "exit", "suspend", "gone"}]
    /\ target \in [Tid -> Task \cup {NoTask}] /\ running \in [Tid -> Task \cup {NoTask}]
    /\ sem \in [Tid -> Nat]
    /\ dae \in [Tid -> BOOLEAN]
    /\ free \subseteq Tid /\ active \subseteq Tid
    /\ toExit \in Nat /\ eaten \in Int
    /\ task \in [Task -> {"new", "given", "running", "done"}]
    /\ checks \in 0 .. MaxChecks
    /\ phase \in {"no", "first", "loop", "done"}

Live == {t \in Tid : pc[t] \notin {"none", "gone"}}

\* No Thread object is in a set of the pool after it has been deleted, however
\* kills, exits and tasks overlap.
NoDangling == free \cup active \subseteq Live

\* No thread has been told to exit.
Unkilled == phase = "no" /\ \A t \in Tid : ~dae[t]

\* Until threads are told to exit, a thread in the free pool has nothing to do,
\* and every thread that has a target is active: none is given two tasks.
Exclusive ==
    Unkilled => /\ free \cap active = {}
                /\ \A t \in Tid : target[t] # NoTask \/ running[t] # NoTask => t \in active

\* Until then, too, _threadsEaten promises no more threads than there are in the
\* free pool, although four operations keep it by hand.
EatenBacked == Unkilled => eaten <= Cardinality(free)

\* "Grabs/spawns a thread, and tells it to execute a task": every task is run.
TaskRuns == \A k \in Task : task[k] = "given" ~> task[k] # "given"

\* Every task is run, unless threads are told to exit: no wake-up is lost
\* between a thread's entry in the free pool and its suspension.
TaskRunsUnkilled == []Unkilled => TaskRuns

\* Shutdown ends.
ShutdownEnds == phase = "first" ~> phase = "done"

\* Shutdown ends as long as there is an exit for every thread that is left.
ShutdownEndsWhenCounted ==
    [](phase \in {"first", "loop"} => toExit >= Cardinality(Live)) => ShutdownEnds

\* The pool's books: types, sets that hold living threads only, and a reserve
\* that free threads back as long as none is told to exit.
PoolSound == PoolTypeOK /\ NoDangling /\ EatenBacked
=============================================================================
