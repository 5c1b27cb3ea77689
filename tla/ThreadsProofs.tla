--------------------------- MODULE ThreadsProofs ----------------------------
(***************************************************************************)
(* Proofs about the threads of ThreadPool and those of Database.           *)
(*                                                                         *)
(* For any number of threads and tasks the pool's books stay in order      *)
(* (PoolSound), and no thread is given two tasks (Exclusive).              *)
(*                                                                         *)
(* No two threads use one connection of Database, for any number of        *)
(* connections, callers, statements and buffers, however connections are   *)
(* lost.  The invariant is inductive together with a type that is weaker   *)
(* than TypeOK: it says that the threads' variables are records, and not   *)
(* what may be in a queue.  From that follow the types in full, and what   *)
(* is stored while no connection is lost.                                  *)
(***************************************************************************)
EXTENDS ThreadPool, Database, FiniteSetTheorems, TLAPS

-----------------------------------------------------------------------------
\* ThreadPool

\* Until Shutdown, a thread that was not told to exit has a token on its
\* semaphore exactly while it is to wake for a task, and one in the free pool
\* sleeps.  So it never comes to its exit while it is in the free pool.
Tokens ==
    phase = "no" =>
        \A t \in Tid : ~dae[t] =>
            /\ t \in free => pc[t] = "suspend"
            /\ sem[t] = IF pc[t] = "suspend" /\ t \notin free THEN 1 ELSE 0

\* After Shutdown a thread in the free pool was told to exit, unless no exit is
\* left to be taken.
Condemned == phase # "no" => toExit = 0 \/ \A t \in free : dae[t]

\* What a thread of the pool may have as its target, until some are told to exit.
Targets ==
    Unkilled => \A t \in Tid : /\ pc[t] = "exit" => target[t] = NoTask
                               /\ pc[t] # "run" => running[t] = NoTask

Finite == IsFiniteSet(free) /\ IsFiniteSet(active)

PoolInv == PoolTypeOK /\ Finite /\ NoDangling /\ Tokens /\ Condemned
       /\ Targets /\ Exclusive /\ EatenBacked

\* The assumption says nothing about whether the set of threads is finite: the
\* two sets of the pool are finite because threads enter them one by one.
LEMMA Cardinals ==
  ASSUME PoolInv
  PROVE  Cardinality(free) \in Nat /\ Cardinality(active) \in Nat
BY FS_CardinalityType DEF PoolInv, Finite

LEMMA PoolInitInv == PoolInit => PoolInv
<1> SUFFICES ASSUME PoolInit PROVE PoolInv
  OBVIOUS
<1> USE ReserveAssumption DEF PoolInit
<1>1. PoolTypeOK
  BY DEF PoolTypeOK
<1>2. Finite /\ EatenBacked
  BY FS_EmptySet DEF Finite, EatenBacked
<1>3. NoDangling /\ Tokens /\ Condemned /\ Targets /\ Exclusive
  BY DEF NoDangling, Tokens, Condemned, Targets, Exclusive
<1> QED BY <1>1, <1>2, <1>3 DEF PoolInv

\* A task goes to a thread of the free pool, which sleeps if it was not told to
\* exit, so it does not come to an exit between.
LEMMA ExecuteFreeInv ==
  ASSUME PoolInv, NEW k \in Task, NEW t \in Tid, ExecuteFree(k, t)
  PROVE  PoolInv'
<1> USE ReserveAssumption DEF PoolInv, ExecuteFree, Count
<1>1. PoolTypeOK'
  BY DEF PoolTypeOK
<1>2. Finite' /\ EatenBacked'
  <2>1. /\ IsFiniteSet(free \ {t}) /\ IsFiniteSet(active \cup {t})
        /\ Cardinality(free \ {t}) = Cardinality(free) - 1
    BY FS_RemoveElement, FS_AddElement DEF Finite
  <2> QED BY <2>1, Cardinals DEF Finite, EatenBacked, Unkilled, PoolTypeOK
<1>3. NoDangling'
  BY DEF NoDangling, Live
<1>4. Tokens' /\ Condemned'
  BY DEF Tokens, Condemned, PoolTypeOK
<1>5. Targets'
  BY DEF Targets, Tokens, Unkilled, PoolTypeOK
<1>6. Exclusive'
  BY DEF Exclusive, Unkilled, PoolTypeOK
<1> QED BY <1>1, <1>2, <1>3, <1>4, <1>5, <1>6

LEMMA ExecuteNewInv ==
  ASSUME PoolInv, NEW k \in Task, NEW t \in Tid, ExecuteNew(k, t)
  PROVE  PoolInv'
<1> USE ReserveAssumption DEF PoolInv, ExecuteNew, StartThreads, Fresh, Count
<1>1. PoolTypeOK'
  BY DEF PoolTypeOK
<1>2. Finite' /\ EatenBacked'
  BY FS_AddElement, Cardinals DEF Finite, EatenBacked, Unkilled, PoolTypeOK
<1>3. NoDangling' /\ Tokens' /\ Condemned'
  BY DEF NoDangling, Live, Tokens, Condemned, PoolTypeOK
<1>4. Targets' /\ Exclusive'
  BY DEF Targets, Exclusive, Unkilled, PoolTypeOK
<1> QED BY <1>1, <1>2, <1>3, <1>4

\* A check starts threads, or tells some to exit, or finds enough.  Where some
\* are told to exit there are any, since the free pool backs the counter.
LEMMA IntegrityCheckInv ==
  ASSUME PoolInv, IntegrityCheck
  PROVE  PoolInv'
<1> USE ReserveAssumption DEF PoolInv
<1> checks' \in 0 .. MaxChecks /\ UNCHANGED <<task, phase>> /\ phase = "no"
  BY DEF IntegrityCheck, PoolTypeOK
<1>1. CASE eaten < Reserve
  <2>1. /\ eaten' = IF eaten < 0 THEN 0 ELSE eaten
        /\ UNCHANGED <<running, sem, dae, free, active, toExit>>
    BY <1>1 DEF IntegrityCheck, PoolTypeOK
  <2>2. PICK new \in SUBSET Fresh : StartThreads(new, NoTask)
    BY <1>1 DEF IntegrityCheck, PoolTypeOK
  <2> USE <2>1, <2>2 DEF StartThreads, Fresh
  <2>3. PoolTypeOK'
    BY DEF PoolTypeOK
  <2>4. Finite' /\ EatenBacked'
    BY Cardinals DEF Finite, EatenBacked, Unkilled, PoolTypeOK
  <2>5. NoDangling' /\ Tokens' /\ Condemned'
    BY DEF NoDangling, Live, Tokens, Condemned, PoolTypeOK
  <2>6. Targets' /\ Exclusive'
    BY DEF Targets, Exclusive, Unkilled, PoolTypeOK
  <2> QED BY <2>3, <2>4, <2>5, <2>6
<1>2. CASE eaten > Reserve
  <2>1. eaten' = Reserve /\ UNCHANGED <<pc, running, free, active>>
    BY <1>2 DEF IntegrityCheck, PoolTypeOK
  <2>2. PICK victims \in SUBSET free :
          /\ \/ Cardinality(victims) = eaten - Reserve
             \/ victims = free /\ Cardinality(free) < eaten - Reserve
          /\ KillFreeThreads(victims)
          /\ toExit' = toExit + Cardinality(victims)
    BY <1>2 DEF IntegrityCheck, PoolTypeOK
  <2> USE <2>1, <2>2 DEF KillFreeThreads
  <2>3. Cardinality(victims) \in Nat
    BY FS_Subset, FS_CardinalityType DEF Finite
  <2>4. PoolTypeOK'
    BY <2>3 DEF PoolTypeOK
  <2>5. ~Unkilled'
    <3>1. CASE victims = {}
      <4>1. Cardinality(victims) = 0
        BY <3>1, FS_EmptySet
      <4>2. Cardinality(free) < eaten - Reserve
        BY <4>1, <1>2 DEF PoolTypeOK
      <4>3. ~Unkilled
        BY <4>2, Cardinals DEF EatenBacked, PoolTypeOK
      <4> QED BY <4>3 DEF Unkilled, PoolTypeOK
    <3>2. CASE victims # {}
      BY <3>2 DEF Unkilled, PoolTypeOK
    <3> QED BY <3>1, <3>2
  <2>6. Finite' /\ NoDangling' /\ Tokens' /\ Condemned'
    BY DEF Finite, NoDangling, Live, Tokens, Condemned, PoolTypeOK
  <2> QED BY <2>4, <2>5, <2>6 DEF Targets, Exclusive, EatenBacked
<1>3. CASE eaten = Reserve
  <2> UNCHANGED <<threads, pool>>
    BY <1>3 DEF IntegrityCheck, PoolTypeOK
  <2> QED
    BY DEF threads, pool, PoolTypeOK, Finite, NoDangling, Live, Tokens, Condemned,
           Targets, Exclusive, EatenBacked, Unkilled
<1> QED BY <1>1, <1>2, <1>3 DEF PoolTypeOK

LEMMA CheckInv ==
  ASSUME PoolInv, NEW t \in Tid, Check(t)
  PROVE  PoolInv'
<1> USE ReserveAssumption DEF PoolInv, Check, pool
<1>1. PoolTypeOK'
  BY DEF PoolTypeOK
<1>2. Finite' /\ EatenBacked'
  BY DEF Finite, EatenBacked, Unkilled
<1>3. NoDangling' /\ Tokens' /\ Condemned'
  BY DEF NoDangling, Live, Tokens, Condemned, PoolTypeOK
<1>4. Targets' /\ Exclusive'
  BY DEF Targets, Exclusive, Unkilled, PoolTypeOK
<1> QED BY <1>1, <1>2, <1>3, <1>4

LEMMA RunInv ==
  ASSUME PoolInv, NEW t \in Tid, Run(t)
  PROVE  PoolInv'
<1> USE ReserveAssumption DEF PoolInv, Run, pool
<1>1. PoolTypeOK'
  BY DEF PoolTypeOK
<1>2. Finite' /\ EatenBacked'
  BY DEF Finite, EatenBacked, Unkilled
<1>3. NoDangling' /\ Tokens' /\ Condemned'
  BY DEF NoDangling, Live, Tokens, Condemned, PoolTypeOK
<1>4. Targets' /\ Exclusive'
  BY DEF Targets, Exclusive, Unkilled, PoolTypeOK
<1> QED BY <1>1, <1>2, <1>3, <1>4

\* A thread that goes leaves the free pool only if it was told to exit; by
\* Tokens and Condemned one that was not told is not there.
LEMMA ThreadExitGoneInv ==
  ASSUME PoolInv, NEW t \in Tid, ThreadExitGone(t)
  PROVE  PoolInv'
<1> USE ReserveAssumption DEF PoolInv, ThreadExitGone
<1>1. PoolTypeOK'
  BY DEF PoolTypeOK
<1>2. t \notin free'
  BY DEF Tokens, Condemned, PoolTypeOK
<1>3. Finite'
  BY FS_RemoveElement DEF Finite
<1>4. EatenBacked'
  BY <1>2 DEF EatenBacked, Unkilled, PoolTypeOK
<1>5. NoDangling' /\ Tokens' /\ Condemned'
  BY <1>2 DEF NoDangling, Live, Tokens, Condemned, PoolTypeOK
<1>6. Targets' /\ Exclusive'
  BY DEF Targets, Exclusive, Unkilled, PoolTypeOK
<1> QED BY <1>1, <1>3, <1>4, <1>5, <1>6

LEMMA ThreadExitFreeInv ==
  ASSUME PoolInv, NEW t \in Tid, ThreadExitFree(t)
  PROVE  PoolInv'
<1> USE ReserveAssumption DEF PoolInv, ThreadExitFree, Count
<1>1. PoolTypeOK'
  BY DEF PoolTypeOK
<1>2. Finite'
  BY FS_RemoveElement, FS_AddElement DEF Finite
<1>3. EatenBacked'
  <2>1. Unkilled => t \notin free
    BY DEF Tokens, Unkilled, PoolTypeOK
  <2>2. t \notin free => Cardinality(free \cup {t}) = Cardinality(free) + 1
    BY FS_AddElement DEF Finite
  <2> QED BY <2>1, <2>2, Cardinals DEF EatenBacked, Unkilled, PoolTypeOK
<1>4. NoDangling' /\ Tokens' /\ Condemned'
  BY DEF NoDangling, Live, Tokens, Condemned, PoolTypeOK
<1>5. Targets' /\ Exclusive'
  BY DEF Targets, Exclusive, Unkilled, PoolTypeOK
<1> QED BY <1>1, <1>2, <1>3, <1>4, <1>5

LEMMA SuspendInv ==
  ASSUME PoolInv, NEW t \in Tid, Suspend(t)
  PROVE  PoolInv'
<1> USE ReserveAssumption DEF PoolInv, Suspend, pool
<1>1. PoolTypeOK'
  BY DEF PoolTypeOK
<1>2. Finite' /\ EatenBacked'
  BY DEF Finite, EatenBacked, Unkilled
<1>3. NoDangling' /\ Tokens' /\ Condemned'
  BY DEF NoDangling, Live, Tokens, Condemned, PoolTypeOK
<1>4. Targets' /\ Exclusive'
  BY DEF Targets, Exclusive, Unkilled, PoolTypeOK
<1> QED BY <1>1, <1>2, <1>3, <1>4

\* From Shutdown on every invariant but the first four is void.
LEMMA ShutdownInv ==
  ASSUME PoolInv, Shutdown \/ ShutdownLoop
  PROVE  PoolInv'
<1> USE ReserveAssumption DEF PoolInv, Shutdown, ShutdownLoop, threads, pool
<1>1. PoolTypeOK'
  BY Cardinals DEF PoolTypeOK
<1>2. Finite' /\ NoDangling' /\ Tokens' /\ Condemned'
  BY DEF Finite, NoDangling, Live, Tokens, Condemned, PoolTypeOK
<1>3. ~Unkilled'
  BY DEF Unkilled
<1> QED BY <1>1, <1>2, <1>3 DEF Targets, Exclusive, EatenBacked

LEMMA PoolNextInv == PoolInv /\ [PoolNext]_poolVars => PoolInv'
<1> SUFFICES ASSUME PoolInv, [PoolNext]_poolVars PROVE PoolInv'
  OBVIOUS
<1>1. CASE \E t \in Tid : ThreadProc(t) \/ Run(t)
  BY <1>1, CheckInv, RunInv, ThreadExitGoneInv, ThreadExitFreeInv, SuspendInv
     DEF ThreadProc
<1>2. CASE \E k \in Task, t \in Tid : ExecuteFree(k, t) \/ ExecuteNew(k, t)
  BY <1>2, ExecuteFreeInv, ExecuteNewInv
<1>3. CASE IntegrityCheck
  BY <1>3, IntegrityCheckInv
<1>4. CASE Shutdown \/ ShutdownLoop
  BY <1>4, ShutdownInv
<1>5. CASE UNCHANGED poolVars
  BY <1>5 DEF poolVars, threads, pool, PoolInv, PoolTypeOK, Finite, NoDangling, Live, Tokens,
              Condemned, Targets, Exclusive, EatenBacked, Unkilled
<1> QED BY <1>1, <1>2, <1>3, <1>4, <1>5 DEF PoolNext

THEOREM PoolInvariance == PoolSpec => []PoolInv
BY PoolInitInv, PoolNextInv, PTL DEF PoolSpec

\* The pool's books stay in order for any number of threads and tasks: no thread
\* that has been deleted is left in a set of the pool, and the reserve that is
\* counted is there.
THEOREM PoolConsistent == PoolSpec => []PoolSound
<1>1. PoolInv => PoolSound
  BY DEF PoolInv, PoolSound
<1> QED BY <1>1, PoolInvariance, PTL

\* As long as none is told to exit, no thread is given two tasks.
THEOREM OneTask == PoolSpec => []Exclusive
<1>1. PoolInv => Exclusive
  BY DEF PoolInv
<1> QED BY <1>1, PoolInvariance, PTL

-----------------------------------------------------------------------------
\* Database

Slot == Item \cup {Nothing}

Record == [pc : Label, item : Slot, con : Con \cup {None}, part : Nat, over : BOOLEAN]

Typed ==
    /\ Busy \in [Con -> Thread \cup {None}]
    /\ at \in [Thread -> Record]
    /\ queries_queue \in Seq(Slot) /\ query_buffer \in Seq(Slot)
    /\ made \in [query : 0..MaxQueries, buffer : 0..MaxBuffers]

Inv == Typed /\ ConnectionsOwned

\* A thread that moves on and keeps its connection, if it has one, disturbs
\* nobody.
LEMMA KeepConnection ==
    ASSUME Inv, NEW t \in Thread, at' \in [Thread -> Record],
           at'[t].con = at[t].con, \A u \in Thread \ {t} : at'[u] = at[u],
           UNCHANGED Busy
    PROVE  ConnectionsOwned'
BY DEF Inv, Typed, ConnectionsOwned, Record

LEMMA HoldItem ==
    ASSUME Inv, NEW t \in Thread, NEW item \in Slot, NEW label \in Label,
           Hold(t, item, label), UNCHANGED Busy
    PROVE  at' \in [Thread -> Record] /\ ConnectionsOwned'
<1>1. /\ at' \in [Thread -> Record] /\ at'[t].con = at[t].con
      /\ \A u \in Thread \ {t} : at'[u] = at[u]
  BY DEF Inv, Typed, Hold, Record
<1> QED
  BY <1>1, KeepConnection

LEMMA GoOn ==
    ASSUME Inv, NEW t \in Thread, NEW label \in Label, Goto(t, label), UNCHANGED Busy
    PROVE  at' \in [Thread -> Record] /\ ConnectionsOwned'
<1>1. /\ at' \in [Thread -> Record] /\ at'[t].con = at[t].con
      /\ \A u \in Thread \ {t} : at'[u] = at[u]
  BY DEF Inv, Typed, Goto, Record
<1> QED
  BY <1>1, KeepConnection

\* A thread that gives its connection back had it for itself.
LEMMA GiveBack ==
    ASSUME Inv, NEW t \in Thread, at' \in [Thread -> Record],
           at'[t].con = None, \A u \in Thread \ {t} : at'[u] = at[u],
           Busy' = Freed(t)
    PROVE  /\ Busy' \in [Con -> Thread \cup {None}]
           /\ ConnectionsOwned'
<1>1. Busy' \in [Con -> Thread \cup {None}]
  BY DEF Inv, Typed, Freed
<1>2. ASSUME NEW u \in Thread, at'[u].con # None
      PROVE  Busy'[at'[u].con] = u
  <2>1. u # t /\ at'[u] = at[u]
    BY <1>2
  <2>2. at[u].con \in Con /\ Busy[at[u].con] = u
    BY <1>2, <2>1 DEF Inv, Typed, ConnectionsOwned, Record
  <2>3. at[u].con # at[t].con
    BY <2>1, <2>2, DatabaseAssumption DEF Inv, Typed, ConnectionsOwned, Record, Thread
  <2> QED
    BY <2>1, <2>2, <2>3 DEF Freed
<1> QED
  BY <1>1, <1>2 DEF ConnectionsOwned

LEMMA InitInv == Init => Inv
<1> SUFFICES ASSUME Init PROVE Inv
  OBVIOUS
<1>1. at \in [Thread -> Record]
  <2> DEFINE label(t) == CASE t = Executor -> "start" [] t = Querier -> "acquire" [] OTHER -> "idle"
  <2>1. \A t \in Thread : label(t) \in Label
    BY DEF Label
  <2>2. at = [t \in Thread |-> [pc |-> label(t), item |-> Nothing, con |-> None, part |-> 0,
                               over |-> FALSE]]
    BY DEF Init
  <2> HIDE DEF label
  <2> QED
    BY <2>1, <2>2 DEF Record, Slot
<1>3. Typed
  BY <1>1, DatabaseAssumption DEF Init, Typed
<1>2. ConnectionsOwned
  BY DEF Init, ConnectionsOwned
<1> QED
  BY <1>2, <1>3 DEF Inv

-----------------------------------------------------------------------------
\* The steps of any thread.
LEMMA UseStep ==
    ASSUME Inv, NEW t \in Thread, UseConnection(t)
    PROVE  Inv'
<1> USE DEF Inv, Typed
<1>1. CASE GetFreeConnection(t)
  <2>1. PICK c \in Con :
          /\ Busy[c] = None
          /\ Busy' = [Busy EXCEPT ![c] = t]
          /\ at'[t].con = c
          /\ at' \in [Thread -> Record]
          /\ \A u \in Thread \ {t} : at'[u] = at[u]
    <3> DEFINE label == IF at[t].item \in Query THEN "send"
                        ELSE IF at[t].item \in Buffer THEN "begin"
                        ELSE IF t = Executor THEN "test"
                        ELSE IF t = Querier THEN "pop" ELSE "release"
    <3>1. label \in Label
      BY DEF Label
    <3>2. PICK c \in Con : /\ Busy[c] = None
                          /\ Busy' = [Busy EXCEPT ![c] = t]
                          /\ at' = [at EXCEPT ![t].con = c, ![t].pc = label]
      BY <1>1 DEF GetFreeConnection
    <3> HIDE DEF label
    <3>3. /\ at'[t].con = c /\ at' \in [Thread -> Record]
          /\ \A u \in Thread \ {t} : at'[u] = at[u]
      BY <3>1, <3>2 DEF Record
    <3> QED
      BY <3>2, <3>3
  <2>2. ASSUME NEW u \in Thread, at'[u].con # None
        PROVE  Busy'[at'[u].con] = u
    <3>1. CASE u = t
      BY <2>1, <3>1
    <3>2. CASE u # t
      <4>1. at[u].con \in Con /\ Busy[at[u].con] = u
        BY <2>1, <2>2, <3>2 DEF ConnectionsOwned, Record
      <4>2. at[u].con # c
        BY <2>1, <4>1, DatabaseAssumption DEF Thread
      <4> QED
        BY <2>1, <3>2, <4>1, <4>2
    <3> QED
      BY <3>1, <3>2
  <2>3. Typed'
    BY <1>1, <2>1 DEF GetFreeConnection, queues, history
  <2> QED
    BY <2>2, <2>3 DEF ConnectionsOwned
<1>2. CASE Send(t)
  <2>1. /\ at' \in [Thread -> Record] /\ at'[t].con = at[t].con
        /\ \A u \in Thread \ {t} : at'[u] = at[u]
    <3> DEFINE label == IF t = Executor /\ ~at[t].over THEN "test" ELSE "release"
    <3>1. label \in Label /\ Nothing \in Slot
      BY DEF Label, Slot
    <3>2. at' = [at EXCEPT ![t].item = Nothing, ![t].pc = label]
      BY <1>2 DEF Send, Hold
    <3> HIDE DEF label
    <3> QED
      BY <3>1, <3>2 DEF Record
  <2> QED
    BY <1>2, <2>1, KeepConnection DEF Send, queues, history
<1>3. CASE Release(t)
  <2>1. /\ at' \in [Thread -> Record] /\ at'[t].con = None
        /\ \A u \in Thread \ {t} : at'[u] = at[u]
    <3> DEFINE label == IF t \in Caller THEN "idle" ELSE "pop"
    <3>1. label \in Label
      BY DEF Label
    <3>2. at' = [at EXCEPT ![t].con = None, ![t].pc = label]
      BY <1>3 DEF Release
    <3> HIDE DEF label
    <3> QED
      BY <3>1, <3>2 DEF Record
  <2> QED
    BY <1>3, <2>1, GiveBack DEF Release, queues, history
<1>4. CASE Begin(t)
  <2>1. /\ at' \in [Thread -> Record] /\ at'[t].con = at[t].con
        /\ \A u \in Thread \ {t} : at'[u] = at[u]
    BY <1>4 DEF Begin, Record, Label
  <2> QED
    BY <1>4, <2>1, KeepConnection DEF Begin, queues, history
<1>5. CASE Perform(t)
  <2>1. /\ at' \in [Thread -> Record] /\ at'[t].con = at[t].con
        /\ \A u \in Thread \ {t} : at'[u] = at[u]
    <3> DEFINE next == IF at[t].part = Size THEN 0 ELSE at[t].part + 1
               label == IF at[t].part = Size THEN "commit" ELSE "perform"
    <3>1. next \in Nat /\ label \in Label
      BY DEF Record, Label
    <3>2. at' = [at EXCEPT ![t].part = next, ![t].pc = label]
      BY <1>5 DEF Perform
    <3> HIDE DEF next, label
    <3> QED
      BY <3>1, <3>2 DEF Record
  <2> QED
    BY <1>5, <2>1, KeepConnection DEF Perform, queues, history
<1>6. CASE Commit(t)
  <2>1. /\ at' \in [Thread -> Record] /\ at'[t].con = at[t].con
        /\ \A u \in Thread \ {t} : at'[u] = at[u]
    BY <1>6 DEF Commit, Hold, Record, Slot, Label
  <2> QED
    BY <1>6, <2>1, KeepConnection DEF Commit, queues, history
<1> QED
  BY <1>1, <1>2, <1>3, <1>4, <1>5, <1>6 DEF UseConnection

\* What the head of a queue is, and what is left of it.
LEMMA Popped ==
    ASSUME NEW q \in Seq(Slot), q # <<>>
    PROVE  Head(q) \in Slot /\ Tail(q) \in Seq(Slot)
OBVIOUS

\* Database::run
LEMMA RunStep ==
    ASSUME Inv, Start \/ FirstPop \/ PopQuery \/ Pause \/ Stop
    PROVE  Inv'
<1> USE DEF Inv, Typed
<1>0. Executor \in Thread
  BY DEF Thread
<1>1. CASE Start
  <2>1. /\ at' \in [Thread -> Record] /\ at'[Executor].con = at[Executor].con
        /\ \A u \in Thread \ {Executor} : at'[u] = at[u]
    BY <1>1, <1>0 DEF Start, Goto, Record, Label
  <2> QED
    BY <1>1, <1>0, <2>1, KeepConnection DEF Start, queues, history
<1>2. CASE FirstPop
  <2>1. CASE queries_queue = <<>>
    BY <1>2, <1>0, <2>1, GoOn DEF FirstPop, Label, queues, history
  <2>2. CASE queries_queue # <<>>
    <3>1. Head(queries_queue) \in Slot /\ queries_queue' \in Seq(Slot)
      BY <1>2, <2>2, Popped DEF FirstPop
    <3> QED
      BY <1>2, <1>0, <2>2, <3>1, HoldItem DEF FirstPop, Label, history
  <2> QED
    BY <2>1, <2>2
<1>3. CASE PopQuery
  <2> DEFINE label == IF at[Executor].con = None THEN "acquire" ELSE "send"
  <2>1. label \in Label
    BY DEF Label
  <2>2. Head(queries_queue) \in Slot /\ queries_queue' \in Seq(Slot)
    BY <1>3, Popped DEF PopQuery
  <2>3. Hold(Executor, Head(queries_queue), label)
    BY <1>3 DEF PopQuery
  <2> HIDE DEF label
  <2> QED
    BY <1>3, <1>0, <2>1, <2>2, <2>3, HoldItem DEF PopQuery, history
<1>4. CASE Pause
  <2>1. /\ at' \in [Thread -> Record] /\ at'[Executor].con = None
        /\ \A u \in Thread \ {Executor} : at'[u] = at[u]
    <3> DEFINE label == IF at[Executor].over THEN "stop" ELSE "test"
    <3>1. label \in Label
      BY DEF Label
    <3>2. at' = [at EXCEPT ![Executor].con = None, ![Executor].pc = label]
      BY <1>4 DEF Pause
    <3> HIDE DEF label
    <3> QED
      BY <1>0, <3>1, <3>2 DEF Record
  <2> QED
    BY <1>4, <1>0, <2>1, GiveBack DEF Pause, queues, history
<1>5. CASE Stop
  <2>1. /\ at' \in [Thread -> Record] /\ at'[Executor].con = at[Executor].con
        /\ \A u \in Thread \ {Executor} : at'[u] = at[u]
    BY <1>5, <1>0 DEF Stop, Goto, Record, Label
  <2> QED
    BY <1>5, <1>0, <2>1, KeepConnection DEF Stop, queues, history
<1> QED
  BY <1>1, <1>2, <1>3, <1>4, <1>5

\* Either loop ends.
LEMMA TestStep ==
    ASSUME Inv, NEW t \in Thread, Test(t)
    PROVE  Inv'
<1> USE DEF Inv, Typed
<1>1. CASE ThreadState # "terminate"
  <2>1. Goto(t, "pop") /\ "pop" \in Label
    BY <1>1 DEF Test, Label
  <2> QED
    BY <1>1, <2>1, GoOn DEF Test, queues, history
<1>2. CASE ThreadState = "terminate"
  <2>1. /\ at' \in [Thread -> Record] /\ at'[t].con = None
        /\ \A u \in Thread \ {t} : at'[u] = at[u]
    BY <1>2 DEF Test, Record, Label
  <2> QED
    BY <1>2, <2>1, GiveBack DEF Test, queues, history
<1> QED
  BY <1>1, <1>2

\* thread_proc_query
LEMMA QueryThreadStep ==
    ASSUME Inv, PopBuffer \/ PauseBuffer \/ StopBuffers
    PROVE  Inv'
<1> USE DEF Inv, Typed
<1>0. Querier \in Thread
  BY DEF Thread
<1>1. CASE PopBuffer
  <2> DEFINE label == IF at[Querier].con = None THEN "acquire" ELSE "begin"
  <2>1. label \in Label
    BY DEF Label
  <2>2. Head(query_buffer) \in Slot /\ query_buffer' \in Seq(Slot)
    BY <1>1, Popped DEF PopBuffer
  <2>3. Hold(Querier, Head(query_buffer), label)
    BY <1>1 DEF PopBuffer
  <2> HIDE DEF label
  <2> QED
    BY <1>1, <1>0, <2>1, <2>2, <2>3, HoldItem DEF PopBuffer, history
<1>2. CASE PauseBuffer
  <2> DEFINE label == IF at[Querier].over THEN "stop" ELSE "test"
  <2>1. label \in Label
    BY DEF Label
  <2>2. Goto(Querier, label)
    BY <1>2 DEF PauseBuffer
  <2> HIDE DEF label
  <2> QED
    BY <1>2, <1>0, <2>1, <2>2, GoOn DEF PauseBuffer, queues, history
<1>3. CASE StopBuffers
  <2>1. /\ at' \in [Thread -> Record] /\ at'[Querier].con = at[Querier].con
        /\ \A u \in Thread \ {Querier} : at'[u] = at[u]
    BY <1>3, <1>0 DEF StopBuffers, Goto, Record, Label
  <2> QED
    BY <1>3, <1>0, <2>1, KeepConnection DEF StopBuffers, queues, history
<1> QED
  BY <1>1, <1>2, <1>3

\* The end of a queue may be anything a thread has in its hand.
LEMMA Pushed ==
    ASSUME Inv, NEW x \in Slot, Queued(x)
    PROVE  queries_queue' \in Seq(Slot) /\ query_buffer' \in Seq(Slot)
<1>1. \A q \in Seq(Slot) : Append(q, x) \in Seq(Slot)
  OBVIOUS
<1>2. queries_queue \in Seq(Slot) /\ query_buffer \in Seq(Slot)
  BY DEF Inv, Typed
<1>3. CASE x \in Query
  <2>1. queries_queue' = Append(queries_queue, x) /\ query_buffer' = query_buffer
    BY <1>3 DEF Queued
  <2> QED
    BY <1>1, <1>2, <2>1
<1>4. CASE x \notin Query
  <2>1. query_buffer' = Append(query_buffer, x) /\ queries_queue' = queries_queue
    BY <1>4 DEF Queued
  <2> QED
    BY <1>1, <1>2, <2>1
<1> QED
  BY <1>3, <1>4

\* Calls
LEMMA CallStep ==
    ASSUME Inv, NEW t \in Caller,
           Execute(t) \/ AddQueryBuffer(t) \/ QuerySync(t) \/ Push(t)
    PROVE  Inv'
<1> USE DEF Inv, Typed
<1>0. t \in Thread
  BY DEF Thread
<1>1. CASE Execute(t)
  <2> DEFINE x == <<"query", made.query + 1>>
             label == IF ThreadRunning THEN "push" ELSE "acquire"
  <2>1. label \in Label
    BY DEF Label
  <2>2. /\ made.query + 1 \in 1..MaxQueries
        /\ made' \in [query : 0..MaxQueries, buffer : 0..MaxBuffers]
    <3>1. made.query \in 0..MaxQueries /\ made.query < MaxQueries
      BY <1>1 DEF Execute
    <3>2. made' = [made EXCEPT !.query = made.query + 1]
      BY <1>1 DEF Execute
    <3>3. made.query + 1 \in 1..MaxQueries /\ made.query + 1 \in 0..MaxQueries
      BY <3>1, DatabaseAssumption
    <3> QED
      BY <3>2, <3>3
  <2>3. x \in Slot
    BY <2>2 DEF Slot, Item, Query
  <2>4. at' = [at EXCEPT ![t].item = x, ![t].pc = label]
    BY <1>1 DEF Execute, Hold
  <2> HIDE DEF x, label
  <2>5. /\ at' \in [Thread -> Record] /\ at'[t].con = at[t].con
        /\ \A u \in Thread \ {t} : at'[u] = at[u]
    BY <1>0, <2>1, <2>3, <2>4 DEF Record
  <2> QED
    BY <1>1, <1>0, <2>2, <2>5, KeepConnection DEF Execute, queues
<1>2. CASE AddQueryBuffer(t)
  <2> DEFINE x == <<"buffer", made.buffer + 1>>
             label == IF qt THEN "push" ELSE "acquire"
  <2>1. label \in Label
    BY DEF Label
  <2>2. /\ made.buffer + 1 \in 1..MaxBuffers
        /\ made' \in [query : 0..MaxQueries, buffer : 0..MaxBuffers]
    <3>1. made.buffer \in 0..MaxBuffers /\ made.buffer < MaxBuffers
      BY <1>2 DEF AddQueryBuffer
    <3>2. made' = [made EXCEPT !.buffer = made.buffer + 1]
      BY <1>2 DEF AddQueryBuffer
    <3>3. made.buffer + 1 \in 1..MaxBuffers /\ made.buffer + 1 \in 0..MaxBuffers
      BY <3>1, DatabaseAssumption
    <3> QED
      BY <3>2, <3>3
  <2>3. x \in Slot
    BY <2>2 DEF Slot, Item, Buffer
  <2>4. at' = [at EXCEPT ![t].item = x, ![t].pc = label]
    BY <1>2 DEF AddQueryBuffer, Hold
  <2> HIDE DEF x, label
  <2>5. /\ at' \in [Thread -> Record] /\ at'[t].con = at[t].con
        /\ \A u \in Thread \ {t} : at'[u] = at[u]
    BY <1>0, <2>1, <2>3, <2>4 DEF Record
  <2> QED
    BY <1>2, <1>0, <2>2, <2>5, KeepConnection DEF AddQueryBuffer, queues
<1>3. CASE QuerySync(t)
  <2>1. /\ at' \in [Thread -> Record] /\ at'[t].con = at[t].con
        /\ \A u \in Thread \ {t} : at'[u] = at[u]
    BY <1>3, <1>0 DEF QuerySync, Goto, Record, Label
  <2> QED
    BY <1>3, <1>0, <2>1, KeepConnection DEF QuerySync, queues, history
<1>4. CASE Push(t)
  <2>1. at' \in [Thread -> Record] /\ ConnectionsOwned'
    <3>1. Nothing \in Slot /\ "idle" \in Label
      BY DEF Slot, Label
    <3> QED
      BY <1>4, <1>0, <3>1, HoldItem DEF Push
  <2>2. queries_queue' \in Seq(Slot) /\ query_buffer' \in Seq(Slot)
    BY <1>4, <1>0, Pushed DEF Push, Record
  <2> QED
    BY <1>4, <2>1, <2>2 DEF Push
<1> QED
  BY <1>1, <1>2, <1>3, <1>4

\* EndThreads
LEMMA EndStep ==
    ASSUME Inv, End \/ MainStep
    PROVE  Inv'
<1> USE DEF Inv, Typed
<1>0. Main \in Thread
  BY DEF Thread
<1>1. CASE End
  <2>1. /\ at' \in [Thread -> Record] /\ at'[Main].con = at[Main].con
        /\ \A u \in Thread \ {Main} : at'[u] = at[u]
    BY <1>1, <1>0 DEF End, Goto, Record, Label
  <2> QED
    BY <1>1, <1>0, <2>1, KeepConnection DEF End, queues
<1>2. CASE SpinBuffers
  <2>1. CASE query_buffer = <<>>
    BY <1>2, <1>0, <2>1, GoOn DEF SpinBuffers, Label, queues, history
  <2>2. CASE query_buffer # <<>>
    <3>1. Head(query_buffer) \in Slot /\ query_buffer' \in Seq(Slot)
      BY <1>2, <2>2, Popped DEF SpinBuffers
    <3> QED
      BY <1>2, <1>0, <2>2, <3>1, HoldItem DEF SpinBuffers, Label, history
  <2> QED
    BY <2>1, <2>2
<1>3. CASE SpinQueries
  <2>1. CASE queries_queue = <<>>
    BY <1>3, <1>0, <2>1, GoOn DEF SpinQueries, Label, queues, history
  <2>2. CASE queries_queue # <<>>
    <3>1. Head(queries_queue) \in Slot /\ queries_queue' \in Seq(Slot)
      BY <1>3, <2>2, Popped DEF SpinQueries
    <3> QED
      BY <1>3, <1>0, <2>2, <3>1, HoldItem DEF SpinQueries, Label, history
  <2> QED
    BY <2>1, <2>2
<1>4. CASE PutBack
  <2>1. /\ at' \in [Thread -> Record] /\ at'[Main].con = at[Main].con
        /\ \A u \in Thread \ {Main} : at'[u] = at[u]
    BY <1>4, <1>0 DEF PutBack, Hold, Slot, Record, Label
  <2>2. queries_queue' \in Seq(Slot) /\ query_buffer' \in Seq(Slot)
    BY <1>4, <1>0, Pushed DEF PutBack, Record
  <2> QED
    BY <1>4, <1>0, <2>1, <2>2, KeepConnection DEF PutBack, history
<1>5. CASE Terminate
  <2>1. /\ at' \in [Thread -> Record] /\ at'[Main].con = at[Main].con
        /\ \A u \in Thread \ {Main} : at'[u] = at[u]
    BY <1>5, <1>0 DEF Terminate, Goto, Record, Label
  <2> QED
    BY <1>5, <1>0, <2>1, KeepConnection DEF Terminate, queues, history
<1>6. CASE EndThreads
  <2>1. /\ at' \in [Thread -> Record] /\ at'[Main].con = at[Main].con
        /\ \A u \in Thread \ {Main} : at'[u] = at[u]
    BY <1>6, <1>0 DEF EndThreads, Record, Label
  <2> QED
    BY <1>6, <1>0, <2>1, KeepConnection DEF EndThreads, queues
<1> QED
  BY <1>1, <1>2, <1>3, <1>4, <1>5, <1>6 DEF MainStep

-----------------------------------------------------------------------------
\* The type and the ownership of connections hold in every state.
THEOREM Inductive == Spec => []Inv
<1>1. Init => Inv
  BY InitInv
<1>2. Inv /\ [Next]_vars => Inv'
  <2> SUFFICES ASSUME Inv, [Next]_vars PROVE Inv'
    OBVIOUS
  <2>1. ASSUME NEW t \in Caller,
               CallerStep(t) \/ Execute(t) \/ AddQueryBuffer(t) \/ QuerySync(t)
        PROVE  Inv'
    BY <2>1, UseStep, CallStep DEF CallerStep, Thread
  <2>2. CASE ExecutorStep \/ PopQuery
    BY <2>2, UseStep, RunStep, TestStep DEF ExecutorStep, Thread
  <2>3. CASE QuerierStep \/ PopBuffer
    BY <2>3, UseStep, QueryThreadStep, TestStep DEF QuerierStep, Thread
  <2>4. CASE End \/ MainStep
    BY <2>4, EndStep
  <2>5. CASE UNCHANGED vars
    BY <2>5 DEF vars, queues, history, Inv, Typed, ConnectionsOwned
  <2> QED
    BY <2>1, <2>2, <2>3, <2>4, <2>5 DEF Next
<1> QED
  BY <1>1, <1>2, PTL DEF Spec

\* No two threads use one connection of the Database: GetFreeConnection,
\* Busy.Release and the threads' pointers agree.
THEOREM ConnectionSafe == Spec => []ConnectionsOwned
<1>1. Inv => ConnectionsOwned
  BY DEF Inv
<1> QED
  BY <1>1, Inductive, PTL

-----------------------------------------------------------------------------
\* Now the types in full, and what is stored: an invariant that needs the one
\* above.

Place == [pc : Label, item : Item \cup {Nothing}, con : Con \cup {None},
          part : 0..Size, over : BOOLEAN]

OpenState == (SUBSET Statement) \cup {Closed}

\* What a thread has in its hands at each label.
Hands(t) ==
    /\ at[t].pc \in {"send", "begin", "perform", "commit"} => at[t].con # None
    /\ at[t].pc = "send" => at[t].item \in Query
    /\ at[t].pc \in {"begin", "perform", "commit"} => at[t].item \in Buffer
    /\ at[t].pc \in {"push", "again"} => at[t].item \in Item
    /\ at[t].pc = "perform" => at[t].part \in 1..Size
    /\ at[t].part \in 0..Size

\* The first n statements of a QueryBuffer.
Done(b, n) == {"buffer"} \X {b[2]} \X (1..n)

\* The transaction of a thread in PerformQueryBuffer: what it has performed, but
\* for what was refused; nothing, once it was lost, and then the buffer is hurt.
InTransaction(t) ==
    LET b == at[t].item
        c == at[t].con
        n == IF at[t].pc = "perform" THEN at[t].part - 1 ELSE Size
    IN  /\ open[c] = Closed \/ open[c] \subseteq Parts(b)
        /\ b \notin hurt => open[c] = Done(b, n) \ refused /\ Parts(b) \cap stored = {}

Performing(t) == at[t].pc \in {"perform", "commit"}

Transactions ==
    /\ \A t \in Thread : Performing(t) => InTransaction(t)
    /\ \A c \in Con : open[c] # Closed => \E t \in Thread : Performing(t) /\ at[t].con = c

\* A buffer that is still to be performed.
Before(b) ==
    \/ b[2] > made.buffer
    \/ \E i \in DOMAIN query_buffer : query_buffer[i] = b
    \/ \E t \in Thread : at[t].item = b /\ ~Performing(t)

\* The server has seen none of its statements, and of one that is performed no
\* more than was sent.
Clean ==
    /\ \A b \in Buffer : Before(b) => Parts(b) \cap (stored \cup refused) = {}
    /\ \A t \in Thread :
         at[t].pc = "perform" => Parts(at[t].item) \cap refused \subseteq Done(at[t].item, at[t].part - 1)

\* How far EndThreads is, and what the execute thread may know of it.
Phases ==
    /\ at[Main].pc \in {"idle", "buffers", "queries", "again", "terminate", "wait"}
    /\ at[Main].pc # "idle" => ending /\ ~at[Main].over
    /\ at[Main].over => ending /\ early = {}
    /\ ThreadState = "terminate" \/ at[Executor].over => at[Main].pc = "wait" \/ at[Main].over
    /\ at[Executor].pc \in {"stop", "done"} => at[Executor].over
    /\ ~ThreadRunning => at[Executor].pc = "done"

InQueue(x) == \E i \in DOMAIN queries_queue : queries_queue[i] = x

\* Where a statement is that was queued before EndThreads.
Whereabouts(x) ==
    \/ x \in hurt \/ Parts(x) \subseteq stored \cup refused
    \/ at[Executor].pc \notin {"stop", "done"} /\ InQueue(x)
    \/ at[Executor].pc \notin {"stop", "done"} /\ at[Main].pc = "again" /\ at[Main].item = x
    \/ at[Executor].pc \in {"acquire", "send"} /\ at[Executor].item = x

Kept == \A x \in early \cap Query : Whereabouts(x)

Strong ==
    /\ TypeOK /\ (\A t \in Thread : Hands(t))
    /\ Transactions /\ WholeBuffers /\ Clean /\ Phases /\ Kept

\* Every buffer is in one place: a thread has it, or it is in the queue, once.
Single ==
    /\ \A t, u \in Thread : at[t].item \in Buffer /\ at[t].item = at[u].item => t = u
    /\ \A i \in DOMAIN query_buffer, t \in Thread : query_buffer[i] # at[t].item
    /\ \A i, j \in DOMAIN query_buffer : query_buffer[i] = query_buffer[j] => i = j
    /\ \A t \in Thread : at[t].item \in Buffer => at[t].item[2] <= made.buffer
    /\ \A i \in DOMAIN query_buffer : query_buffer[i][2] <= made.buffer

\* No step makes a buffer one that is still to be performed.
Forward == \A b \in Buffer : Before(b)' => Before(b)

LEMMA Types ==
    ASSUME Strong
    PROVE  /\ Busy \in [Con -> Thread \cup {None}] /\ at \in [Thread -> Place]
           /\ queries_queue \in Seq(Query) /\ query_buffer \in Seq(Buffer)
           /\ ThreadRunning \in BOOLEAN /\ qt \in BOOLEAN
           /\ ThreadState \in {"awaiting", "busy", "terminate"}
           /\ open \in [Con -> OpenState]
           /\ stored \subseteq Statement /\ refused \subseteq Statement
           /\ drops \in Nat /\ hurt \subseteq Item
           /\ made \in [query : 0..MaxQueries, buffer : 0..MaxBuffers]
           /\ early \subseteq Item /\ ending \in BOOLEAN
BY DEF Strong, TypeOK, Place, OpenState

LEMMA OpenStates == Closed \in OpenState /\ {} \in OpenState
BY DEF OpenState

\* Queries, buffers and Nothing are apart, and so are their statements.
LEMMA Apart ==
    /\ Query \cap Buffer = {} /\ Nothing \notin Item /\ None \notin Con
    /\ \A x \in Query, b \in Buffer : Parts(x) \cap Parts(b) = {}
    /\ \A a, b \in Buffer : a # b => Parts(a) \cap Parts(b) = {}
    /\ \A b \in Buffer : Parts(b) = Done(b, Size)
<1>1. \A x \in Query : x[1] = "query" /\ x[2] \in 1..MaxQueries
  BY DEF Query
<1>2. \A b \in Buffer : b[1] = "buffer" /\ b[2] \in 1..MaxBuffers /\ b = <<"buffer", b[2]>>
  BY DEF Buffer
<1>3. Query \cap Buffer = {}
  BY <1>1, <1>2
<1>4. Nothing \notin Item
  BY DEF Nothing, Item, Query, Buffer
<1>5. \A b \in Buffer : Parts(b) = Done(b, Size)
  BY <1>2, <1>3 DEF Parts, Done
<1>6. \A x \in Query : \A p \in Parts(x) : p[1] = "query"
  BY <1>1 DEF Parts
<1>7. \A b \in Buffer : \A p \in Parts(b) : p[1] = "buffer" /\ p[2] = b[2]
  BY <1>5 DEF Done
<1>8. \A x \in Query, b \in Buffer : Parts(x) \cap Parts(b) = {}
  BY <1>6, <1>7
<1>9. \A a, b \in Buffer : a # b => Parts(a) \cap Parts(b) = {}
  BY <1>2, <1>7
<1> QED BY <1>3, <1>4, <1>5, <1>8, <1>9, DatabaseAssumption

\* An open transaction is never mistaken for none.
LEMMA DoneOpen ==
    ASSUME NEW b \in Buffer, NEW n \in Nat, NEW s
    PROVE  Done(b, n) \ s # Closed
<1>1. \A p \in Done(b, n) : p[1] = "buffer" /\ p # Nothing
  BY DEF Done, Nothing
<1> QED BY <1>1 DEF Closed

LEMMA DoneNext ==
    ASSUME NEW b \in Buffer, NEW n \in 1..Size
    PROVE  /\ Done(b, n) = Done(b, n - 1) \cup {<<"buffer", b[2], n>>}
           /\ Done(b, n) \subseteq Parts(b) /\ Parts(b) \subseteq Statement
           /\ <<"buffer", b[2], n>> \in Parts(b)
           /\ <<"buffer", b[2], n>> \notin Done(b, n - 1)
<1>1. 1..n = (1..(n - 1)) \cup {n}
  BY DatabaseAssumption
<1>2. Done(b, n) = Done(b, n - 1) \cup {<<"buffer", b[2], n>>}
  BY <1>1 DEF Done
<1>3. Done(b, n) \subseteq Done(b, Size)
  BY DatabaseAssumption DEF Done
<1>4. Done(b, Size) \subseteq Statement
  BY Apart DEF Statement, Item
<1>5. <<"buffer", b[2], n>> \in Done(b, n) /\ <<"buffer", b[2], n>> \notin Done(b, n - 1)
  BY DEF Done
<1> QED BY <1>2, <1>3, <1>4, <1>5, Apart

\* Statements of a thread's item are not those of a buffer in another place.
LEMMA OtherParts ==
    ASSUME NEW x \in Item, NEW b \in Buffer, x # b
    PROVE  Parts(x) \cap Parts(b) = {}
BY Apart DEF Item

-----------------------------------------------------------------------------
\* How a thread moves.
Moves(t) == at' \in [Thread -> Place] /\ \A u \in Thread : u # t => at'[u] = at[u]

LEMMA Held ==
    ASSUME Strong, NEW t \in Thread, NEW item \in Item \cup {Nothing}, NEW label \in Label,
           Hold(t, item, label)
    PROVE  /\ Moves(t) /\ at'[t].pc = label /\ at'[t].item = item
           /\ at'[t].con = at[t].con /\ at'[t].part = at[t].part /\ at'[t].over = at[t].over
<1> at \in [Thread -> Place]
  BY Types
<1>1. at' = [at EXCEPT ![t].item = item, ![t].pc = label]
  BY DEF Hold
<1> QED BY <1>1 DEF Place, Moves

LEMMA Gone ==
    ASSUME Strong, NEW t \in Thread, NEW label \in Label, Goto(t, label)
    PROVE  /\ Moves(t) /\ at'[t].pc = label /\ at'[t].item = at[t].item
           /\ at'[t].con = at[t].con /\ at'[t].part = at[t].part /\ at'[t].over = at[t].over
<1> at \in [Thread -> Place]
  BY Types
<1>1. at' = [at EXCEPT ![t].pc = label]
  BY DEF Goto
<1> QED BY <1>1 DEF Place, Moves

\* A thread that comes neither from a transaction nor into one, with the
\* server unchanged.
LEMMA QuietMove ==
    ASSUME Strong, Forward, NEW t \in Thread, Moves(t), Hands(t)',
           UNCHANGED <<open, stored, refused, hurt>>,
           at[t].pc \notin {"perform", "commit"}, at'[t].pc \notin {"perform", "commit"}
    PROVE  (\A u \in Thread : Hands(u)') /\ Transactions' /\ WholeBuffers' /\ Clean'
<1>1. \A u \in Thread : u # t => at'[u] = at[u]
  BY DEF Moves
<1>2. \A u \in Thread : Hands(u)'
  BY <1>1 DEF Strong, Hands
<1>3. Transactions'
  <2>1. \A u \in Thread : Performing(u)' => Performing(u) /\ at'[u] = at[u]
    BY <1>1 DEF Performing
  <2>2. \A u \in Thread : Performing(u) => Performing(u)' /\ at'[u] = at[u]
    BY <1>1 DEF Performing
  <2> QED BY <2>1, <2>2 DEF Strong, Transactions, InTransaction
<1>4. WholeBuffers'
  BY DEF Strong, WholeBuffers
<1>5. Clean'
  BY <1>1 DEF Strong, Clean, Forward
<1> QED BY <1>2, <1>3, <1>4, <1>5

\* A thread other than Main and the execute thread: it may hand over work, and
\* what is stored stays stored.
LEMMA OthersMove ==
    ASSUME Strong, NEW t \in Thread, t # Main, t # Executor, Moves(t),
           UNCHANGED <<ThreadRunning, ThreadState, ending>>,
           stored \subseteq stored', refused \subseteq refused', hurt \subseteq hurt',
           \A x \in Query : InQueue(x) => InQueue(x)',
           \/ early' = early
           \/ ~ending /\ \A x \in (early' \cap Query) \ early : InQueue(x)'
    PROVE  Phases' /\ Kept'
<1>1. Main \in Thread /\ Executor \in Thread /\ at'[Main] = at[Main] /\ at'[Executor] = at[Executor]
  BY DEF Moves, Thread
<1>2. Phases'
  BY <1>1 DEF Strong, Phases
<1>3. Kept'
  <2> SUFFICES ASSUME NEW x \in early' \cap Query PROVE Whereabouts(x)'
    BY DEF Kept
  <2>2. CASE x \in early
    BY <1>1, <2>2 DEF Strong, Kept, Whereabouts
  <2>3. CASE x \notin early
    BY <1>1, <2>3 DEF Strong, Phases, Whereabouts
  <2> QED BY <2>2, <2>3
<1> QED BY <1>2, <1>3

\* The execute thread before its end: what it takes out of the queue it keeps
\* in its hands until it is stored.
LEMMA ExecutorMove ==
    ASSUME Strong, Moves(Executor),
           at[Executor].pc \notin {"stop", "done"}, at'[Executor].pc \notin {"stop", "done"},
           at'[Executor].over => at[Executor].over \/ ThreadState = "terminate",
           ThreadState' = "terminate" => ThreadState = "terminate", ThreadRunning => ThreadRunning',
           UNCHANGED <<early, ending>>,
           stored \subseteq stored', refused \subseteq refused', hurt \subseteq hurt',
           \A x \in Query :
              /\ InQueue(x) => InQueue(x)' \/ (at'[Executor].pc \in {"acquire", "send"}
                                               /\ at'[Executor].item = x)
              /\ at[Executor].pc \in {"acquire", "send"} /\ at[Executor].item = x
                   => \/ x \in hurt' \/ Parts(x) \subseteq stored' \cup refused'
                      \/ at'[Executor].pc \in {"acquire", "send"} /\ at'[Executor].item = x
    PROVE  Phases' /\ Kept'
<1>1. Main \in Thread /\ Executor \in Thread /\ at'[Main] = at[Main]
  BY DatabaseAssumption DEF Moves, Thread
<1>2. Phases'
  BY <1>1, Types DEF Strong, Phases
<1>3. Kept'
  <2> SUFFICES ASSUME NEW x \in early' \cap Query PROVE Whereabouts(x)'
    BY DEF Kept
  <2> QED BY <1>1 DEF Strong, Kept, Whereabouts
<1> QED BY <1>2, <1>3

LEMMA DoneParts ==
    ASSUME NEW b \in Buffer, NEW n \in 0..Size
    PROVE  Done(b, n) \subseteq Parts(b) /\ Parts(b) \subseteq Statement
<1>1. Done(b, n) \subseteq Done(b, Size)
  BY DatabaseAssumption DEF Done
<1>2. Parts(b) \subseteq Statement
  BY DEF Statement, Item
<1> QED BY <1>1, <1>2, Apart

\* A thread that has the connection c to itself sends statements of its item
\* over it, or ends its transaction.
LEMMA ServerMove ==
    ASSUME Strong, Single, Forward, ConnectionsOwned, NEW t \in Thread, Moves(t), Hands(t)',
           at[t].pc \in {"send", "begin", "perform", "commit"}, at'[t].con = at[t].con,
           at'[t].item \in {at[t].item, Nothing},
           \A d \in Con : d # at[t].con => open'[d] = open[d],
           hurt \subseteq hurt',
           stored \subseteq stored', stored' \subseteq stored \cup Parts(at[t].item),
           refused \subseteq refused', refused' \subseteq refused \cup Parts(at[t].item),
           at[t].pc = "begin" => stored' = stored /\ refused' = refused,
           Performing(t)' => InTransaction(t)',
           ~Performing(t)' => open'[at[t].con] = Closed,
           at[t].item \in Buffer \ hurt' =>
              Parts(at[t].item) \cap stored' \in {{}, Parts(at[t].item) \ refused'},
           at'[t].pc = "perform" =>
              Parts(at[t].item) \cap refused' \subseteq Done(at[t].item, at'[t].part - 1)
    PROVE  (\A u \in Thread : Hands(u)') /\ Transactions' /\ WholeBuffers' /\ Clean'
<1> DEFINE c == at[t].con
           x == at[t].item
<1>1. \A u \in Thread : u # t => at'[u] = at[u]
  BY DEF Moves
<1>2. c \in Con /\ Busy[c] = t /\ x \in Item
  BY Types DEF Strong, Hands, ConnectionsOwned, Place, Item
<1>3. \A u \in Thread : Hands(u)'
  BY <1>1 DEF Strong, Hands
<1>4. ASSUME NEW u \in Thread, u # t, Performing(u)
      PROVE  /\ at[u].con \in Con /\ at[u].con # c
             /\ at[u].item \in Buffer /\ at[u].item # x
             /\ at[u].pc = "perform" => at[u].part \in 1..Size
  <2>1. /\ at[u].con \in Con /\ Busy[at[u].con] = u /\ at[u].item \in Buffer
        /\ at[u].pc = "perform" => at[u].part \in 1..Size
    BY <1>4, Types DEF Strong, Hands, ConnectionsOwned, Place, Performing
  <2>2. at[u].item # x
    BY <1>4, <2>1 DEF Single
  <2> QED BY <1>2, <1>4, <2>1, <2>2
<1>5. ASSUME NEW b \in Buffer, b # x
      PROVE  Parts(b) \cap stored' = Parts(b) \cap stored /\ Parts(b) \cap refused' = Parts(b) \cap refused
  <2>1. Parts(x) \cap Parts(b) = {}
    BY <1>2, <1>5, OtherParts
  <2> QED BY <2>1
<1>6. Transactions'
  <2>1. ASSUME NEW u \in Thread, u # t, Performing(u)'
        PROVE  InTransaction(u)'
    <3> DEFINE b == at[u].item
               n == IF at[u].pc = "perform" THEN at[u].part - 1 ELSE Size
    <3>1. Performing(u) /\ at'[u] = at[u]
      BY <1>1, <2>1 DEF Performing
    <3>2. b \in Buffer /\ b # x /\ n \in 0..Size /\ open'[at[u].con] = open[at[u].con]
      BY <1>4, <2>1, <3>1, DatabaseAssumption
    <3>3. /\ open[at[u].con] = Closed \/ open[at[u].con] \subseteq Parts(b)
          /\ b \notin hurt => open[at[u].con] = Done(b, n) \ refused /\ Parts(b) \cap stored = {}
      BY <3>1 DEF Strong, Transactions, InTransaction
    <3>4. Done(b, n) \subseteq Parts(b)
      BY <3>2, DoneParts
    <3> HIDE DEF b, n
    <3>5. Parts(b) \cap stored' = Parts(b) \cap stored /\ Parts(b) \cap refused' = Parts(b) \cap refused
      BY <1>5, <3>2
    <3>6. Done(b, n) \ refused' = Done(b, n) \ refused
      BY <3>4, <3>5
    <3>7. /\ open'[at[u].con] = Closed \/ open'[at[u].con] \subseteq Parts(b)
          /\ b \notin hurt' => open'[at[u].con] = Done(b, n) \ refused' /\ Parts(b) \cap stored' = {}
      BY <3>2, <3>3, <3>5, <3>6
    <3> QED BY <3>1, <3>7 DEF InTransaction, b, n
  <2>2. ASSUME NEW d \in Con, open'[d] # Closed
        PROVE  \E u \in Thread : Performing(u)' /\ at'[u].con = d
    <3>1. CASE d = c
      BY <2>2, <3>1
    <3>2. CASE d # c
      <4>1. PICK u \in Thread : Performing(u) /\ at[u].con = d
        BY <2>2, <3>2 DEF Strong, Transactions
      <4> QED BY <1>1, <3>2, <4>1 DEF Performing
    <3> QED BY <3>1, <3>2
  <2> QED BY <2>1, <2>2 DEF Transactions
<1>7. WholeBuffers'
  <2>1. ASSUME NEW b \in Buffer, b \notin hurt'
        PROVE  Parts(b) \cap stored' \in {{}, Parts(b) \ refused'}
    <3>1. CASE b = x
      BY <2>1, <3>1
    <3>2. CASE b # x
      <4>1. Parts(b) \cap stored' = Parts(b) \cap stored /\ Parts(b) \cap refused' = Parts(b) \cap refused
        BY <1>5, <3>2
      <4>2. Parts(b) \cap stored \in {{}, Parts(b) \ refused}
        BY <2>1 DEF Strong, WholeBuffers
      <4> QED BY <4>1, <4>2
    <3> QED BY <3>1, <3>2
  <2>2. ASSUME NEW d \in Con, open'[d] # Closed
        PROVE  \E b \in Buffer : open'[d] \subseteq Parts(b)
    <3>1. PICK u \in Thread : Performing(u)' /\ at'[u].con = d
      BY <1>6, <2>2 DEF Transactions
    <3>2. at'[u].item \in Buffer
      BY <1>3, <3>1 DEF Hands, Performing
    <3>3. open'[d] \subseteq Parts(at'[u].item)
      BY <1>6, <2>2, <3>1 DEF Transactions, InTransaction
    <3> QED BY <3>2, <3>3
  <2> QED BY <2>1, <2>2 DEF WholeBuffers
<1>8. Clean'
  <2>1. ASSUME NEW b \in Buffer, Before(b)'
        PROVE  Parts(b) \cap (stored' \cup refused') = {}
    <3>1. Before(b) /\ Parts(b) \cap (stored \cup refused) = {}
      BY <2>1 DEF Forward, Strong, Clean
    <3>2. CASE b # x
      BY <1>5, <3>1, <3>2
    <3>3. CASE b = x /\ at[t].pc = "begin"
      BY <3>1, <3>3
    <3>4. CASE b = x /\ at[t].pc # "begin"
      <4>1. Performing(t)
        BY <2>1, <3>4, Apart DEF Strong, Hands, Performing
      <4>2. \A u \in Thread : at[u].item = b => u = t
        BY <3>4 DEF Single
      <4>3. b[2] <= made.buffer /\ \A i \in DOMAIN query_buffer : query_buffer[i] # b
        BY <3>4 DEF Single
      <4>4. b[2] \in Int /\ made.buffer \in Int
        BY Types DEF Buffer
      <4> QED BY <3>1, <4>1, <4>2, <4>3, <4>4 DEF Before
    <3> QED BY <3>2, <3>3, <3>4
  <2>2. ASSUME NEW u \in Thread, at'[u].pc = "perform"
        PROVE  Parts(at'[u].item) \cap refused' \subseteq Done(at'[u].item, at'[u].part - 1)
    <3>1. CASE u = t
      <4>1. at'[t].item = x
        BY <2>2, <3>1, Apart DEF Hands, Item
      <4> QED BY <2>2, <3>1, <4>1
    <3>2. CASE u # t
      <4>1. at'[u] = at[u] /\ Performing(u)
        BY <1>1, <2>2, <3>2 DEF Performing
      <4>2. Parts(at[u].item) \cap refused' = Parts(at[u].item) \cap refused
        BY <1>4, <1>5, <3>2, <4>1
      <4>3. Parts(at[u].item) \cap refused \subseteq Done(at[u].item, at[u].part - 1)
        BY <2>2, <4>1 DEF Strong, Clean
      <4> QED BY <4>1, <4>2, <4>3
    <3> QED BY <3>1, <3>2
  <2> QED BY <2>1, <2>2 DEF Clean
<1> QED BY <1>3, <1>6, <1>7, <1>8

-----------------------------------------------------------------------------
\* What a step with a connection, or for one, leaves.
Used(t) ==
    /\ Moves(t) /\ TypeOK'
    /\ (\A u \in Thread : Hands(u)') /\ Transactions' /\ WholeBuffers' /\ Clean'
    /\ {at[t].pc, at'[t].pc} \cap {"stop", "done"} = {} /\ at'[t].over = at[t].over
    /\ stored \subseteq stored' /\ refused \subseteq refused' /\ hurt \subseteq hurt'
    /\ \A x \in Query :
         at[t].pc \in {"acquire", "send"} /\ at[t].item = x
           => \/ x \in hurt' \/ Parts(x) \subseteq stored' \cup refused'
              \/ at'[t].pc \in {"acquire", "send"} /\ at'[t].item = x

LEMMA UsedFree ==
    ASSUME Strong, Forward, NEW t \in Thread, GetFreeConnection(t)
    PROVE  Used(t)
<1> USE DEF queues, flags, server, history
<1> at \in [Thread -> Place]
  BY Types, DatabaseAssumption
<1> DEFINE label == IF at[t].item \in Query THEN "send"
                    ELSE IF at[t].item \in Buffer THEN "begin"
                    ELSE IF t = Executor THEN "test"
                    ELSE IF t = Querier THEN "pop" ELSE "release"
<1>1. PICK c \in Con : /\ Busy' = [Busy EXCEPT ![c] = t]
                      /\ at' = [at EXCEPT ![t].con = c, ![t].pc = label]
  BY DEF GetFreeConnection
<1>2. /\ label \in {"send", "begin", "test", "pop", "release"}
      /\ label = "send" => at[t].item \in Query
      /\ label = "begin" => at[t].item \in Buffer
      /\ at[t].item \in Query => label = "send"
  OBVIOUS
<1> HIDE DEF label
<1>3. label \in Label
  BY <1>2 DEF Label
<1>4. /\ Moves(t) /\ at'[t].pc = label /\ at'[t].con = c
      /\ at'[t].item = at[t].item /\ at'[t].part = at[t].part /\ at'[t].over = at[t].over
  BY <1>1, <1>3 DEF Place, Moves
<1>5. Hands(t)'
  BY <1>2, <1>4, Apart DEF Strong, Hands
<1>6. TypeOK'
  BY <1>1, <1>4, Types DEF GetFreeConnection, TypeOK, Moves, Place, OpenState
<1>7. at[t].pc = "acquire" /\ UNCHANGED <<open, stored, refused, hurt>>
  BY DEF GetFreeConnection
<1>8. (\A u \in Thread : Hands(u)') /\ Transactions' /\ WholeBuffers' /\ Clean'
  BY <1>2, <1>4, <1>5, <1>7, QuietMove
<1> QED BY <1>2, <1>4, <1>6, <1>7, <1>8 DEF Used

LEMMA UsedRelease ==
    ASSUME Strong, Forward, NEW t \in Thread, Release(t)
    PROVE  Used(t)
<1> USE DEF queues, flags, server, history
<1> at \in [Thread -> Place]
  BY Types, DatabaseAssumption
<1> DEFINE label == IF t \in Caller THEN "idle" ELSE "pop"
<1>1. at' = [at EXCEPT ![t].con = None, ![t].pc = label]
  BY DEF Release
<1>2. label \in {"idle", "pop"} /\ label \in Label
  BY DEF Label
<1> HIDE DEF label
<1>3. /\ Moves(t) /\ at'[t].pc = label
      /\ at'[t].item = at[t].item /\ at'[t].part = at[t].part /\ at'[t].over = at[t].over
  BY <1>1, <1>2 DEF Place, Moves
<1>4. Hands(t)'
  BY <1>2, <1>3 DEF Strong, Hands
<1>5. TypeOK'
  BY <1>3, Types DEF Release, Freed, TypeOK, Moves, Place, OpenState
<1>6. at[t].pc = "release" /\ UNCHANGED <<open, stored, refused, hurt>>
  BY DEF Release
<1>7. (\A u \in Thread : Hands(u)') /\ Transactions' /\ WholeBuffers' /\ Clean'
  BY <1>2, <1>3, <1>4, <1>6, QuietMove
<1> QED BY <1>2, <1>3, <1>5, <1>6, <1>7 DEF Used

\* A transaction that the server gives up is that of the thread's item.
LEMMA Drops ==
    ASSUME Strong, NEW t \in Thread, at[t].con \in Con, at[t].item \in Item, Dropped(t)
    PROVE  /\ drops' \in Nat /\ hurt' \subseteq Item /\ hurt \subseteq hurt' /\ at[t].item \in hurt'
           /\ open' \in [Con -> OpenState] /\ open'[at[t].con] = Closed
           /\ \A d \in Con : d # at[t].con => open'[d] = open[d]
BY Types, OpenStates DEF Dropped

\* One statement is executed, in the transaction if there is one, or refused, or
\* the item is hurt.
LEMMA Sends ==
    ASSUME Strong, NEW t \in Thread, at[t].con \in Con, at[t].item \in Item,
           NEW s \in SUBSET Statement, SendQuery(t, s)
    PROVE  /\ drops' \in Nat /\ hurt' \subseteq Item /\ hurt \subseteq hurt'
           /\ stored' \subseteq Statement /\ stored \subseteq stored' /\ stored' \subseteq stored \cup s
           /\ refused' \subseteq Statement /\ refused \subseteq refused' /\ refused' \subseteq refused \cup s
           /\ open' \in [Con -> OpenState]
           /\ \A d \in Con : d # at[t].con => open'[d] = open[d]
           /\ \/ /\ open[at[t].con] = Closed /\ open'[at[t].con] = Closed
                 /\ stored' = stored \cup s /\ refused' = refused /\ hurt' = hurt
              \/ /\ open[at[t].con] # Closed /\ open'[at[t].con] = open[at[t].con] \cup s
                 /\ stored' = stored /\ refused' = refused /\ hurt' = hurt
              \/ /\ refused' = refused \cup s
                 /\ open' = open /\ stored' = stored /\ hurt' = hurt
              \/ at[t].item \in hurt' /\ open'[at[t].con] = Closed
<1> DEFINE c == at[t].con
<1>1. CASE open[c] = Closed /\ stored' = stored \cup s /\ UNCHANGED <<open, refused, drops, hurt>>
  BY <1>1, Types
<1>2. CASE /\ open[c] # Closed /\ open' = [open EXCEPT ![c] = @ \cup s]
           /\ UNCHANGED <<stored, refused, drops, hurt>>
  <2>1. open[c] \cup s \in OpenState
    BY <1>2, Types DEF OpenState
  <2> QED BY <1>2, <2>1, Types
<1>3. CASE refused' = refused \cup s /\ UNCHANGED <<open, stored, drops, hurt>>
  BY <1>3, Types
<1>4. CASE Dropped(t) /\ stored' \in {stored, stored \cup s} /\ UNCHANGED refused
  BY <1>4, Types, Drops
<1> QED BY <1>1, <1>2, <1>3, <1>4 DEF SendQuery

LEMMA UsedSend ==
    ASSUME Strong, Single, Forward, ConnectionsOwned, NEW t \in Thread, Send(t)
    PROVE  Used(t)
<1> USE DEF queues, flags, history
<1> DEFINE c == at[t].con
           x == at[t].item
           label == IF t = Executor /\ ~at[t].over THEN "test" ELSE "release"
<1>1. c \in Con /\ Busy[c] = t /\ x \in Query /\ at[t].pc = "send" /\ x \in Item
  BY Types DEF Send, Strong, Hands, ConnectionsOwned, Place, Item
<1>2. Parts(x) \in SUBSET Statement
  BY <1>1 DEF Statement
<1>3. open[c] = Closed
  <2>1. \A u \in Thread : Performing(u) => at[u].con # c
    BY <1>1, Types DEF Strong, Hands, ConnectionsOwned, Place, Performing
  <2> QED BY <1>1, <2>1 DEF Strong, Transactions
<1>4. /\ drops' \in Nat /\ hurt' \subseteq Item /\ hurt \subseteq hurt'
      /\ stored' \subseteq Statement /\ stored \subseteq stored' /\ stored' \subseteq stored \cup Parts(x)
      /\ refused' \subseteq Statement /\ refused \subseteq refused' /\ refused' \subseteq refused \cup Parts(x)
      /\ open' \in [Con -> OpenState] /\ open'[c] = Closed
      /\ \A d \in Con : d # c => open'[d] = open[d]
      /\ x \in hurt' \/ Parts(x) \subseteq stored' \cup refused'
  BY <1>1, <1>2, <1>3, Sends DEF Send
<1>5. label \in {"test", "release"} /\ label \in Label /\ Hold(t, Nothing, label)
  BY DEF Send, Label
<1>6. /\ Moves(t) /\ at'[t].pc = label /\ at'[t].item = Nothing
      /\ at'[t].con = c /\ at'[t].part = at[t].part /\ at'[t].over = at[t].over
  BY <1>5, Held
<1> HIDE DEF label
<1>7. Hands(t)'
  BY <1>5, <1>6 DEF Strong, Hands
<1>8. (\A u \in Thread : Hands(u)') /\ Transactions' /\ WholeBuffers' /\ Clean'
  <2>1. x \notin Buffer /\ ~Performing(t)' /\ at'[t].pc # "perform"
    BY <1>1, <1>5, <1>6, Apart DEF Performing
  <2> QED BY <1>1, <1>4, <1>6, <1>7, <2>1, ServerMove
<1>9. TypeOK'
  BY <1>4, <1>6, Types DEF Send, TypeOK, Moves, Place, OpenState
<1> QED BY <1>1, <1>4, <1>5, <1>6, <1>8, <1>9 DEF Used

LEMMA UsedBegin ==
    ASSUME Strong, Single, Forward, ConnectionsOwned, NEW t \in Thread, Begin(t)
    PROVE  Used(t)
<1> USE DEF queues, flags, history
<1> at \in [Thread -> Place]
  BY Types
<1> DEFINE c == at[t].con
           b == at[t].item
<1>1. c \in Con /\ b \in Buffer /\ at[t].pc = "begin" /\ b \in Item
  BY Types DEF Begin, Strong, Hands, Place, Item
<1>2. /\ drops' \in Nat /\ hurt' \subseteq Item /\ hurt \subseteq hurt'
      /\ open' \in [Con -> OpenState]
      /\ \A d \in Con : d # c => open'[d] = open[d]
      /\ open'[c] = {} \/ (open'[c] = Closed /\ b \in hurt')
      /\ stored' = stored /\ refused' = refused
  <2>1. CASE open' = [open EXCEPT ![c] = {}] /\ drops' \in {drops, drops + 1} /\ UNCHANGED hurt
    BY <1>1, <2>1, OpenStates, Types DEF Begin
  <2>2. CASE Dropped(t)
    BY <1>1, <2>2, Drops DEF Begin
  <2> QED BY <2>1, <2>2 DEF Begin
<1>3. at' = [at EXCEPT ![t].part = 1, ![t].pc = "perform"] /\ 1 \in 0..Size /\ "perform" \in Label
  BY DatabaseAssumption DEF Begin, Label
<1>4. /\ Moves(t) /\ at'[t].pc = "perform" /\ at'[t].item = b
      /\ at'[t].con = c /\ at'[t].part = 1 /\ at'[t].over = at[t].over
  BY <1>3 DEF Place, Moves
<1>5. Hands(t)'
  BY <1>1, <1>4, Apart, DatabaseAssumption DEF Strong, Hands
<1>6. Parts(b) \cap (stored \cup refused) = {}
  <2>1. Before(b)
    BY <1>1 DEF Before, Performing
  <2> QED BY <1>1, <2>1 DEF Strong, Clean
<1>7. Done(b, 1 - 1) = {}
  BY DEF Done
<1>8. InTransaction(t)' /\ Performing(t)'
  BY <1>2, <1>4, <1>6, <1>7 DEF InTransaction, Performing
<1>9. (\A u \in Thread : Hands(u)') /\ Transactions' /\ WholeBuffers' /\ Clean'
  <2>1. Parts(b) \cap stored' = {} /\ Parts(b) \cap refused' = {}
    BY <1>2, <1>6
  <2> QED BY <1>1, <1>2, <1>4, <1>5, <1>8, <2>1, ServerMove
<1>10. TypeOK'
  BY <1>2, <1>4, Types DEF Begin, TypeOK, Moves, Place, OpenState
<1> QED BY <1>1, <1>2, <1>4, <1>9, <1>10 DEF Used

LEMMA UsedPerform ==
    ASSUME Strong, Single, Forward, ConnectionsOwned, NEW t \in Thread, Perform(t)
    PROVE  Used(t)
<1> USE DEF queues, flags, history
<1> at \in [Thread -> Place]
  BY Types
<1> DEFINE c == at[t].con
           b == at[t].item
           n == at[t].part
           p == <<"buffer", b[2], n>>
           next == IF n = Size THEN 0 ELSE n + 1
           label == IF n = Size THEN "commit" ELSE "perform"
<1>1. c \in Con /\ b \in Buffer /\ at[t].pc = "perform" /\ n \in 1..Size /\ b \in Item
  BY Types DEF Perform, Strong, Hands, Place, Item
<1>2. /\ Done(b, n) = Done(b, n - 1) \cup {p} /\ p \notin Done(b, n - 1)
      /\ p \in Parts(b) /\ Done(b, n) \subseteq Parts(b) /\ {p} \in SUBSET Statement
  BY <1>1, DoneNext
<1>3. /\ drops' \in Nat /\ hurt' \subseteq Item /\ hurt \subseteq hurt'
      /\ stored' \subseteq Statement /\ stored \subseteq stored' /\ stored' \subseteq stored \cup {p}
      /\ refused' \subseteq Statement /\ refused \subseteq refused' /\ refused' \subseteq refused \cup {p}
      /\ open' \in [Con -> OpenState]
      /\ \A d \in Con : d # c => open'[d] = open[d]
      /\ \/ /\ open[c] = Closed /\ open'[c] = Closed
            /\ stored' = stored \cup {p} /\ refused' = refused /\ hurt' = hurt
         \/ /\ open[c] # Closed /\ open'[c] = open[c] \cup {p}
            /\ stored' = stored /\ refused' = refused /\ hurt' = hurt
         \/ /\ refused' = refused \cup {p}
            /\ open' = open /\ stored' = stored /\ hurt' = hurt
         \/ b \in hurt' /\ open'[c] = Closed
  <2>1. SendQuery(t, {p})
    BY DEF Perform
  <2> HIDE DEF p
  <2> QED BY <1>1, <1>2, <2>1, Sends
<1>4. /\ open[c] = Closed \/ open[c] \subseteq Parts(b)
      /\ b \notin hurt => open[c] = Done(b, n - 1) \ refused /\ Parts(b) \cap stored = {}
  BY <1>1 DEF Strong, Transactions, InTransaction, Performing
<1>5. Parts(b) \cap refused \subseteq Done(b, n - 1)
  BY <1>1 DEF Strong, Clean
<1>6. Done(b, n - 1) \ refused # Closed
  <2>1. n - 1 \in Nat
    BY <1>1, DatabaseAssumption
  <2> HIDE DEF b, n
  <2> QED BY <1>1, <2>1, DoneOpen
<1> HIDE DEF p
<1>7. /\ open'[c] = Closed \/ open'[c] \subseteq Parts(b)
      /\ b \notin hurt' => /\ open'[c] = Done(b, n) \ refused'
                           /\ Parts(b) \cap stored' = {}
  <2>1. open'[c] = Closed \/ open'[c] \subseteq Parts(b)
    BY <1>2, <1>3, <1>4
  <2>2. ASSUME b \notin hurt'
        PROVE  open'[c] = Done(b, n) \ refused' /\ Parts(b) \cap stored' = {}
    <3>1. b \notin hurt /\ open[c] = Done(b, n - 1) \ refused /\ open[c] # Closed
      BY <1>3, <1>4, <1>6, <2>2
    <3>2. CASE open'[c] = open[c] \cup {p} /\ stored' = stored /\ refused' = refused
      <4>1. p \notin refused
        BY <1>2, <1>5
      <4> QED BY <1>2, <1>4, <3>1, <3>2, <4>1
    <3>3. CASE refused' = refused \cup {p} /\ open' = open /\ stored' = stored
      BY <1>2, <1>4, <3>1, <3>3
    <3> QED BY <1>3, <2>2, <3>1, <3>2, <3>3
  <2> QED BY <2>1, <2>2
<1>8. at' = [at EXCEPT ![t].part = next, ![t].pc = label]
  BY DEF Perform
<1>9. /\ next \in 0..Size /\ label \in Label /\ label \in {"perform", "commit"}
      /\ label = "perform" => next \in 1..Size /\ next - 1 = n
      /\ label = "commit" => n = Size
  BY <1>1, DatabaseAssumption DEF Label
<1> HIDE DEF next, label
<1>10. /\ Moves(t) /\ at'[t].pc = label /\ at'[t].item = b
       /\ at'[t].con = c /\ at'[t].part = next /\ at'[t].over = at[t].over
  BY <1>8, <1>9 DEF Place, Moves
<1>11. Hands(t)'
  BY <1>1, <1>9, <1>10, Apart DEF Strong, Hands
<1>12. InTransaction(t)' /\ Performing(t)'
  <2>1. (IF label = "perform" THEN next - 1 ELSE Size) = n
    BY <1>9
  <2> QED BY <1>7, <1>9, <1>10, <2>1 DEF InTransaction, Performing
<1>13. (\A u \in Thread : Hands(u)') /\ Transactions' /\ WholeBuffers' /\ Clean'
  <2>1. label = "perform" => Parts(b) \cap refused' \subseteq Done(b, next - 1)
    BY <1>2, <1>3, <1>5, <1>9
  <2>2. stored' \subseteq stored \cup Parts(b) /\ refused' \subseteq refused \cup Parts(b)
    BY <1>2, <1>3
  <2>3. b \notin hurt' => Parts(b) \cap stored' \in {{}, Parts(b) \ refused'}
    BY <1>7
  <2> QED BY <1>1, <1>3, <1>10, <1>11, <1>12, <2>1, <2>2, <2>3, ServerMove
<1>14. TypeOK'
  BY <1>3, <1>10, Types DEF Perform, TypeOK, Moves, Place, OpenState
<1> QED BY <1>1, <1>3, <1>9, <1>10, <1>13, <1>14 DEF Used

LEMMA UsedCommit ==
    ASSUME Strong, Single, Forward, ConnectionsOwned, NEW t \in Thread, Commit(t)
    PROVE  Used(t)
<1> USE DEF queues, flags, history
<1> DEFINE c == at[t].con
           b == at[t].item
           label == IF t = Querier /\ ~at[t].over THEN "test" ELSE "release"
<1>1. c \in Con /\ b \in Buffer /\ at[t].pc = "commit" /\ b \in Item
  BY Types DEF Commit, Strong, Hands, Place, Item
<1>2. /\ Transaction(c) \subseteq Parts(b) /\ Parts(b) \subseteq Statement
      /\ b \notin hurt => Transaction(c) = Parts(b) \ refused /\ Parts(b) \cap stored = {}
  <2>1. /\ open[c] = Closed \/ open[c] \subseteq Parts(b)
        /\ b \notin hurt => open[c] = Done(b, Size) \ refused /\ Parts(b) \cap stored = {}
    BY <1>1 DEF Strong, Transactions, InTransaction, Performing
  <2>2. Done(b, Size) \ refused # Closed /\ Done(b, Size) = Parts(b)
    BY <1>1, DoneOpen, DatabaseAssumption, Apart
  <2>3. Parts(b) \subseteq Statement
    BY <1>1 DEF Statement
  <2> QED BY <2>1, <2>2, <2>3 DEF Transaction
<1>3. /\ drops' \in Nat /\ hurt' \subseteq Item /\ hurt \subseteq hurt'
      /\ stored' \in {stored, stored \cup Transaction(c)} /\ refused' = refused
      /\ open' \in [Con -> OpenState] /\ open'[c] = Closed
      /\ \A d \in Con : d # c => open'[d] = open[d]
      /\ b \notin hurt' => stored' = stored \cup Transaction(c)
  <2>1. CASE /\ stored' = stored \cup Transaction(c)
             /\ open' = [open EXCEPT ![c] = Closed]
             /\ UNCHANGED <<drops, hurt>>
    BY <1>1, <2>1, OpenStates, Types DEF Commit
  <2>2. CASE Dropped(t) /\ stored' \in {stored, stored \cup Transaction(c)}
    BY <1>1, <2>2, Drops DEF Commit
  <2> QED BY <2>1, <2>2 DEF Commit
<1> HIDE DEF c
<1>4. /\ stored' \subseteq Statement /\ stored \subseteq stored' /\ stored' \subseteq stored \cup Parts(b)
      /\ b \notin hurt' => Parts(b) \cap stored' = Parts(b) \ refused'
  BY <1>2, <1>3, Types
<1> USE DEF c
<1>5. label \in {"test", "release"} /\ label \in Label /\ Hold(t, Nothing, label)
  BY DEF Commit, Label
<1>6. /\ Moves(t) /\ at'[t].pc = label /\ at'[t].item = Nothing
      /\ at'[t].con = c /\ at'[t].part = at[t].part /\ at'[t].over = at[t].over
  BY <1>5, Held
<1> HIDE DEF label
<1>7. Hands(t)'
  BY <1>5, <1>6 DEF Strong, Hands
<1>8. (\A u \in Thread : Hands(u)') /\ Transactions' /\ WholeBuffers' /\ Clean'
  <2>1. ~Performing(t)' /\ at'[t].pc # "perform"
    BY <1>5, <1>6 DEF Performing
  <2> QED BY <1>1, <1>3, <1>4, <1>6, <1>7, <2>1, ServerMove
<1>9. TypeOK'
  BY <1>3, <1>4, <1>6, Types DEF Commit, TypeOK, Moves, Place, OpenState
<1> QED BY <1>1, <1>3, <1>4, <1>5, <1>6, <1>8, <1>9 DEF Used

\* Any of these steps of a caller, the execute thread or the query thread.
LEMMA UseStrong ==
    ASSUME Strong, Single, Forward, ConnectionsOwned, NEW t \in Thread, t # Main, UseConnection(t)
    PROVE  Strong'
<1>1. Used(t)
  BY UsedFree, UsedSend, UsedRelease, UsedBegin, UsedPerform, UsedCommit DEF UseConnection
<1>2. UNCHANGED <<queries_queue, ThreadRunning, ThreadState, early, ending>>
  BY DEF UseConnection, GetFreeConnection, Send, Release, Begin, Perform, Commit,
         queues, flags, history
<1>3. \A x \in Query : InQueue(x)' <=> InQueue(x)
  BY <1>2 DEF InQueue
<1>4. CASE t = Executor
  <2>1. Phases' /\ Kept'
    BY <1>1, <1>2, <1>3, <1>4, ExecutorMove DEF Used
  <2> QED BY <1>1, <2>1 DEF Used, Strong
<1>5. CASE t # Executor
  <2>1. Phases' /\ Kept'
    BY <1>1, <1>2, <1>3, <1>5, OthersMove DEF Used
  <2> QED BY <1>1, <2>1 DEF Used, Strong
<1> QED BY <1>4, <1>5

-----------------------------------------------------------------------------
\* What is in a queue after an end is added, or the head taken.
LEMMA QueueEnds ==
    ASSUME NEW S, NEW q \in Seq(S), NEW y \in S
    PROVE  /\ Append(q, y) \in Seq(S)
           /\ \E i \in DOMAIN Append(q, y) : Append(q, y)[i] = y
           /\ \A x : (\E i \in DOMAIN q : q[i] = x)
                       => \E i \in DOMAIN Append(q, y) : Append(q, y)[i] = x
OBVIOUS

LEMMA QueueHead ==
    ASSUME NEW S, NEW q \in Seq(S), q # <<>>
    PROVE  /\ Head(q) \in S /\ Tail(q) \in Seq(S)
           /\ \A x : (\E i \in DOMAIN q : q[i] = x)
                       => x = Head(q) \/ \E i \in DOMAIN Tail(q) : Tail(q)[i] = x
<1>1. Head(q) \in S /\ Tail(q) \in Seq(S) /\ Len(q) \in Nat \ {0} /\ Len(Tail(q)) = Len(q) - 1
  OBVIOUS
<1>2. ASSUME NEW x, NEW i \in DOMAIN q, q[i] = x
      PROVE  x = Head(q) \/ \E j \in DOMAIN Tail(q) : Tail(q)[j] = x
  <2>1. CASE i = 1
    BY <1>2, <2>1
  <2>2. CASE i # 1
    <3>1. i - 1 \in DOMAIN Tail(q) /\ Tail(q)[i - 1] = q[i]
      BY <1>1, <2>2
    <3> QED BY <1>2, <3>1
  <2> QED BY <2>1, <2>2
<1> QED BY <1>1, <1>2

\* The queue of queries after Queued(y).
LEMMA QueuedTo ==
    ASSUME Strong, NEW y \in Item, Queued(y)
    PROVE  /\ queries_queue' \in Seq(Query) /\ query_buffer' \in Seq(Buffer)
           /\ \A x \in Query : InQueue(x) \/ x = y => InQueue(x)'
<1>1. CASE y \in Query
  <2>1. queries_queue' = Append(queries_queue, y) /\ query_buffer' = query_buffer
    BY <1>1 DEF Queued
  <2>2. /\ Append(queries_queue, y) \in Seq(Query)
        /\ \E i \in DOMAIN Append(queries_queue, y) : Append(queries_queue, y)[i] = y
        /\ \A x : (\E i \in DOMAIN queries_queue : queries_queue[i] = x)
              => \E i \in DOMAIN Append(queries_queue, y) : Append(queries_queue, y)[i] = x
    <3>1. queries_queue \in Seq(Query)
      BY Types
    <3> QED BY <1>1, <3>1, QueueEnds
  <2> QED BY <2>1, <2>2, Types DEF InQueue
<1>2. CASE y \notin Query
  <2>1. query_buffer' = Append(query_buffer, y) /\ queries_queue' = queries_queue /\ y \in Buffer
    BY <1>2 DEF Queued, Item
  <2> QED BY <1>2, <2>1, Types, QueueEnds DEF InQueue
<1> QED BY <1>1, <1>2

-----------------------------------------------------------------------------
\* Every buffer stays in one place.

\* The thread keeps what it has in its hands, or has no buffer any more.
LEMMA SingleKept ==
    ASSUME Strong, Single, NEW t \in Thread, Moves(t),
           UNCHANGED query_buffer, made'.buffer = made.buffer,
           at'[t].item = at[t].item \/ at'[t].item \notin Buffer,
           at'[t].item = at[t].item /\ Performing(t) => Performing(t)'
    PROVE  Single' /\ Forward
<1>1. \A u \in Thread : u # t => at'[u] = at[u]
  BY DEF Moves
<1>2. \A u \in Thread : at'[u].item = at[u].item \/ at'[u].item \notin Buffer
  BY <1>1
<1>3. \A i \in DOMAIN query_buffer : query_buffer[i] \in Buffer
  BY Types
<1>4. Single'
  BY <1>2, <1>3 DEF Single
<1>5. \A u \in Thread : at'[u].item = at[u].item /\ Performing(u) => Performing(u)'
  BY <1>1 DEF Performing
<1>6. ASSUME NEW b \in Buffer, Before(b)'
      PROVE  Before(b)
  BY <1>2, <1>5, <1>6 DEF Before
<1> QED BY <1>4, <1>6 DEF Forward

\* It takes the first buffer of the queue.
LEMMA SingleTaken ==
    ASSUME Strong, Single, NEW t \in Thread, Moves(t), query_buffer # <<>>,
           query_buffer' = Tail(query_buffer), at'[t].item = Head(query_buffer), made' = made
    PROVE  Single' /\ Forward
<1> DEFINE q == query_buffer
           l == Len(q) - 1
<1>1. \A u \in Thread : u # t => at'[u] = at[u]
  BY DEF Moves
<1>2. /\ q \in Seq(Buffer) /\ Len(q) \in Nat \ {0} /\ l \in Nat
      /\ DOMAIN q = 1 .. Len(q) /\ DOMAIN q' = 1 .. l
      /\ \A i \in 1 .. l : q'[i] = q[i + 1]
      /\ Head(q) = q[1] /\ 1 \in DOMAIN q
  BY Types
<1>3. \A i \in DOMAIN q' : i + 1 \in DOMAIN q /\ i + 1 # 1 /\ q'[i] = q[i + 1] /\ i \in Int
  BY <1>2
<1> HIDE DEF q, l
<1>4. \A u \in Thread : at'[u].item = at[u].item \/ (u = t /\ at'[u].item = q[1])
  BY <1>1, <1>2 DEF q
<1>5. /\ \A u, v \in Thread : at[u].item \in Buffer /\ at[u].item = at[v].item => u = v
      /\ \A i \in DOMAIN q, u \in Thread : q[i] # at[u].item
      /\ \A i, j \in DOMAIN q : q[i] = q[j] => i = j
      /\ \A u \in Thread : at[u].item \in Buffer => at[u].item[2] <= made.buffer
      /\ \A i \in DOMAIN q : q[i][2] <= made.buffer
  BY DEF Single, q
<1>6. Single'
  <2>1. ASSUME NEW u \in Thread, NEW v \in Thread, at'[u].item \in Buffer, at'[u].item = at'[v].item
        PROVE  u = v
    BY <1>1, <1>2, <1>4, <1>5, <2>1
  <2>2. ASSUME NEW i \in DOMAIN q', NEW u \in Thread
        PROVE  q'[i] # at'[u].item
    BY <1>2, <1>3, <1>4, <1>5, <2>2
  <2>3. ASSUME NEW i \in DOMAIN q', NEW j \in DOMAIN q', q'[i] = q'[j]
        PROVE  i = j
    <3>1. i + 1 = j + 1
      BY <1>3, <1>5, <2>3
    <3> QED BY <1>3, <3>1
  <2>4. \A u \in Thread : at'[u].item \in Buffer => at'[u].item[2] <= made'.buffer
    BY <1>2, <1>4, <1>5
  <2>5. \A i \in DOMAIN q' : q'[i][2] <= made'.buffer
    BY <1>3, <1>5
  <2> QED BY <2>1, <2>2, <2>3, <2>4, <2>5 DEF Single, q
<1>7. ASSUME NEW b \in Buffer, Before(b)'
      PROVE  Before(b)
  <2>1. CASE b[2] > made'.buffer
    BY <2>1 DEF Before
  <2>2. CASE \E i \in DOMAIN q' : q'[i] = b
    BY <1>3, <2>2 DEF Before, q
  <2>3. CASE \E u \in Thread : at'[u].item = b /\ ~Performing(u)'
    <3>1. PICK u \in Thread : at'[u].item = b /\ ~Performing(u)'
      BY <2>3
    <3>2. CASE u = t
      BY <1>2, <3>1, <3>2 DEF Before, q
    <3>3. CASE u # t
      BY <1>1, <3>1, <3>3 DEF Before, Performing
    <3> QED BY <3>2, <3>3
  <2> QED BY <1>7, <2>1, <2>2, <2>3 DEF Before, q
<1> QED BY <1>6, <1>7 DEF Forward

\* It puts its buffer at the end of the queue.
LEMMA SinglePut ==
    ASSUME Strong, Single, NEW t \in Thread, Moves(t), at[t].item \in Buffer, ~Performing(t),
           query_buffer' = Append(query_buffer, at[t].item), at'[t].item = Nothing, made' = made
    PROVE  Single' /\ Forward
<1> DEFINE q == query_buffer
           l == Len(q) + 1
           x == at[t].item
<1>1. \A u \in Thread : u # t => at'[u] = at[u]
  BY DEF Moves
<1>2. /\ q \in Seq(Buffer) /\ Len(q) \in Nat /\ q' = Append(q, x)
      /\ DOMAIN q = 1 .. Len(q) /\ DOMAIN q' = 1 .. l
      /\ \A i \in 1 .. Len(q) : q'[i] = q[i]
      /\ q'[l] = x
  BY Types
<1>3. \A i \in DOMAIN q' : (i \in DOMAIN q /\ q'[i] = q[i]) \/ (i = l /\ q'[i] = x)
  BY <1>2
<1>4. \A u \in Thread : (u # t /\ at'[u].item = at[u].item) \/ (u = t /\ at'[u].item \notin Buffer)
  BY <1>1, Apart DEF Item
<1>5. /\ \A u, v \in Thread : at[u].item \in Buffer /\ at[u].item = at[v].item => u = v
      /\ \A i \in DOMAIN q, u \in Thread : q[i] # at[u].item
      /\ \A i, j \in DOMAIN q : q[i] = q[j] => i = j
      /\ \A u \in Thread : at[u].item \in Buffer => at[u].item[2] <= made.buffer
      /\ \A i \in DOMAIN q : q[i][2] <= made.buffer
  BY DEF Single, q
<1>6. \A i \in DOMAIN q : q[i] \in Buffer
  BY <1>2
<1>7. ASSUME NEW i \in DOMAIN q' PROVE q'[i] \in Buffer
  BY <1>3, <1>6
<1>s. x \in Buffer /\ x = at[t].item
  OBVIOUS
<1> HIDE DEF q, l, x
<1>8. Single'
  <2>1. \A u, v \in Thread : at'[u].item \in Buffer /\ at'[u].item = at'[v].item => u = v
    BY <1>4, <1>5
  <2>2. ASSUME NEW i \in DOMAIN q', NEW u \in Thread, q'[i] = at'[u].item
        PROVE  FALSE
    <3>1. u # t /\ at'[u].item = at[u].item
      BY <1>4, <1>7, <2>2
    <3> QED BY <1>3, <1>5, <1>s, <2>2, <3>1
  <2>3. \A i, j \in DOMAIN q' : q'[i] = q'[j] => i = j
    BY <1>3, <1>5, <1>s
  <2>4. \A u \in Thread : at'[u].item \in Buffer => at'[u].item[2] <= made'.buffer
    BY <1>4, <1>5
  <2>5. \A i \in DOMAIN q' : q'[i][2] <= made'.buffer
    BY <1>3, <1>5, <1>s
  <2> QED BY <2>1, <2>2, <2>3, <2>4, <2>5 DEF Single, q
<1>9. ASSUME NEW b \in Buffer, Before(b)'
      PROVE  Before(b)
  <2>1. CASE b[2] > made'.buffer
    BY <2>1 DEF Before
  <2>2. CASE \E i \in DOMAIN q' : q'[i] = b
    BY <1>3, <1>s, <2>2 DEF Before, q
  <2>3. CASE \E u \in Thread : at'[u].item = b /\ ~Performing(u)'
    BY <1>1, <1>4, <2>3 DEF Before, Performing
  <2> QED BY <1>9, <2>1, <2>2, <2>3 DEF Before, q
<1> QED BY <1>8, <1>9 DEF Forward

\* It has a new buffer.
LEMMA SingleNew ==
    ASSUME Strong, Single, NEW t \in Thread, Moves(t), UNCHANGED query_buffer,
           at'[t].item = <<"buffer", made.buffer + 1>>, made'.buffer = made.buffer + 1
    PROVE  Single' /\ Forward
<1>1. \A u \in Thread : u # t => at'[u] = at[u]
  BY DEF Moves
<1>2. made.buffer \in Nat /\ \A b \in Buffer : b[2] \in Nat
  BY Types DEF Buffer
<1>3. \A i \in DOMAIN query_buffer : query_buffer[i] \in Buffer
  BY Types
<1>4. at'[t].item[2] = made.buffer + 1
  OBVIOUS
<1>5. \A u \in Thread : at[u].item \in Buffer => at[u].item[2] <= made.buffer /\ at[u].item # at'[t].item
  BY <1>2, <1>4 DEF Single
<1>6. \A i \in DOMAIN query_buffer :
        query_buffer[i][2] <= made.buffer /\ query_buffer[i] # at'[t].item
  BY <1>2, <1>3, <1>4 DEF Single
<1>7. Single'
  <2>1. \A u, v \in Thread : at'[u].item \in Buffer /\ at'[u].item = at'[v].item => u = v
    BY <1>1, <1>5 DEF Single
  <2>2. \A i \in DOMAIN query_buffer, u \in Thread : query_buffer[i] # at'[u].item
    BY <1>1, <1>6 DEF Single
  <2>3. \A u \in Thread : at'[u].item \in Buffer => at'[u].item[2] <= made'.buffer
    BY <1>1, <1>2, <1>4, <1>5
  <2>4. \A i \in DOMAIN query_buffer : query_buffer[i][2] <= made'.buffer
    BY <1>2, <1>3, <1>6
  <2> QED BY <2>1, <2>2, <2>3, <2>4 DEF Single
<1>8. ASSUME NEW b \in Buffer, Before(b)'
      PROVE  Before(b)
  <2>1. CASE b[2] > made'.buffer
    BY <1>2, <2>1 DEF Before
  <2>2. CASE \E i \in DOMAIN query_buffer : query_buffer[i] = b
    BY <2>2 DEF Before
  <2>3. CASE \E u \in Thread : at'[u].item = b /\ ~Performing(u)'
    BY <1>1, <1>2, <1>4, <2>3 DEF Before, Performing
  <2> QED BY <1>8, <2>1, <2>2, <2>3 DEF Before
<1> QED BY <1>7, <1>8 DEF Forward

\* Steps with a connection, or for one.
LEMMA SingleUse ==
    ASSUME Strong, Single, NEW t \in Thread, UseConnection(t)
    PROVE  Single' /\ Forward
<1> USE DEF queues, history
<1>0. at \in [Thread -> Place] /\ Nothing \notin Buffer
  BY Types, Apart DEF Item
<1>1. CASE GetFreeConnection(t)
  <2> DEFINE label == IF at[t].item \in Query THEN "send"
                      ELSE IF at[t].item \in Buffer THEN "begin"
                      ELSE IF t = Executor THEN "test"
                      ELSE IF t = Querier THEN "pop" ELSE "release"
  <2>1. PICK c \in Con : at' = [at EXCEPT ![t].con = c, ![t].pc = label]
    BY <1>1 DEF GetFreeConnection
  <2>2. label \in Label
    BY DEF Label
  <2> HIDE DEF label
  <2>3. Moves(t) /\ at'[t].item = at[t].item
    BY <1>0, <2>1, <2>2 DEF Place, Moves
  <2>4. ~Performing(t)
    BY <1>1 DEF GetFreeConnection, Performing
  <2> QED BY <1>1, <2>3, <2>4, SingleKept DEF GetFreeConnection
<1>2. CASE Send(t)
  <2>1. {"test", "release"} \subseteq Label
    BY DEF Label
  <2>2. Moves(t) /\ at'[t].item = Nothing
    BY <1>2, <2>1, Held DEF Send
  <2>3. ~Performing(t)
    BY <1>2 DEF Send, Performing
  <2> QED BY <1>0, <1>2, <2>2, <2>3, SingleKept DEF Send
<1>3. CASE Release(t)
  <2> DEFINE label == IF t \in Caller THEN "idle" ELSE "pop"
  <2>1. at' = [at EXCEPT ![t].con = None, ![t].pc = label] /\ label \in Label
    BY <1>3 DEF Release, Label
  <2> HIDE DEF label
  <2>2. Moves(t) /\ at'[t].item = at[t].item
    BY <1>0, <2>1 DEF Place, Moves
  <2>3. ~Performing(t)
    BY <1>3 DEF Release, Performing
  <2> QED BY <1>3, <2>2, <2>3, SingleKept DEF Release
<1>4. CASE Begin(t)
  <2>1. at' = [at EXCEPT ![t].part = 1, ![t].pc = "perform"] /\ 1 \in 0..Size /\ "perform" \in Label
    BY <1>4, DatabaseAssumption DEF Begin, Label
  <2>2. Moves(t) /\ at'[t].item = at[t].item
    BY <1>0, <2>1 DEF Place, Moves
  <2>3. ~Performing(t)
    BY <1>4 DEF Begin, Performing
  <2> QED BY <1>4, <2>2, <2>3, SingleKept DEF Begin
<1>5. CASE Perform(t)
  <2> DEFINE next == IF at[t].part = Size THEN 0 ELSE at[t].part + 1
             label == IF at[t].part = Size THEN "commit" ELSE "perform"
  <2>1. at[t].part \in 1..Size
    BY <1>5 DEF Perform, Strong, Hands
  <2>2. next \in 0..Size /\ label \in Label /\ label \in {"perform", "commit"}
    BY <2>1, DatabaseAssumption DEF Label
  <2>3. at' = [at EXCEPT ![t].part = next, ![t].pc = label]
    BY <1>5 DEF Perform
  <2> HIDE DEF next, label
  <2>4. Moves(t) /\ at'[t].item = at[t].item /\ at'[t].pc = label
    BY <1>0, <2>2, <2>3 DEF Place, Moves
  <2>5. Performing(t)'
    BY <2>2, <2>4 DEF Performing
  <2> QED BY <1>5, <2>4, <2>5, SingleKept DEF Perform
<1>6. CASE Commit(t)
  <2>1. {"test", "release"} \subseteq Label
    BY DEF Label
  <2>2. Moves(t) /\ at'[t].item = Nothing
    BY <1>6, <2>1, Held DEF Commit
  <2>3. at[t].item \in Buffer
    BY <1>6 DEF Commit, Strong, Hands
  <2> QED BY <1>0, <1>6, <2>2, <2>3, SingleKept DEF Commit
<1> QED BY <1>1, <1>2, <1>3, <1>4, <1>5, <1>6 DEF UseConnection

\* The loops of the two threads.
LEMMA SingleRun ==
    ASSUME Strong, Single,
           \/ Start \/ FirstPop \/ PopQuery \/ Pause \/ Stop
           \/ PopBuffer \/ PauseBuffer \/ StopBuffers
           \/ \E t \in {Executor, Querier} : Test(t)
    PROVE  Single' /\ Forward
<1> USE DEF queues, history
<1>0. /\ at \in [Thread -> Place] /\ Executor \in Thread /\ Querier \in Thread
      /\ queries_queue \in Seq(Query) /\ query_buffer \in Seq(Buffer)
  BY Types DEF Thread
<1>l. {"first", "acquire", "send", "begin", "test", "pop", "stop", "done"} \subseteq Label
  BY DEF Label
<1>1. CASE Start
  <2>1. Moves(Executor) /\ at'[Executor].item = at[Executor].item
    BY <1>0, <1>1, <1>l, Gone DEF Start
  <2>2. ~Performing(Executor)
    BY <1>1 DEF Start, Performing
  <2> QED BY <1>0, <1>1, <2>1, <2>2, SingleKept DEF Start
<1>2. CASE FirstPop \/ PopQuery
  <2>1. ~Performing(Executor) /\ UNCHANGED <<query_buffer, made>>
    BY <1>2 DEF FirstPop, PopQuery, Performing
  <2>2. CASE queries_queue = <<>>
    <3>1. Moves(Executor) /\ at'[Executor].item = at[Executor].item
      BY <1>0, <1>2, <1>l, <2>2, Gone DEF FirstPop, PopQuery
    <3> QED BY <1>0, <2>1, <3>1, SingleKept
  <2>3. CASE queries_queue # <<>>
    <3>1. Head(queries_queue) \in Query
      BY <1>0, <2>3
    <3>2. Head(queries_queue) \in Item /\ Head(queries_queue) \notin Buffer
      BY <3>1, Apart DEF Item
    <3>3. Moves(Executor) /\ at'[Executor].item = Head(queries_queue)
      BY <1>0, <1>2, <1>l, <2>3, <3>2, Held DEF FirstPop, PopQuery
    <3> QED BY <1>0, <2>1, <3>2, <3>3, SingleKept
  <2> QED BY <2>2, <2>3
<1>3. CASE Pause
  <2> DEFINE label == IF at[Executor].over THEN "stop" ELSE "test"
  <2>1. at' = [at EXCEPT ![Executor].con = None, ![Executor].pc = label] /\ label \in Label
    BY <1>3, <1>l DEF Pause
  <2> HIDE DEF label
  <2>2. Moves(Executor) /\ at'[Executor].item = at[Executor].item
    BY <1>0, <2>1 DEF Place, Moves
  <2>3. ~Performing(Executor)
    BY <1>3 DEF Pause, Performing
  <2> QED BY <1>0, <1>3, <2>2, <2>3, SingleKept DEF Pause
<1>4. CASE Stop
  <2>1. Moves(Executor) /\ at'[Executor].item = at[Executor].item
    BY <1>0, <1>4, <1>l, Gone DEF Stop
  <2>2. ~Performing(Executor)
    BY <1>4 DEF Stop, Performing
  <2> QED BY <1>0, <1>4, <2>1, <2>2, SingleKept DEF Stop
<1>5. CASE PopBuffer
  <2>1. query_buffer # <<>> /\ query_buffer' = Tail(query_buffer) /\ made' = made
    BY <1>5 DEF PopBuffer
  <2>2. Head(query_buffer) \in Item
    BY <1>0, <2>1, QueueHead DEF Item
  <2>3. Moves(Querier) /\ at'[Querier].item = Head(query_buffer)
    BY <1>0, <1>5, <1>l, <2>2, Held DEF PopBuffer
  <2> QED BY <1>0, <2>1, <2>3, SingleTaken
<1>6. CASE PauseBuffer \/ StopBuffers
  <2>1. Moves(Querier) /\ at'[Querier].item = at[Querier].item
    BY <1>0, <1>6, <1>l, Gone DEF PauseBuffer, StopBuffers
  <2>2. ~Performing(Querier)
    BY <1>6 DEF PauseBuffer, StopBuffers, Performing
  <2> QED BY <1>0, <1>6, <2>1, <2>2, SingleKept DEF PauseBuffer, StopBuffers
<1>7. ASSUME NEW t \in {Executor, Querier}, Test(t)
      PROVE  Single' /\ Forward
  <2>0. t \in Thread
    BY <1>0
  <2>1. Moves(t) /\ at'[t].item = at[t].item
    <3>1. CASE Goto(t, "pop")
      BY <1>l, <2>0, <3>1, Gone
    <3>2. CASE at' = [at EXCEPT ![t].con = None, ![t].over = TRUE, ![t].pc = "pop"]
      BY <1>0, <1>l, <2>0, <3>2 DEF Place, Moves
    <3> QED BY <1>7, <3>1, <3>2 DEF Test
  <2>2. ~Performing(t)
    BY <1>7 DEF Test, Performing
  <2> QED BY <1>7, <2>0, <2>1, <2>2, SingleKept DEF Test
<1> QED BY <1>1, <1>2, <1>3, <1>4, <1>5, <1>6, <1>7

\* A thread hands over what it has in its hands.
LEMMA SingleQueued ==
    ASSUME Strong, Single, NEW t \in Thread, Moves(t), at[t].item \in Item, ~Performing(t),
           Queued(at[t].item), at'[t].item = Nothing, made' = made
    PROVE  Single' /\ Forward
<1>1. CASE at[t].item \in Query
  <2>1. query_buffer' = query_buffer /\ Nothing \notin Buffer
    BY <1>1, Apart DEF Queued, Item
  <2> QED BY <2>1, SingleKept
<1>2. CASE at[t].item \in Buffer
  <2>1. query_buffer' = Append(query_buffer, at[t].item)
    BY <1>2, Apart DEF Queued
  <2> QED BY <1>2, <2>1, SinglePut
<1> QED BY <1>1, <1>2 DEF Item

\* Calls.
LEMMA SingleCall ==
    ASSUME Strong, Single, NEW t \in Caller,
           Execute(t) \/ AddQueryBuffer(t) \/ QuerySync(t) \/ Push(t)
    PROVE  Single' /\ Forward
<1> USE DEF queues, history
<1>0. /\ at \in [Thread -> Place] /\ t \in Thread
      /\ made \in [query : 0..MaxQueries, buffer : 0..MaxBuffers]
  BY Types DEF Thread
<1>l. {"push", "acquire", "idle"} \subseteq Label
  BY DEF Label
<1>1. CASE Execute(t)
  <2> DEFINE x == <<"query", made.query + 1>>
  <2>1. made.query + 1 \in 1..MaxQueries
    <3>1. made.query \in 0..MaxQueries /\ made.query < MaxQueries
      BY <1>0, <1>1 DEF Execute
    <3> QED BY <3>1, DatabaseAssumption
  <2>2. x \in Query
    BY <2>1 DEF Query
  <2>3. x \in Item /\ x \notin Buffer
    BY <2>2, Apart DEF Item
  <2>4. Hold(t, x, "push") \/ Hold(t, x, "acquire")
    BY <1>1 DEF Execute
  <2> HIDE DEF x
  <2>5. Moves(t) /\ at'[t].item = x
    BY <1>0, <1>l, <2>3, <2>4, Held
  <2>6. /\ ~Performing(t) /\ query_buffer' = query_buffer
        /\ made' = [made EXCEPT !.query = made.query + 1]
    BY <1>1 DEF Execute, Performing
  <2>7. made'.buffer = made.buffer
    BY <1>0, <2>6
  <2> QED BY <1>0, <2>3, <2>5, <2>6, <2>7, SingleKept
<1>2. CASE AddQueryBuffer(t)
  <2> DEFINE x == <<"buffer", made.buffer + 1>>
  <2>1. made.buffer + 1 \in 1..MaxBuffers
    <3>1. made.buffer \in 0..MaxBuffers /\ made.buffer < MaxBuffers
      BY <1>0, <1>2 DEF AddQueryBuffer
    <3> QED BY <3>1, DatabaseAssumption
  <2>2. x \in Item
    BY <2>1 DEF Item, Buffer
  <2>3. Hold(t, x, "push") \/ Hold(t, x, "acquire")
    BY <1>2 DEF AddQueryBuffer
  <2>4. x = <<"buffer", made.buffer + 1>>
    OBVIOUS
  <2> HIDE DEF x
  <2>5. Moves(t) /\ at'[t].item = x
    BY <1>0, <1>l, <2>2, <2>3, Held
  <2>6. query_buffer' = query_buffer /\ made' = [made EXCEPT !.buffer = made.buffer + 1]
    BY <1>2 DEF AddQueryBuffer
  <2>7. made'.buffer = made.buffer + 1
    BY <1>0, <2>6
  <2> QED BY <1>0, <2>4, <2>5, <2>6, <2>7, SingleNew
<1>3. CASE QuerySync(t)
  <2>1. Moves(t) /\ at'[t].item = at[t].item
    BY <1>0, <1>3, <1>l, Gone DEF QuerySync
  <2>2. ~Performing(t)
    BY <1>3 DEF QuerySync, Performing
  <2> QED BY <1>0, <1>3, <2>1, <2>2, SingleKept DEF QuerySync
<1>4. CASE Push(t)
  <2>1. at[t].item \in Item /\ ~Performing(t)
    BY <1>0, <1>4 DEF Push, Strong, Hands, Performing
  <2>2. Moves(t) /\ at'[t].item = Nothing
    BY <1>0, <1>4, <1>l, Held DEF Push
  <2>3. Queued(at[t].item) /\ made' = made
    BY <1>4 DEF Push
  <2> QED BY <1>0, <2>1, <2>2, <2>3, SingleQueued
<1> QED BY <1>1, <1>2, <1>3, <1>4

\* EndThreads takes buffers out and puts them back.
LEMMA SingleEnd ==
    ASSUME Strong, Single, End \/ MainStep
    PROVE  Single' /\ Forward
<1> USE DEF queues, history
<1>0. /\ at \in [Thread -> Place] /\ Main \in Thread
      /\ queries_queue \in Seq(Query) /\ query_buffer \in Seq(Buffer)
  BY Types DEF Thread
<1>l. {"idle", "buffers", "queries", "again", "terminate", "wait"} \subseteq Label
  BY DEF Label
<1>1. ~Performing(Main)
  BY DEF End, MainStep, SpinBuffers, SpinQueries, PutBack, Terminate, EndThreads, Performing
<1>2. CASE End
  <2>1. Moves(Main) /\ at'[Main].item = at[Main].item
    BY <1>0, <1>2, <1>l, Gone DEF End
  <2> QED BY <1>0, <1>1, <1>2, <2>1, SingleKept DEF End
<1>3. CASE SpinBuffers
  <2>1. CASE query_buffer = <<>>
    <3>1. Moves(Main) /\ at'[Main].item = at[Main].item
      BY <1>0, <1>3, <1>l, <2>1, Gone DEF SpinBuffers
    <3> QED BY <1>0, <1>1, <1>3, <2>1, <3>1, SingleKept DEF SpinBuffers
  <2>2. CASE query_buffer # <<>>
    <3>1. Head(query_buffer) \in Item
      BY <1>0, <2>2, QueueHead DEF Item
    <3>2. Moves(Main) /\ at'[Main].item = Head(query_buffer)
      BY <1>0, <1>3, <1>l, <2>2, <3>1, Held DEF SpinBuffers
    <3>3. query_buffer' = Tail(query_buffer) /\ made' = made
      BY <1>3, <2>2 DEF SpinBuffers
    <3> QED BY <1>0, <2>2, <3>2, <3>3, SingleTaken
  <2> QED BY <2>1, <2>2
<1>4. CASE SpinQueries
  <2>1. CASE queries_queue = <<>>
    <3>1. Moves(Main) /\ at'[Main].item = at[Main].item
      BY <1>0, <1>4, <1>l, <2>1, Gone DEF SpinQueries
    <3> QED BY <1>0, <1>1, <1>4, <3>1, SingleKept DEF SpinQueries
  <2>2. CASE queries_queue # <<>>
    <3>1. Head(queries_queue) \in Query
      BY <1>0, <2>2
    <3>2. Head(queries_queue) \in Item /\ Head(queries_queue) \notin Buffer
      BY <3>1, Apart DEF Item
    <3>3. Moves(Main) /\ at'[Main].item = Head(queries_queue)
      BY <1>0, <1>4, <1>l, <2>2, <3>2, Held DEF SpinQueries
    <3> QED BY <1>0, <1>1, <1>4, <3>2, <3>3, SingleKept DEF SpinQueries
  <2> QED BY <2>1, <2>2
<1>5. CASE PutBack
  <2>1. at[Main].item \in Item
    BY <1>0, <1>5 DEF PutBack, Strong, Hands
  <2>2. Moves(Main) /\ at'[Main].item = Nothing
    BY <1>0, <1>5, <1>l, Held DEF PutBack
  <2>3. Queued(at[Main].item) /\ made' = made
    BY <1>5 DEF PutBack
  <2> QED BY <1>0, <1>1, <2>1, <2>2, <2>3, SingleQueued
<1>6. CASE Terminate
  <2>1. Moves(Main) /\ at'[Main].item = at[Main].item
    BY <1>0, <1>6, <1>l, Gone DEF Terminate
  <2> QED BY <1>0, <1>1, <1>6, <2>1, SingleKept DEF Terminate
<1>7. CASE EndThreads
  <2>1. Moves(Main) /\ at'[Main].item = at[Main].item
    BY <1>0, <1>7, <1>l DEF EndThreads, Place, Moves
  <2> QED BY <1>0, <1>1, <1>7, <2>1, SingleKept DEF EndThreads
<1> QED BY <1>2, <1>3, <1>4, <1>5, <1>6, <1>7 DEF MainStep

LEMMA SingleNext ==
    ASSUME Strong, Single, Next
    PROVE  Single' /\ Forward
<1>1. ASSUME NEW t \in Caller, CallerStep(t) \/ Execute(t) \/ AddQueryBuffer(t) \/ QuerySync(t)
      PROVE  Single' /\ Forward
  BY <1>1, SingleUse, SingleCall DEF CallerStep, Thread
<1>2. CASE ExecutorStep \/ PopQuery
  BY <1>2, SingleUse, SingleRun DEF ExecutorStep, Thread
<1>3. CASE QuerierStep \/ PopBuffer
  BY <1>3, SingleUse, SingleRun DEF QuerierStep, Thread
<1>4. CASE End \/ MainStep
  BY <1>4, SingleEnd
<1> QED BY <1>1, <1>2, <1>3, <1>4 DEF Next

-----------------------------------------------------------------------------
\* Database::run
LEMMA RunStrong ==
    ASSUME Strong, Forward, Start \/ FirstPop \/ PopQuery
    PROVE  Strong'
<1> USE DEF queues, flags, server, history
<1> Executor \in Thread /\ at \in [Thread -> Place]
  BY Types, DatabaseAssumption DEF Thread
<1>1. CASE Start
  <2>1. Goto(Executor, "first") /\ "first" \in Label
    BY <1>1 DEF Start, Label
  <2>2. /\ Moves(Executor) /\ at'[Executor].pc = "first" /\ at'[Executor].con = at[Executor].con
        /\ at'[Executor].item = at[Executor].item /\ at'[Executor].part = at[Executor].part
        /\ at'[Executor].over = at[Executor].over
    BY <2>1, Gone
  <2>3. TypeOK' /\ Hands(Executor)'
    BY <1>1, <2>2, Types DEF Start, TypeOK, Moves, Place, OpenState, Strong, Hands
  <2>4. \A x \in Query : InQueue(x)' <=> InQueue(x)
    BY <1>1 DEF Start, InQueue
  <2>5. Phases' /\ Kept'
    BY <1>1, <2>2, <2>4, ExecutorMove DEF Start
  <2> QED BY <1>1, <2>2, <2>3, <2>5, QuietMove DEF Start, Strong
<1>2. CASE FirstPop \/ PopQuery
  <2>1. PICK label \in {"acquire", "send"}, item \in Query \cup {Nothing, at[Executor].item} :
          /\ label = "send" => item \in Query /\ at[Executor].con # None
          /\ Hold(Executor, item, label) \/ (item = at[Executor].item /\ Goto(Executor, label))
          /\ queries_queue' \in Seq(Query)
          /\ \A x \in Query : InQueue(x) => InQueue(x)' \/ x = item
    <3>1. CASE queries_queue = <<>>
      <4>1. Goto(Executor, "acquire") /\ queries_queue' = queries_queue
        BY <1>2, <3>1 DEF FirstPop, PopQuery
      <4>2. \A x \in Query : InQueue(x) => InQueue(x)'
        BY <4>1 DEF InQueue
      <4>3. queries_queue' \in Seq(Query)
        BY <4>1, Types
      <4> QED BY <4>1, <4>2, <4>3
    <3>2. CASE queries_queue # <<>>
      <4>1. /\ Head(queries_queue) \in Query /\ Tail(queries_queue) \in Seq(Query)
            /\ \A x : (\E i \in DOMAIN queries_queue : queries_queue[i] = x)
                 => \/ x = Head(queries_queue)
                    \/ \E i \in DOMAIN Tail(queries_queue) : Tail(queries_queue)[i] = x
        BY <3>2, Types, QueueHead
      <4>2. queries_queue' = Tail(queries_queue)
        BY <1>2, <3>2 DEF FirstPop, PopQuery
      <4>3. \A x \in Query : InQueue(x) => InQueue(x)' \/ x = Head(queries_queue)
        BY <4>1, <4>2 DEF InQueue
      <4>4. \/ Hold(Executor, Head(queries_queue), "acquire")
            \/ Hold(Executor, Head(queries_queue), "send") /\ at[Executor].con # None
        BY <1>2, <3>2 DEF FirstPop, PopQuery
      <4> QED BY <4>1, <4>2, <4>3, <4>4
    <3> QED BY <3>1, <3>2
  <2>2. at[Executor].item \in Item \cup {Nothing} /\ at[Executor].pc \in {"first", "pop"}
    BY <1>2 DEF Place, FirstPop, PopQuery
  <2>3. label \in Label /\ item \in Item \cup {Nothing}
    BY <2>2 DEF Label, Item
  <2>4. /\ Moves(Executor) /\ at'[Executor].pc = label /\ at'[Executor].con = at[Executor].con
        /\ at'[Executor].item = item /\ at'[Executor].part = at[Executor].part
        /\ at'[Executor].over = at[Executor].over
    BY <2>1, <2>3, Gone, Held
  <2>5. TypeOK' /\ Hands(Executor)'
    BY <1>2, <2>1, <2>4, Types DEF FirstPop, PopQuery, TypeOK, Moves, Place, OpenState, Strong, Hands
  <2>6. UNCHANGED <<Busy, query_buffer, flags, server, history>>
    BY <1>2 DEF FirstPop, PopQuery
  <2>7. Phases' /\ Kept'
    BY <2>1, <2>2, <2>4, <2>6, ExecutorMove
  <2> QED BY <2>2, <2>4, <2>5, <2>6, <2>7, QuietMove DEF Strong
<1> QED BY <1>1, <1>2

\* Either loop ends.
LEMMA TestStrong ==
    ASSUME Strong, Forward, NEW t \in {Executor, Querier}, Test(t)
    PROVE  Strong'
<1> USE DEF queues, flags, server, history
<1> t \in Thread /\ t # Main /\ at \in [Thread -> Place]
  BY Types, DatabaseAssumption DEF Thread
<1>1. /\ Moves(t) /\ at'[t].pc = "pop" /\ at'[t].item = at[t].item /\ at'[t].part = at[t].part
      /\ at'[t].over => at[t].over \/ ThreadState = "terminate"
  <2>1. "pop" \in Label
    BY DEF Label
  <2>2. CASE ThreadState # "terminate"
    BY <2>1, <2>2, Gone DEF Test
  <2>3. CASE ThreadState = "terminate" /\ at' = [at EXCEPT ![t].con = None, ![t].over = TRUE, ![t].pc = "pop"]
    <3>1. Moves(t) /\ at'[t].pc = "pop" /\ at'[t].item = at[t].item /\ at'[t].part = at[t].part
      BY <2>1, <2>3 DEF Place, Moves
    <3> QED BY <2>3, <3>1
  <2> QED BY <2>2, <2>3 DEF Test
<1>2. TypeOK' /\ Hands(t)'
  <2>1. Busy' \in [Con -> Thread \cup {None}]
    BY Types DEF Test, Freed
  <2> QED BY <1>1, <2>1, Types DEF Test, TypeOK, Moves, Place, OpenState, Strong, Hands
<1>3. at[t].pc = "test" /\ UNCHANGED <<queues, flags, server, history>>
  BY DEF Test
<1>4. \A x \in Query : InQueue(x)' <=> InQueue(x)
  BY <1>3 DEF InQueue
<1>5. Phases' /\ Kept'
  BY <1>1, <1>3, <1>4, ExecutorMove, OthersMove
<1> QED BY <1>1, <1>2, <1>3, <1>5, QuietMove DEF Strong

\* The execute thread finds its queue empty; when it is to end, all that was
\* queued before EndThreads has been stored.
LEMMA PauseStrong ==
    ASSUME Strong, Forward, Pause
    PROVE  Strong'
<1> USE DEF queues, flags, server, history
<1> Executor \in Thread /\ Main \in Thread /\ Main # Executor /\ at \in [Thread -> Place]
  BY Types, DatabaseAssumption DEF Thread
<1> DEFINE label == IF at[Executor].over THEN "stop" ELSE "test"
<1>1. label \in Label
  BY DEF Label
<1>2. at' = [at EXCEPT ![Executor].con = None, ![Executor].pc = label]
  BY DEF Pause
<1>3. \/ label = "stop" /\ at[Executor].over
      \/ label = "test" /\ ~at[Executor].over
  OBVIOUS
<1> HIDE DEF label
<1>4. /\ Moves(Executor) /\ at'[Executor].pc = label /\ at'[Executor].item = at[Executor].item
      /\ at'[Executor].part = at[Executor].part /\ at'[Executor].over = at[Executor].over
  BY <1>1, <1>2 DEF Place, Moves
<1>5. TypeOK' /\ Hands(Executor)'
  <2>1. Busy' \in [Con -> Thread \cup {None}]
    BY Types DEF Pause, Freed
  <2>2. Hands(Executor)'
    BY <1>3, <1>4 DEF Strong, Hands
  <2> QED BY <1>4, <2>1, <2>2, Types DEF Pause, TypeOK, Moves, Place, OpenState
<1>6. at[Executor].pc = "pop" /\ queries_queue = <<>> /\ UNCHANGED <<queues, flags, server, history>>
  BY DEF Pause
<1>7. \A x \in Query : ~InQueue(x) /\ ~InQueue(x)'
  BY <1>6 DEF InQueue
<1>8. Phases' /\ Kept'
  <2>1. CASE label = "test"
    BY <1>4, <1>6, <1>7, <2>1, ExecutorMove
  <2>2. CASE label = "stop"
    <3>1. at'[Main] = at[Main]
      BY <1>4 DEF Moves
    <3>2. Phases'
      BY <1>3, <1>4, <1>6, <2>2, <3>1, Types DEF Strong, Phases
    <3>3. at[Main].pc = "wait" \/ early = {}
      BY <1>3, <2>2 DEF Strong, Phases
    <3>4. ASSUME NEW x \in early' \cap Query PROVE Whereabouts(x)'
      BY <1>6, <1>7, <3>3, <3>4 DEF Strong, Kept, Whereabouts
    <3> QED BY <3>2, <3>4 DEF Kept
  <2> QED BY <1>3, <2>1, <2>2
<1> QED BY <1>3, <1>4, <1>5, <1>6, <1>8, QuietMove DEF Strong

LEMMA StopStrong ==
    ASSUME Strong, Forward, Stop
    PROVE  Strong'
<1> USE DEF queues, flags, server, history
<1> Executor \in Thread /\ Main \in Thread /\ Main # Executor /\ at \in [Thread -> Place]
  BY Types, DatabaseAssumption DEF Thread
<1>1. Goto(Executor, "done") /\ "done" \in Label /\ at[Executor].pc = "stop"
  BY DEF Stop, Label
<1>2. /\ Moves(Executor) /\ at'[Executor].pc = "done" /\ at'[Executor].con = at[Executor].con
      /\ at'[Executor].item = at[Executor].item /\ at'[Executor].part = at[Executor].part
      /\ at'[Executor].over = at[Executor].over
  BY <1>1, Gone
<1>3. TypeOK' /\ Hands(Executor)'
  BY <1>2, Types DEF Stop, TypeOK, Moves, Place, OpenState, Strong, Hands
<1>4. at'[Main] = at[Main]
  BY <1>2 DEF Moves
<1>5. Phases'
  BY <1>1, <1>2, <1>4, Types DEF Stop, Strong, Phases
<1>6. ASSUME NEW x \in early' \cap Query PROVE Whereabouts(x)'
  BY <1>1, <1>6 DEF Stop, Strong, Kept, Whereabouts
<1>7. Kept'
  BY <1>6 DEF Kept
<1>8. UNCHANGED <<open, stored, refused, hurt>>
  BY DEF Stop
<1> QED BY <1>1, <1>2, <1>3, <1>5, <1>7, <1>8, QuietMove DEF Strong

-----------------------------------------------------------------------------
\* thread_proc_query
LEMMA QueryThreadStrong ==
    ASSUME Strong, Forward, PopBuffer \/ PauseBuffer \/ StopBuffers
    PROVE  Strong'
<1> USE DEF queues, flags, server, history
<1> /\ Querier \in Thread /\ Querier # Main /\ Querier # Executor
    /\ at \in [Thread -> Place]
  BY Types, DatabaseAssumption DEF Thread
<1>1. PICK label \in Label, item \in Item \cup {Nothing} :
        /\ label \in {"acquire", "begin", "stop", "test", "done"}
        /\ label = "begin" => item \in Buffer /\ at[Querier].con # None
        /\ Hold(Querier, item, label) \/ (item = at[Querier].item /\ Goto(Querier, label))
        /\ query_buffer' \in Seq(Buffer)
  <2>1. /\ {"acquire", "begin", "stop", "test", "done"} \subseteq Label
        /\ at[Querier].item \in Item \cup {Nothing} /\ query_buffer \in Seq(Buffer)
    BY Types DEF Label, Place
  <2>2. CASE PopBuffer
    <3>1. Head(query_buffer) \in Buffer /\ Tail(query_buffer) \in Seq(Buffer)
      BY <2>1, <2>2, QueueHead DEF PopBuffer
    <3>2. \/ Hold(Querier, Head(query_buffer), "acquire")
          \/ Hold(Querier, Head(query_buffer), "begin") /\ at[Querier].con # None
      BY <2>2 DEF PopBuffer
    <3>3. Head(query_buffer) \in Item /\ query_buffer' = Tail(query_buffer)
      BY <2>2, <3>1 DEF PopBuffer, Item
    <3> QED BY <2>1, <3>1, <3>2, <3>3
  <2>3. CASE PauseBuffer
    <3>1. Goto(Querier, "stop") \/ Goto(Querier, "test")
      BY <2>3 DEF PauseBuffer
    <3> QED BY <2>1, <2>3, <3>1 DEF PauseBuffer
  <2>4. CASE StopBuffers
    BY <2>1, <2>4 DEF StopBuffers
  <2> QED BY <2>2, <2>3, <2>4
<1>2. /\ Moves(Querier) /\ at'[Querier].pc = label /\ at'[Querier].con = at[Querier].con
      /\ at'[Querier].item = item /\ at'[Querier].part = at[Querier].part
  BY <1>1, Gone, Held
<1>3. Hands(Querier)'
  BY <1>1, <1>2, Apart DEF Strong, Hands
<1>4. /\ UNCHANGED <<Busy, queries_queue, ThreadRunning, ThreadState, server, history>>
      /\ qt' \in BOOLEAN
  BY Types DEF PopBuffer, PauseBuffer, StopBuffers
<1>5. at[Querier].pc \in {"pop", "stop"}
  BY DEF PopBuffer, PauseBuffer, StopBuffers
<1>6. TypeOK'
  BY <1>1, <1>2, <1>4, Types DEF TypeOK, Moves, Place, OpenState
<1>7. \A x \in Query : InQueue(x)' <=> InQueue(x)
  BY <1>4 DEF InQueue
<1>8. Phases' /\ Kept'
  BY <1>2, <1>4, <1>7, OthersMove
<1> QED BY <1>1, <1>2, <1>3, <1>4, <1>5, <1>6, <1>8, QuietMove DEF Strong

-----------------------------------------------------------------------------
\* Calls
LEMMA CallStrong ==
    ASSUME Strong, Forward, NEW t \in Caller, Execute(t) \/ AddQueryBuffer(t) \/ QuerySync(t)
    PROVE  Strong'
<1> USE DEF queues, flags, server, history
<1> t \in Thread /\ t # Main /\ t # Executor /\ at \in [Thread -> Place]
  BY Types, DatabaseAssumption DEF Thread
<1>1. PICK label \in {"push", "acquire"}, item \in Item \cup {Nothing} :
        /\ label = "push" => item \in Item
        /\ Hold(t, item, label) \/ (item = at[t].item /\ Goto(t, label))
        /\ made' \in [query : 0..MaxQueries, buffer : 0..MaxBuffers]
  <2>1. /\ made \in [query : 0..MaxQueries, buffer : 0..MaxBuffers]
        /\ made.query \in 0..MaxQueries /\ made.buffer \in 0..MaxBuffers
    BY Types
  <2>2. CASE Execute(t)
    <3>1. made.query + 1 \in 1..MaxQueries /\ made.query + 1 \in 0..MaxQueries
      BY <2>1, <2>2, DatabaseAssumption DEF Execute
    <3>2. <<"query", made.query + 1>> \in Item
      BY <3>1 DEF Item, Query
    <3>3. made' = [made EXCEPT !.query = made.query + 1]
      BY <2>2 DEF Execute
    <3>4. made' \in [query : 0..MaxQueries, buffer : 0..MaxBuffers]
      BY <2>1, <3>1, <3>3
    <3>5. Hold(t, <<"query", made.query + 1>>, "push") \/ Hold(t, <<"query", made.query + 1>>, "acquire")
      BY <2>2 DEF Execute
    <3> QED BY <3>2, <3>4, <3>5
  <2>3. CASE AddQueryBuffer(t)
    <3>1. made.buffer + 1 \in 1..MaxBuffers /\ made.buffer + 1 \in 0..MaxBuffers
      BY <2>1, <2>3, DatabaseAssumption DEF AddQueryBuffer
    <3>2. <<"buffer", made.buffer + 1>> \in Item
      BY <3>1 DEF Item, Buffer
    <3>3. made' = [made EXCEPT !.buffer = made.buffer + 1]
      BY <2>3 DEF AddQueryBuffer
    <3>4. made' \in [query : 0..MaxQueries, buffer : 0..MaxBuffers]
      BY <2>1, <3>1, <3>3
    <3>5. Hold(t, <<"buffer", made.buffer + 1>>, "push") \/ Hold(t, <<"buffer", made.buffer + 1>>, "acquire")
      BY <2>3 DEF AddQueryBuffer
    <3> QED BY <3>2, <3>4, <3>5
  <2>4. CASE QuerySync(t)
    BY <2>1, <2>4 DEF QuerySync, Place
  <2> QED BY <2>2, <2>3, <2>4
<1>2. label \in Label
  BY DEF Label
<1>3. /\ Moves(t) /\ at'[t].pc = label /\ at'[t].item = item /\ at'[t].part = at[t].part
  BY <1>1, <1>2, Gone, Held
<1>4. Hands(t)'
  BY <1>1, <1>3 DEF Strong, Hands
<1>5. at[t].pc = "idle" /\ UNCHANGED <<Busy, queues, flags, server, early, ending>>
  BY DEF Execute, AddQueryBuffer, QuerySync
<1>6. TypeOK'
  BY <1>1, <1>3, <1>5, Types DEF TypeOK, Moves, Place, OpenState
<1>7. \A x \in Query : InQueue(x)' <=> InQueue(x)
  BY <1>5 DEF InQueue
<1>8. Phases' /\ Kept'
  BY <1>3, <1>5, <1>7, OthersMove
<1> QED BY <1>1, <1>3, <1>4, <1>5, <1>6, <1>8, QuietMove DEF Strong

LEMMA PushStrong ==
    ASSUME Strong, Forward, NEW t \in Caller, Push(t)
    PROVE  Strong'
<1> USE DEF flags, server
<1> t \in Thread /\ t # Main /\ t # Executor /\ at \in [Thread -> Place]
  BY Types, DatabaseAssumption DEF Thread
<1>1. at[t].item \in Item /\ Queued(at[t].item) /\ at[t].pc = "push"
  BY DEF Push, Strong, Hands
<1>2. /\ queries_queue' \in Seq(Query) /\ query_buffer' \in Seq(Buffer)
      /\ \A x \in Query : InQueue(x) \/ x = at[t].item => InQueue(x)'
  BY <1>1, QueuedTo
<1>3. Hold(t, Nothing, "idle") /\ "idle" \in Label
  BY DEF Push, Label
<1>4. /\ Moves(t) /\ at'[t].pc = "idle" /\ at'[t].item = Nothing /\ at'[t].part = at[t].part
  BY <1>3, Held
<1>5. Hands(t)'
  BY <1>4 DEF Strong, Hands
<1>6. /\ UNCHANGED <<Busy, flags, server, made, ending>>
      /\ early' = early \/ (~ending /\ early' = early \cup {at[t].item})
  BY DEF Push
<1>7. TypeOK'
  <2>1. early' \subseteq Item
    BY <1>1, <1>6, Types
  <2> QED BY <1>2, <1>4, <1>6, <2>1, Types DEF TypeOK, Moves, Place, OpenState
<1>8. \A x \in (early' \cap Query) \ early : InQueue(x)'
  BY <1>2, <1>6
<1>9. Phases' /\ Kept'
  BY <1>2, <1>4, <1>6, <1>8, OthersMove
<1> QED BY <1>1, <1>4, <1>5, <1>6, <1>7, <1>9, QuietMove DEF Strong

-----------------------------------------------------------------------------
\* EndThreads
LEMMA EndStrong ==
    ASSUME Strong, Forward, End \/ MainStep
    PROVE  Strong'
<1> USE DEF queues, flags, server, history
<1> /\ Main \in Thread /\ Executor \in Thread /\ Main # Executor
    /\ at \in [Thread -> Place]
  BY Types, DatabaseAssumption DEF Thread
<1>0. {"idle", "buffers", "queries", "again", "terminate", "wait"} \subseteq Label
  BY DEF Label
<1>1. CASE End
  <2>1. /\ Moves(Main) /\ at'[Main].pc = "buffers" /\ at'[Main].con = at[Main].con
        /\ at'[Main].item = at[Main].item /\ at'[Main].part = at[Main].part
        /\ at'[Main].over = at[Main].over
    BY <1>0, <1>1, Gone DEF End
  <2>2. TypeOK' /\ Hands(Main)'
    BY <1>1, <2>1, Types DEF End, TypeOK, Moves, Place, OpenState, Strong, Hands
  <2>3. at'[Executor] = at[Executor] /\ \A x \in Query : InQueue(x)' <=> InQueue(x)
    BY <1>1, <2>1 DEF End, Moves, InQueue
  <2>4. Phases' /\ Kept'
    BY <1>1, <2>1, <2>3, Types DEF End, Strong, Phases, Kept, Whereabouts
  <2> QED BY <1>1, <2>1, <2>2, <2>4, QuietMove DEF End, Strong
<1>2. CASE SpinBuffers
  <2>1. PICK item \in Item \cup {Nothing, at[Main].item}, label \in {"queries", "again"} :
          /\ Hold(Main, item, label) \/ (item = at[Main].item /\ Goto(Main, label))
          /\ label = "again" => item \in Item
          /\ query_buffer' \in Seq(Buffer)
    <3>1. CASE query_buffer = <<>>
      BY <1>2, <3>1, Types DEF SpinBuffers
    <3>2. CASE query_buffer # <<>>
      <4>1. Head(query_buffer) \in Buffer /\ Tail(query_buffer) \in Seq(Buffer)
        BY <3>2, Types, QueueHead
      <4> QED BY <1>2, <3>2, <4>1 DEF SpinBuffers, Item
    <3> QED BY <3>1, <3>2
  <2>2. item \in Item \cup {Nothing} /\ at[Main].pc = "buffers"
    BY <1>2 DEF Place, SpinBuffers
  <2>3. /\ Moves(Main) /\ at'[Main].pc = label /\ at'[Main].con = at[Main].con
        /\ at'[Main].item = item /\ at'[Main].part = at[Main].part
        /\ at'[Main].over = at[Main].over
    BY <1>0, <2>1, <2>2, Gone, Held
  <2>4. UNCHANGED <<Busy, queries_queue, flags, server, history>>
    BY <1>2 DEF SpinBuffers
  <2>5. TypeOK' /\ Hands(Main)'
    BY <2>1, <2>3, <2>4, Types DEF TypeOK, Moves, Place, OpenState, Strong, Hands
  <2>6. at'[Executor] = at[Executor] /\ \A x \in Query : InQueue(x)' <=> InQueue(x)
    BY <2>3, <2>4 DEF Moves, InQueue
  <2>7. Phases' /\ Kept'
    BY <2>2, <2>3, <2>4, <2>6, Types DEF Strong, Phases, Kept, Whereabouts
  <2> QED BY <2>2, <2>3, <2>4, <2>5, <2>7, QuietMove DEF Strong
<1>3. CASE SpinQueries
  <2>1. PICK item \in Item \cup {Nothing, at[Main].item}, label \in {"terminate", "again"} :
          /\ Hold(Main, item, label) \/ (item = at[Main].item /\ Goto(Main, label))
          /\ label = "again" => item \in Item
          /\ queries_queue' \in Seq(Query)
          /\ \A x \in Query : InQueue(x) => InQueue(x)' \/ (label = "again" /\ item = x)
    <3>1. CASE queries_queue = <<>>
      BY <1>3, <3>1, Types DEF SpinQueries, InQueue
    <3>2. CASE queries_queue # <<>>
      <4>1. /\ Head(queries_queue) \in Query /\ Tail(queries_queue) \in Seq(Query)
            /\ \A x : (\E i \in DOMAIN queries_queue : queries_queue[i] = x)
                 => \/ x = Head(queries_queue)
                    \/ \E i \in DOMAIN Tail(queries_queue) : Tail(queries_queue)[i] = x
        BY <3>2, Types, QueueHead
      <4>2. queries_queue' = Tail(queries_queue) /\ Hold(Main, Head(queries_queue), "again")
        BY <1>3, <3>2 DEF SpinQueries
      <4>3. \A x \in Query : InQueue(x) => InQueue(x)' \/ x = Head(queries_queue)
        BY <4>1, <4>2 DEF InQueue
      <4> QED BY <4>1, <4>2, <4>3 DEF Item
    <3> QED BY <3>1, <3>2
  <2>2. item \in Item \cup {Nothing} /\ at[Main].pc = "queries"
    BY <1>3 DEF Place, SpinQueries
  <2>3. /\ Moves(Main) /\ at'[Main].pc = label /\ at'[Main].con = at[Main].con
        /\ at'[Main].item = item /\ at'[Main].part = at[Main].part
        /\ at'[Main].over = at[Main].over
    BY <1>0, <2>1, <2>2, Gone, Held
  <2>4. UNCHANGED <<Busy, query_buffer, flags, server, history>>
    BY <1>3 DEF SpinQueries
  <2>5. TypeOK' /\ Hands(Main)'
    BY <2>1, <2>3, <2>4, Types DEF TypeOK, Moves, Place, OpenState, Strong, Hands
  <2>6. at'[Executor] = at[Executor]
    BY <2>3 DEF Moves
  <2>7. Phases' /\ Kept'
    BY <2>1, <2>2, <2>3, <2>4, <2>6, Types DEF Strong, Phases, Kept, Whereabouts
  <2> QED BY <2>2, <2>3, <2>4, <2>5, <2>7, QuietMove DEF Strong
<1>4. CASE PutBack
  <2>1. at[Main].pc = "again" /\ at[Main].item \in Item /\ Queued(at[Main].item)
    BY <1>4 DEF PutBack, Strong, Hands
  <2>2. /\ queries_queue' \in Seq(Query) /\ query_buffer' \in Seq(Buffer)
        /\ \A x \in Query : InQueue(x) \/ x = at[Main].item => InQueue(x)'
    BY <2>1, QueuedTo
  <2>3. PICK label \in {"queries", "buffers"} : Hold(Main, Nothing, label)
    BY <1>4 DEF PutBack
  <2>4. /\ Moves(Main) /\ at'[Main].pc = label /\ at'[Main].con = at[Main].con
        /\ at'[Main].item = Nothing /\ at'[Main].part = at[Main].part
        /\ at'[Main].over = at[Main].over
    BY <1>0, <2>3, Held
  <2>5. UNCHANGED <<Busy, flags, server, history>>
    BY <1>4 DEF PutBack
  <2>6. TypeOK' /\ Hands(Main)'
    BY <2>2, <2>4, <2>5, Types DEF TypeOK, Moves, Place, OpenState, Strong, Hands
  <2>7. at'[Executor] = at[Executor]
    BY <2>4 DEF Moves
  <2>8. Phases' /\ Kept'
    BY <2>1, <2>2, <2>4, <2>5, <2>7, Types DEF Strong, Phases, Kept, Whereabouts
  <2> QED BY <2>1, <2>4, <2>5, <2>6, <2>8, QuietMove DEF Strong
<1>5. CASE Terminate
  <2>1. /\ Moves(Main) /\ at'[Main].pc = "wait" /\ at'[Main].con = at[Main].con
        /\ at'[Main].item = at[Main].item /\ at'[Main].part = at[Main].part
        /\ at'[Main].over = at[Main].over
    BY <1>0, <1>5, Gone DEF Terminate
  <2>2. TypeOK' /\ Hands(Main)'
    BY <1>5, <2>1, Types DEF Terminate, TypeOK, Moves, Place, OpenState, Strong, Hands
  <2>3. at'[Executor] = at[Executor] /\ \A x \in Query : InQueue(x)' <=> InQueue(x)
    BY <1>5, <2>1 DEF Terminate, Moves, InQueue
  <2>4. Phases' /\ Kept'
    BY <1>5, <2>1, <2>3, Types DEF Terminate, Strong, Phases, Kept, Whereabouts
  <2> QED BY <1>5, <2>1, <2>2, <2>4, QuietMove DEF Terminate, Strong
<1>6. CASE EndThreads
  <2>1. /\ Moves(Main) /\ at'[Main].pc = "idle" /\ at'[Main].con = at[Main].con
        /\ at'[Main].item = at[Main].item /\ at'[Main].part = at[Main].part
        /\ at'[Main].over
    BY <1>0, <1>6 DEF EndThreads, Place, Moves
  <2>2. TypeOK' /\ Hands(Main)'
    BY <1>6, <2>1, Types DEF EndThreads, TypeOK, Moves, Place, OpenState, Strong, Hands
  <2>3. at'[Executor] = at[Executor] /\ early' = {} /\ at[Main].pc = "wait"
    BY <1>6, <2>1 DEF EndThreads, Moves
  <2>4. Phases' /\ Kept'
    BY <1>6, <2>1, <2>3, Types DEF EndThreads, Strong, Phases, Kept
  <2> QED BY <1>6, <2>1, <2>2, <2>3, <2>4, QuietMove DEF EndThreads, Strong
<1> QED BY <1>1, <1>2, <1>3, <1>4, <1>5, <1>6 DEF MainStep

LEMMA InitStrong == Init => Strong
<1> SUFFICES ASSUME Init PROVE Strong
  OBVIOUS
<1> DEFINE label(t) == CASE t = Executor -> "start" [] t = Querier -> "acquire" [] OTHER -> "idle"
<1>1. /\ \A t \in Thread : label(t) \in Label /\ label(t) \in {"start", "acquire", "idle"}
      /\ label(Main) = "idle" /\ label(Executor) = "start"
  BY DatabaseAssumption DEF Label
<1>2. at = [t \in Thread |-> [pc |-> label(t), item |-> Nothing, con |-> None, part |-> 0,
                             over |-> FALSE]]
  BY DEF Init
<1> HIDE DEF label
<1>3. at \in [Thread -> Place] /\ 0 \in 0..Size
  BY <1>1, <1>2, DatabaseAssumption DEF Place
<1>4. /\ \A t \in Thread : at[t].pc = label(t) /\ at[t].part = 0 /\ at[t].over = FALSE
      /\ Main \in Thread /\ Executor \in Thread
  BY <1>2 DEF Thread
<1>5. TypeOK
  <2>1. Busy \in [Con -> Thread \cup {None}] /\ open \in [Con -> OpenState]
    BY OpenStates DEF Init
  <2>2. /\ queries_queue = <<>> /\ query_buffer = <<>>
        /\ queries_queue \in Seq(Query) /\ query_buffer \in Seq(Buffer)
    BY DEF Init
  <2>3. /\ ThreadRunning \in BOOLEAN /\ qt \in BOOLEAN
        /\ ThreadState \in {"awaiting", "busy", "terminate"}
    BY DEF Init
  <2>4. /\ stored \subseteq Statement /\ refused \subseteq Statement /\ hurt \subseteq Item
        /\ early \subseteq Item /\ ending \in BOOLEAN
    BY DEF Init
  <2>5. drops \in Nat /\ made \in [query : 0..MaxQueries, buffer : 0..MaxBuffers]
    BY DatabaseAssumption DEF Init
  <2> QED BY <1>3, <2>1, <2>2, <2>3, <2>4, <2>5 DEF TypeOK, Place, OpenState
<1>6. \A t \in Thread : Hands(t)
  BY <1>1, <1>3, <1>4 DEF Hands
<1>7. Transactions /\ WholeBuffers /\ Clean
  BY <1>1, <1>4 DEF Init, Transactions, Performing, WholeBuffers, Clean
<1>8. Phases /\ Kept
  BY <1>1, <1>4 DEF Init, Phases, Kept
<1> QED BY <1>5, <1>6, <1>7, <1>8 DEF Strong

LEMMA InitSingle == Init => Single
<1> SUFFICES ASSUME Init PROVE Single
  OBVIOUS
<1>1. \A t \in Thread : at[t].item = Nothing
  BY DEF Init
<1>2. DOMAIN query_buffer = {} /\ Nothing \notin Buffer
  BY Apart DEF Init, Item
<1> QED BY <1>1, <1>2 DEF Single

LEMMA StutterStrong ==
    ASSUME Strong, UNCHANGED vars
    PROVE  Strong'
<1> USE DEF vars, queues, flags, server, history
<1>1. TypeOK'
  BY Types DEF TypeOK, Place, OpenState
<1>2. (\A t \in Thread : Hands(t))'
  BY DEF Strong, Hands
<1>3. Transactions' /\ WholeBuffers' /\ Clean'
  BY DEF Strong, Transactions, Performing, InTransaction, WholeBuffers, Clean, Before
<1>4. Phases'
  BY DEF Strong, Phases
<1>5. Kept'
  BY DEF Strong, Kept, Whereabouts, InQueue
<1> QED BY <1>1, <1>2, <1>3, <1>4, <1>5 DEF Strong

\* Types, what transactions hold, where the early statements are, and that every
\* buffer is in one place.
THEOREM Stored == Spec => [](Strong /\ Single)
<1>1. Init => Strong /\ Single
  BY InitStrong, InitSingle
<1>2. Strong /\ Single /\ ConnectionsOwned /\ [Next]_vars => (Strong /\ Single)'
  <2> SUFFICES ASSUME Strong, Single, ConnectionsOwned, [Next]_vars PROVE (Strong /\ Single)'
    OBVIOUS
  <2>0. Executor # Main /\ Querier # Main /\ Caller \cap {Main} = {}
    BY DatabaseAssumption
  <2>1. CASE Next
    <3>0. Single' /\ Forward
      BY <2>1, SingleNext
    <3>1. ASSUME NEW t \in Caller, CallerStep(t) \/ Execute(t) \/ AddQueryBuffer(t) \/ QuerySync(t)
          PROVE  Strong'
      BY <2>0, <3>0, <3>1, UseStrong, CallStrong, PushStrong DEF CallerStep, Thread
    <3>2. CASE ExecutorStep \/ PopQuery
      BY <2>0, <3>0, <3>2, UseStrong, RunStrong, TestStrong, PauseStrong, StopStrong DEF ExecutorStep, Thread
    <3>3. CASE QuerierStep \/ PopBuffer
      BY <2>0, <3>0, <3>3, UseStrong, QueryThreadStrong, TestStrong DEF QuerierStep, Thread
    <3>4. CASE End \/ MainStep
      BY <3>0, <3>4, EndStrong
    <3> QED BY <2>1, <3>0, <3>1, <3>2, <3>3, <3>4 DEF Next
  <2>2. CASE UNCHANGED vars
    BY <2>2, StutterStrong DEF vars, queues, history, Single
  <2> QED BY <2>1, <2>2
<1> QED BY <1>1, <1>2, ConnectionSafe, PTL DEF Spec

\* For any number of connections, callers, statements and buffers, whatever the
\* server refuses and however often connections are lost: a QueryBuffer is stored
\* whole but for the statements refused, or not at all, unless a connection was
\* lost while it was sent; and when EndThreads may return, every other statement
\* queued when it was called has been stored or refused.
THEOREM DatabaseConsistent == Spec => []Consistent
<1>1. Strong => Consistent
  <2>1. Strong => SavedAtEnd
    BY DEF Strong, Phases, Kept, Whereabouts, SavedAtEnd, Answered
  <2> QED BY <2>1 DEF Strong, Consistent
<1> QED BY <1>1, Stored, PTL
=============================================================================
