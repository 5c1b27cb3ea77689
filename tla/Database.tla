------------------------------ MODULE Database ------------------------------
(***************************************************************************)
(* Database (shared/Database/Database.cpp) and MySQLDatabase: a few        *)
(* connections, each used by the thread that holds its Busy mutex; a       *)
(* thread that executes the statements of queries_queue; a thread that     *)
(* performs the transactions of query_buffer; any threads that hand over   *)
(* work or query synchronously; and EndThreads, which ends the two threads *)
(* while the callers go on.                                                *)
(***************************************************************************)
EXTENDS Naturals, FiniteSets, Sequences

CONSTANTS Con,         \* Connections
          Caller,      \* threads of the server that use the database
          Main,        \* the thread in EndThreads; its other calls are a Caller's
          Executor,    \* the thread in Database::run
          Querier,     \* the thread in Database::thread_proc_query
          None,
          MaxQueries,  \* bound: statements given to Execute
          MaxBuffers,  \* bound: QueryBuffers given to AddQueryBuffer
          Size,        \* statements of a QueryBuffer
          MaxTroubles  \* bound: statements refused, connections and transactions lost

ASSUME DatabaseAssumption ==
    /\ MaxQueries \in Nat /\ MaxBuffers \in Nat
    /\ MaxTroubles \in Nat
    /\ Size \in Nat \ {0}
    /\ Main # Executor /\ Main # Querier /\ Executor # Querier
    /\ Caller \cap {Main, Executor, Querier} = {}
    /\ None \notin Con \cup Caller \cup {Main, Executor, Querier}

Thread == Caller \cup {Main, Executor, Querier}
Query == {"query"} \X (1..MaxQueries)       \* given to Execute
Buffer == {"buffer"} \X (1..MaxBuffers)     \* given to AddQueryBuffer
Nothing == <<>>

\* The SQL statements of what was handed over.
Parts(x) == {x[1]} \X {x[2]} \X (1..(IF x \in Query THEN 1 ELSE Size))

VARIABLES Busy,           \* who holds each connection
          at,             \* where each thread is, and its local variables
          queries_queue,
          query_buffer,
          ThreadRunning,
          qt,             \* it is not NULL
          ThreadState,    \* "awaiting", "busy", "terminate"
          open,           \* the transaction of each connection: Closed, or its statements
          stored,         \* the statements the server has committed
          refused,        \* the statements the server has answered with an error
          drops,          \* how often a connection or a transaction was lost
          hurt,           \* what was being sent when that happened
          made,           \* how many of each kind have been handed over
          early,          \* what was queued before EndThreads, until it ends
          ending          \* EndThreads has been called

queues == <<queries_queue, query_buffer>>
flags == <<ThreadRunning, qt, ThreadState>>
server == <<open, stored, refused, drops, hurt>>
history == <<made, early, ending>>
vars == <<Busy, at, queues, flags, server, history>>

Closed == {Nothing}

Init ==
    /\ Busy = [c \in Con |-> None]
    /\ at = [t \in Thread |->
               [pc |-> CASE t = Executor -> "start"
                         [] t = Querier -> "acquire"
                         [] OTHER -> "idle",
                item |-> Nothing, con |-> None, part |-> 0, over |-> FALSE]]
    /\ queries_queue = <<>> /\ query_buffer = <<>>
    /\ ThreadRunning = TRUE /\ qt = TRUE
    /\ ThreadState = "awaiting"
    /\ open = [c \in Con |-> Closed]
    /\ stored = {} /\ refused = {}
    /\ drops = 0 /\ hurt = {}
    /\ made = [query |-> 0, buffer |-> 0]
    /\ early = {} /\ ending = FALSE

Goto(t, label) == at' = [at EXCEPT ![t].pc = label]
Hold(t, item, label) == at' = [at EXCEPT ![t].item = item, ![t].pc = label]

\* Busy.Release() of the thread's connection, if it has one.
Freed(t) == [c \in Con |-> IF c = at[t].con THEN None ELSE Busy[c]]

-----------------------------------------------------------------------------
\* What the server commits if it is told to.
Transaction(c) == IF open[c] = Closed THEN {} ELSE open[c]

MoreTrouble == drops + Cardinality(refused) < MaxTroubles

\* The connection of a thread is lost while it sends, and with it the
\* transaction; or the server takes the transaction back and stays (a deadlock).
Dropped(t) ==
    /\ MoreTrouble
    /\ drops' = drops + 1
    /\ hurt' = hurt \cup {at[t].item}
    /\ open' = [open EXCEPT ![at[t].con] = Closed]

\* MySQLDatabase::_SendQuery: the statement is executed; or the server answers
\* with an error, which is logged and changes nothing else; or the connection is
\* lost, _Reconnect uses a port that nobody has set, and the statement is sent
\* again or given up.  Nobody looks at the result.
SendQuery(t, s) ==
    LET c == at[t].con
    IN  \/ /\ open[c] = Closed
           /\ stored' = stored \cup s
           /\ UNCHANGED <<open, refused, drops, hurt>>
        \/ /\ open[c] # Closed
           /\ open' = [open EXCEPT ![c] = @ \cup s]
           /\ UNCHANGED <<stored, refused, drops, hurt>>
        \/ /\ MoreTrouble
           /\ refused' = refused \cup s
           /\ UNCHANGED <<open, stored, drops, hurt>>
        \/ /\ Dropped(t)
           /\ stored' \in {stored, stored \cup s}
           /\ UNCHANGED refused

\* GetFreeConnection: the loop takes a connection it finds free.
GetFreeConnection(t) ==
    /\ at[t].pc = "acquire"
    /\ \E c \in Con :
          /\ Busy[c] = None
          /\ Busy' = [Busy EXCEPT ![c] = t]
          /\ at' = [at EXCEPT ![t].con = c,
                              ![t].pc = IF at[t].item \in Query THEN "send"
                                        ELSE IF at[t].item \in Buffer THEN "begin"
                                        ELSE IF t = Executor THEN "test"
                                        ELSE IF t = Querier THEN "pop" ELSE "release"]
    /\ UNCHANGED <<queues, flags, server, history>>

\* One statement of Execute, by the execute thread or by WaitExecuteNA.
Send(t) ==
    /\ at[t].pc = "send"
    /\ SendQuery(t, Parts(at[t].item))
    /\ Hold(t, Nothing, IF t = Executor /\ ~at[t].over THEN "test" ELSE "release")
    /\ UNCHANGED <<Busy, queues, flags, history>>

Release(t) ==
    /\ at[t].pc = "release"
    /\ Busy' = Freed(t)
    /\ at' = [at EXCEPT ![t].con = None, ![t].pc = IF t \in Caller THEN "idle" ELSE "pop"]
    /\ UNCHANGED <<queues, flags, server, history>>

-----------------------------------------------------------------------------
\* PerformQueryBuffer

\* A plausible mistake: no transaction is begun.
BeginNone(t) ==
    /\ at[t].pc = "begin"
    /\ at' = [at EXCEPT ![t].part = 1, ![t].pc = "perform"]
    /\ UNCHANGED <<Busy, queues, flags, server, history>>

\* _BeginTransaction, perhaps over a new connection; if the statement is lost or
\* refused there is no transaction.
Begin(t) ==
    /\ at[t].pc = "begin"
    /\ \/ /\ open' = [open EXCEPT ![at[t].con] = {}]
          /\ \/ UNCHANGED drops
             \/ MoreTrouble /\ drops' = drops + 1
          /\ UNCHANGED hurt
       \/ Dropped(t)
    /\ at' = [at EXCEPT ![t].part = 1, ![t].pc = "perform"]
    /\ UNCHANGED <<Busy, queues, flags, stored, refused, history>>

\* A plausible mistake: one statement too many.
PerformTooMany(t) ==
    /\ at[t].pc = "perform"
    /\ SendQuery(t, {<<"buffer", at[t].item[2], at[t].part>>})
    /\ at' = [at EXCEPT ![t].part = IF @ > Size THEN 0 ELSE @ + 1,
                        ![t].pc = IF at[t].part > Size THEN "commit" ELSE "perform"]
    /\ UNCHANGED <<Busy, queues, flags, history>>

Perform(t) ==
    /\ at[t].pc = "perform"
    /\ SendQuery(t, {<<"buffer", at[t].item[2], at[t].part>>})
    /\ at' = [at EXCEPT ![t].part = IF @ = Size THEN 0 ELSE @ + 1,
                        ![t].pc = IF at[t].part = Size THEN "commit" ELSE "perform"]
    /\ UNCHANGED <<Busy, queues, flags, history>>

\* _EndTransaction, and "delete q"; without a transaction there is nothing to
\* commit.  When the connection is lost, the server may have committed.
Commit(t) ==
    LET c == at[t].con
    IN  /\ at[t].pc = "commit"
        /\ \/ /\ stored' = stored \cup Transaction(c)
              /\ open' = [open EXCEPT ![c] = Closed]
              /\ UNCHANGED <<drops, hurt>>
           \/ Dropped(t) /\ stored' \in {stored, stored \cup Transaction(c)}
        /\ Hold(t, Nothing, IF t = Querier /\ ~at[t].over THEN "test" ELSE "release")
        /\ UNCHANGED <<Busy, queues, flags, refused, history>>

-----------------------------------------------------------------------------
\* Database::run and thread_proc_query

Start ==
    /\ at[Executor].pc = "start"
    /\ ThreadState' = "busy"
    /\ ThreadRunning' = TRUE
    /\ Goto(Executor, "first")
    /\ UNCHANGED <<Busy, queues, qt, server, history>>

\* The first pop, before there is a connection.
FirstPop ==
    /\ at[Executor].pc = "first"
    /\ \/ queries_queue = <<>> /\ Goto(Executor, "acquire") /\ UNCHANGED queries_queue
       \/ /\ queries_queue # <<>>
          /\ Hold(Executor, Head(queries_queue), "acquire")
          /\ queries_queue' = Tail(queries_queue)
    /\ UNCHANGED <<Busy, query_buffer, flags, server, history>>

\* Both threads leave their loops, give their connections back, and do what is
\* left.
Test(t) ==
    /\ at[t].pc = "test"
    /\ \/ ThreadState # "terminate" /\ Goto(t, "pop") /\ UNCHANGED Busy
       \/ /\ ThreadState = "terminate"
          /\ Busy' = Freed(t)
          /\ at' = [at EXCEPT ![t].con = None, ![t].over = TRUE, ![t].pc = "pop"]
    /\ UNCHANGED <<queues, flags, server, history>>

\* A plausible mistake: a statement that comes after a pause finds no connection.
PopQueryUnsent ==
    /\ at[Executor].pc = "pop" /\ queries_queue # <<>>
    /\ Hold(Executor, Head(queries_queue), IF at[Executor].con = None THEN "test" ELSE "send")
    /\ queries_queue' = Tail(queries_queue)
    /\ UNCHANGED <<Busy, query_buffer, flags, server, history>>

PopQuery ==
    /\ at[Executor].pc = "pop" /\ queries_queue # <<>>
    /\ Hold(Executor, Head(queries_queue), IF at[Executor].con = None THEN "acquire" ELSE "send")
    /\ queries_queue' = Tail(queries_queue)
    /\ UNCHANGED <<Busy, query_buffer, flags, server, history>>

\* Plausible mistakes: an idle thread keeps its connection, or goes on to use
\* the one that it has given back.
PauseHolding ==
    /\ at[Executor].pc = "pop" /\ queries_queue = <<>>
    /\ at' = [at EXCEPT ![Executor].pc = IF at[Executor].over THEN "stop" ELSE "test"]
    /\ UNCHANGED <<Busy, queues, flags, server, history>>

PauseStale ==
    /\ at[Executor].pc = "pop" /\ queries_queue = <<>>
    /\ Busy' = Freed(Executor)
    /\ at' = [at EXCEPT ![Executor].pc = IF at[Executor].over THEN "stop" ELSE "test"]
    /\ UNCHANGED <<queues, flags, server, history>>

\* Nothing is queued.
Pause ==
    /\ at[Executor].pc = "pop" /\ queries_queue = <<>>
    /\ Busy' = Freed(Executor)
    /\ at' = [at EXCEPT ![Executor].con = None,
                        ![Executor].pc = IF at[Executor].over THEN "stop" ELSE "test"]
    /\ UNCHANGED <<queues, flags, server, history>>

PopBuffer ==
    /\ at[Querier].pc = "pop" /\ query_buffer # <<>>
    /\ Hold(Querier, Head(query_buffer), IF at[Querier].con = None THEN "acquire" ELSE "begin")
    /\ query_buffer' = Tail(query_buffer)
    /\ UNCHANGED <<Busy, queries_queue, flags, server, history>>

\* The query thread sleeps with its connection.
PauseBuffer ==
    /\ at[Querier].pc = "pop" /\ query_buffer = <<>>
    /\ Goto(Querier, IF at[Querier].over THEN "stop" ELSE "test")
    /\ UNCHANGED <<Busy, queues, flags, server, history>>

\* A plausible mistake: the execute thread does not say that it ends.
StopSilently ==
    /\ at[Executor].pc = "stop"
    /\ Goto(Executor, "done")
    /\ UNCHANGED <<Busy, queues, flags, server, history>>

Stop ==
    /\ at[Executor].pc = "stop"
    /\ ThreadRunning' = FALSE
    /\ Goto(Executor, "done")
    /\ UNCHANGED <<Busy, queues, qt, ThreadState, server, history>>

\* The pool deletes the QueryThread.
StopBuffers ==
    /\ at[Querier].pc = "stop"
    /\ qt' = FALSE
    /\ Goto(Querier, "done")
    /\ UNCHANGED <<Busy, queues, ThreadRunning, ThreadState, server, history>>

-----------------------------------------------------------------------------
\* Calls

\* Execute: queued, or executed by WaitExecuteNA.
Execute(t) ==
    /\ at[t].pc = "idle" /\ made.query < MaxQueries
    /\ made' = [made EXCEPT !.query = @ + 1]
    /\ Hold(t, <<"query", made.query + 1>>, IF ThreadRunning THEN "push" ELSE "acquire")
    /\ UNCHANGED <<Busy, queues, flags, server, early, ending>>

AddQueryBuffer(t) ==
    /\ at[t].pc = "idle" /\ made.buffer < MaxBuffers
    /\ made' = [made EXCEPT !.buffer = @ + 1]
    /\ Hold(t, <<"buffer", made.buffer + 1>>, IF qt THEN "push" ELSE "acquire")
    /\ UNCHANGED <<Busy, queues, flags, server, early, ending>>

\* Query, WaitExecute, EscapeString, AsyncQuery::Perform: what they have to do
\* with the rest is the connection they hold.
QuerySync(t) ==
    /\ at[t].pc = "idle"
    /\ Goto(t, "acquire")
    /\ UNCHANGED <<Busy, queues, flags, server, history>>

Queued(x) ==
    IF x \in Query THEN queries_queue' = Append(queries_queue, x) /\ UNCHANGED query_buffer
                   ELSE query_buffer' = Append(query_buffer, x) /\ UNCHANGED queries_queue

Push(t) ==
    /\ at[t].pc = "push"
    /\ Queued(at[t].item)
    /\ early' = IF ending THEN early ELSE early \cup {at[t].item}
    /\ Hold(t, Nothing, "idle")
    /\ UNCHANGED <<Busy, flags, server, made, ending>>

-----------------------------------------------------------------------------
\* EndThreads, once

End ==
    /\ at[Main].pc = "idle" /\ ~ending
    /\ ending' = TRUE
    /\ Goto(Main, "buffers")
    /\ UNCHANGED <<Busy, queues, flags, server, made, early>>

\* Two loops that "spin until theres nothing left": pop, and push it again.
SpinBuffers ==
    /\ at[Main].pc = "buffers"
    /\ \/ query_buffer = <<>> /\ Goto(Main, "queries") /\ UNCHANGED query_buffer
       \/ /\ query_buffer # <<>>
          /\ Hold(Main, Head(query_buffer), "again")
          /\ query_buffer' = Tail(query_buffer)
    /\ UNCHANGED <<Busy, queries_queue, flags, server, history>>

SpinQueries ==
    /\ at[Main].pc = "queries"
    /\ \/ queries_queue = <<>> /\ Goto(Main, "terminate") /\ UNCHANGED queries_queue
       \/ /\ queries_queue # <<>>
          /\ Hold(Main, Head(queries_queue), "again")
          /\ queries_queue' = Tail(queries_queue)
    /\ UNCHANGED <<Busy, query_buffer, flags, server, history>>

\* A plausible mistake: what was taken out to see that it is there stays out.
PutBackNothing ==
    /\ at[Main].pc = "again"
    /\ Hold(Main, Nothing, IF at[Main].item \in Query THEN "queries" ELSE "buffers")
    /\ UNCHANGED <<Busy, queues, flags, server, history>>

PutBack ==
    /\ at[Main].pc = "again"
    /\ Queued(at[Main].item)
    /\ Hold(Main, Nothing, IF at[Main].item \in Query THEN "queries" ELSE "buffers")
    /\ UNCHANGED <<Busy, flags, server, history>>

Terminate ==
    /\ at[Main].pc = "terminate"
    /\ ThreadState' = "terminate"
    /\ Goto(Main, "wait")
    /\ UNCHANGED <<Busy, queues, ThreadRunning, qt, server, history>>

\* It waits for the execute thread only; then the server goes on.
EndThreads ==
    /\ at[Main].pc = "wait" /\ ~ThreadRunning
    /\ at' = [at EXCEPT ![Main].over = TRUE, ![Main].pc = "idle"]
    /\ early' = {}
    /\ UNCHANGED <<Busy, queues, flags, server, made, ending>>

-----------------------------------------------------------------------------
UseConnection(t) ==
    GetFreeConnection(t) \/ Send(t) \/ Release(t) \/ Begin(t) \/ Perform(t) \/ Commit(t)

CallerStep(t) == UseConnection(t) \/ Push(t)
ExecutorStep == UseConnection(Executor) \/ Start \/ FirstPop \/ Test(Executor) \/ Pause \/ Stop
QuerierStep == UseConnection(Querier) \/ Test(Querier) \/ PauseBuffer \/ StopBuffers
MainStep == SpinBuffers \/ SpinQueries \/ PutBack \/ Terminate \/ EndThreads

Next ==
    \/ \E t \in Caller : CallerStep(t) \/ Execute(t) \/ AddQueryBuffer(t) \/ QuerySync(t)
    \/ ExecutorStep \/ PopQuery
    \/ QuerierStep \/ PopBuffer
    \/ End \/ MainStep

Spec == Init /\ [][Next]_vars

\* The threads are scheduled; whoever spins for a connection, or pops a queue
\* that is filled again and again, has its turn in the end.
FairSpec ==
    /\ Spec
    /\ \A t \in Caller : SF_vars(CallerStep(t))
    /\ SF_vars(ExecutorStep) /\ SF_vars(PopQuery)
    /\ SF_vars(QuerierStep) /\ SF_vars(PopBuffer)
    /\ WF_vars(MainStep)

-----------------------------------------------------------------------------
Item == Query \cup Buffer
Statement == UNION {Parts(x) : x \in Item}
Label == {"start", "first", "acquire", "pop", "test", "send", "begin", "perform", "commit",
          "release", "stop", "done", "idle", "push", "buffers", "queries", "again",
          "terminate", "wait"}

TypeOK ==
    /\ Busy \in [Con -> Thread \cup {None}]
    /\ at \in [Thread -> [pc : Label, item : Item \cup {Nothing}, con : Con \cup {None},
                          part : 0..Size, over : BOOLEAN]]
    /\ queries_queue \in Seq(Query) /\ query_buffer \in Seq(Buffer)
    /\ ThreadRunning \in BOOLEAN /\ qt \in BOOLEAN
    /\ ThreadState \in {"awaiting", "busy", "terminate"}
    /\ open \in [Con -> (SUBSET Statement) \cup {Closed}]
    /\ stored \subseteq Statement /\ refused \subseteq Statement
    /\ drops \in Nat /\ hurt \subseteq Item
    /\ made \in [query : 0..MaxQueries, buffer : 0..MaxBuffers]
    /\ early \subseteq Item
    /\ ending \in BOOLEAN

\* A thread that has the pointer of a connection, to send over it or to give it
\* back, holds its mutex: no two threads use one connection.
ConnectionsOwned == \A t \in Thread : at[t].con # None => Busy[at[t].con] = t

\* The statements of a QueryBuffer are stored all together or not at all, but for
\* those the server refuses, and a transaction has the statements of one buffer
\* only.  A lost connection harms the buffer being sent and no other.
WholeBuffers ==
    /\ \A b \in Buffer \ hurt : Parts(b) \cap stored \in {{}, Parts(b) \ refused}
    /\ \A c \in Con : open[c] # Closed => \E b \in Buffer : open[c] \subseteq Parts(b)

\* The server has had every statement of it and answered.
Answered(x) == Parts(x) \subseteq stored \cup refused

\* When EndThreads may return, every statement that was queued when it was called
\* has been stored or refused, though it took some out of the queue itself; only
\* one in whose sending the connection was lost may be missing.
SavedAtEnd ==
    at[Main].pc = "wait" /\ ~ThreadRunning =>
      \A x \in (early \cap Query) \ hurt : Answered(x)

\* Nobody waits for ever.  A thread that needs a connection gets one, though two
\* threads keep theirs while they have work; and once EndThreads has told the
\* threads to stop it comes to its end, if the execute thread has begun to run.
NobodyStuck ==
    /\ \A t \in Caller : at[t].pc = "acquire" ~> at[t].pc # "acquire"
    /\ [](at[Executor].pc = "start" => ThreadState # "terminate") =>
         (ThreadState = "terminate" ~> at[Main].over)

\* While the server runs, all that was handed over is stored or refused in the
\* end, but for what was being sent when a connection was lost.
StoredWhileRunning ==
    []~ending => \A x \in Item : x \in early ~> x \in hurt \/ Answered(x)

\* Types, transactions that are stored whole or not at all but for the statements
\* refused, and everything queued before EndThreads sent when its threads end.
Consistent == TypeOK /\ WholeBuffers /\ SavedAtEnd
=============================================================================
