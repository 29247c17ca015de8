------------------------------ MODULE TestRunner ------------------------------
(***************************************************************************)
(* The hardware tests of the web interface: /test/start creates a task     *)
(* that runs one test; /test/status and /test/result return what the task  *)
(* has stored (test_*_handler, test_runner_task and run_test_* in          *)
(* web_server.c).  The handlers run one after the other, in the task of    *)
(* the web server; the test's task runs beside them and shares four        *)
(* variables with them, without a lock.                                    *)
(*                                                                         *)
(* Any number of clients use them, and none is told apart: a client starts *)
(* a test, asks for the status until it reads "done", and asks for the     *)
(* result, while others do the same.  Tests are numbered in the order they *)
(* are started.                                                            *)
(***************************************************************************)
EXTENDS Naturals

CONSTANTS Clients,      \* whoever sends requests
          MaxTests,     \* bound: the tests started
          MaxFailures   \* bound: the tasks that cannot be created

TestsAssumption == MaxTests \in Nat \ {0} /\ MaxFailures \in Nat

VARIABLES
  isRunning,   \* g_test_is_running
  status,      \* g_test_status
  result,      \* g_test_result_json: of which test, and whether it is whole
  tasks,       \* where each test's task stands
  started,     \* the tests started
  failures,    \* the tasks that could not be created
  client,      \* where each client stands
  own,         \* observation: per client, the test it started
  seen,        \* observation: per client, it has read "running" since
  answer       \* per client, what it was given as its result

tests == <<isRunning, status, result, tasks, started, failures>>
users == <<client, own, seen, answer>>
vars == <<tests, users>>

NoResult == [test |-> 0, whole |-> TRUE]

Init ==
  /\ isRunning = FALSE /\ status = "idle" /\ result = NoResult
  /\ tasks = [t \in 1 .. MaxTests |-> "none"]
  /\ started = 0 /\ failures = 0
  /\ client = [c \in Clients |-> "idle"] /\ own = [c \in Clients |-> 0]
  /\ seen = [c \in Clients |-> FALSE] /\ answer = [c \in Clients |-> NoResult]

-----------------------------------------------------------------------------
(* test_start_handler.  While a test runs it answers "already running" and  *)
(* changes nothing; it looks at nothing else, whoever asks.                 *)

\* The client waits for the test it started, or goes away.
Begins(c) ==
  /\ client[c] = "idle"
  /\ \/ /\ client' = [client EXCEPT ![c] = "polling"]
        /\ own' = [own EXCEPT ![c] = started + 1]
     \/ UNCHANGED <<client, own>>
  /\ UNCHANGED <<seen, answer>>

\* The flag is set and the task created.
Start(c) ==
  /\ ~isRunning /\ started < MaxTests
  /\ started' = started + 1
  /\ isRunning' = TRUE
  /\ tasks' = [tasks EXCEPT ![started + 1] = "created"]
  /\ Begins(c)
  /\ UNCHANGED <<status, result, failures>>

\* xTaskCreate has no memory: its result is not looked at, the answer is the
\* same and the flag stays.
StartFails(c) ==
  /\ ~isRunning /\ started < MaxTests /\ failures < MaxFailures
  /\ started' = started + 1
  /\ isRunning' = TRUE
  /\ failures' = failures + 1
  /\ Begins(c)
  /\ UNCHANGED <<status, result, tasks>>

\* test_status_handler: the status of whichever test there is.
Status(c) ==
  /\ client[c] = "polling"
  /\ seen' = [seen EXCEPT ![c] = @ \/ status = "running"]
  /\ client' = [client EXCEPT ![c] = IF status = "done" THEN "done" ELSE @]
  /\ UNCHANGED <<tests, own, answer>>

\* test_result_handler: what is in the buffer, also while a task formats it.
Result(c) ==
  /\ client[c] = "done"
  /\ client' = [client EXCEPT ![c] = "answered"]
  /\ answer' = [answer EXCEPT ![c] = result]
  /\ UNCHANGED <<tests, own, seen>>

Again(c) ==
  /\ client[c] = "answered"
  /\ client' = [client EXCEPT ![c] = "idle"] /\ own' = [own EXCEPT ![c] = 0]
  /\ seen' = [seen EXCEPT ![c] = FALSE] /\ answer' = [answer EXCEPT ![c] = NoResult]
  /\ UNCHANGED tests

-----------------------------------------------------------------------------
(* test_runner_task.                                                       *)

Step(t, from, to) == tasks[t] = from /\ tasks' = [tasks EXCEPT ![t] = to]

TaskRunning(t) ==
  /\ Step(t, "created", "testing") /\ status' = "running"
  /\ UNCHANGED <<isRunning, result, started, failures, users>>

\* The result is formatted in place, into the buffer the handler sends.
TaskResult(t) ==
  /\ Step(t, "testing", "storing") /\ result' = [test |-> t, whole |-> FALSE]
  /\ UNCHANGED <<isRunning, status, started, failures, users>>

\* Mutant: the test is done before its result is stored.
TaskDoneEarly(t) ==
  /\ Step(t, "storing", "tested") /\ status' = "done"
  /\ UNCHANGED <<isRunning, result, started, failures, users>>

TaskResultWhole(t) ==
  /\ Step(t, "storing", "tested") /\ result' = [test |-> t, whole |-> TRUE]
  /\ UNCHANGED <<isRunning, status, started, failures, users>>

TaskDone(t) ==
  /\ Step(t, "tested", "done") /\ status' = "done"
  /\ UNCHANGED <<isRunning, result, started, failures, users>>

\* Mutant: the flag is not cleared.
TaskEndMarked(t) ==
  /\ Step(t, "done", "none")
  /\ UNCHANGED <<isRunning, status, result, started, failures, users>>

TaskEnd(t) ==
  /\ Step(t, "done", "none") /\ isRunning' = FALSE
  /\ UNCHANGED <<status, result, started, failures, users>>

Task(t) == TaskRunning(t) \/ TaskResult(t) \/ TaskResultWhole(t) \/ TaskDone(t) \/ TaskEnd(t)

Next ==
  \/ \E c \in Clients : Start(c) \/ StartFails(c) \/ Status(c) \/ Result(c) \/ Again(c)
  \/ \E t \in 1 .. MaxTests : Task(t)

Spec == Init /\ [][Next]_vars

\* A task that has been created is scheduled until it ends.
Fairness == \A t \in 1 .. MaxTests : WF_vars(Task(t))
FairSpec == Spec /\ Fairness

-----------------------------------------------------------------------------
Results == [test : 0 .. MaxTests, whole : BOOLEAN]

TypeOK ==
  /\ isRunning \in BOOLEAN /\ status \in {"idle", "running", "done"}
  /\ result \in Results
  /\ tasks \in [1 .. MaxTests -> {"none", "created", "testing", "storing", "tested", "done"}]
  /\ started \in 0 .. MaxTests /\ failures \in 0 .. MaxFailures
  /\ client \in [Clients -> {"idle", "polling", "done", "answered"}]
  /\ own \in [Clients -> 0 .. MaxTests]
  /\ seen \in [Clients -> BOOLEAN] /\ answer \in [Clients -> Results]

\* Two tests never drive the pins at once (lines 1461, 1485 and 1448).
OneAtATime ==
  \A t, u \in 1 .. MaxTests : tasks[t] # "none" /\ tasks[u] # "none" => t = u

\* A client that has read "running" and then "done" is given the result of its
\* test, complete, or what a test has stored that was started after it: never
\* the result of an earlier one, nor its own half formatted.  Another client may
\* start a test between the "done" and the request for the result (lines 1461,
\* 1497 and 1512); while none does, the result is the client's own.  A client
\* that has not read "running" may have read the "done" of the test before: the
\* task sets the status, not the handler (lines 1432 and 1447).
ResultIsOwn ==
  \A c \in Clients : client[c] = "answered" /\ seen[c] =>
    \/ answer[c] = [test |-> own[c], whole |-> TRUE]
    \/ own[c] < answer[c].test /\ answer[c].test <= started

\* Tests can be started again: the flag of a test is cleared, unless its task
\* was never created (line 1486).
FlagIsCleared == isRunning ~> (~isRunning \/ failures > 0)
=============================================================================
