----------------------------- MODULE LifeCycle -----------------------------
(***************************************************************************)
(* The process life cycle of backend/src/main.c: main() reads its options, *)
(* opens the database, creates the libwebsockets context and the virtual   *)
(* hosts, starts the service threads, joins them and releases everything;  *)
(* SIGINT and SIGTERM run sigint_handler on any thread at any step.        *)
(* libwebsockets, libpq and pthreads are external: a call that may fail    *)
(* has one disjunct for each outcome.                                      *)
(*                                                                         *)
(* A definition whose name extends that of the definition below it is a    *)
(* faulty variant of it (README, Mutants).                                 *)
(***************************************************************************)
EXTENDS Integers, FiniteSets

CONSTANTS
    Longs,          \* what strtol may return for the argument of -p or -t
    IntMod,         \* 2^32: the values of an int, as a modulus
    PortLimit,      \* 65536
    MaxSMP,         \* LWS_MAX_SMP: libwebsockets serves with no more threads
    DefaultThreads, \* 8
    MaxSignals,     \* bound: signals delivered in one life of the process
    Debug           \* the DEBUG build has an http virtual host too

ASSUME LifeAssumption ==
    /\ Longs \subseteq Int /\ IntMod \in Nat \ {0} /\ PortLimit \in Nat \ {0}
    /\ MaxSMP \in Nat \ {0} /\ DefaultThreads \in Nat \ {0}
    /\ MaxSignals \in Nat /\ Debug \in BOOLEAN

Thread  == 0 .. MaxSMP - 1
Main    == -1
Signals == {"SIGINT", "SIGTERM"}

VARIABLES
    pc,             \* where main() is
    threads_num,    \* the threads asked for
    context,        \* the global pointer: null, live, dead (freed, not reset)
    live,           \* what is allocated
    n,              \* main's loop counter
    thread,         \* none, service (in lws_service_tsi), check, exited
    wake,           \* the thread's event pipe was written to
    interrupted,
    handler,        \* for each signal: where its handler is, and on which thread
    sent,           \* signals delivered so far
    fault,          \* how the process crashed
    code            \* what main() returns, -1 while it has not

vars == <<pc, threads_num, context, live, n, thread, wake, interrupted, handler,
          sent, fault, code>>

EXIT_SUCCESS                   == 0
EXIT_FAILURE_ARGS              == 1
EXIT_FAILURE_SERVER_INIT       == 2
EXIT_FAILURE_SERVER_INIT_VHOST == 4
EXIT_FAILURE_SERVER_INIT_DB    == 8

\* The handlers are installed, the two option buffers are allocated.
Init ==
    /\ pc = "args" /\ threads_num = DefaultThreads
    /\ context = "null" /\ live = {"db_conn_str", "salt"} /\ n = 0
    /\ thread = [t \in Thread |-> "none"] /\ wake = [t \in Thread |-> FALSE]
    /\ interrupted = FALSE /\ sent = 0
    /\ handler = [s \in Signals |-> [at |-> "idle", on |-> Main]]
    /\ fault = "none" /\ code = -1

\* A process that has neither crashed nor returned; a thread that a signal
\* handler has interrupted does nothing until the handler returns.
Alive   == fault = "none" /\ pc # "exited"
Free(x) == \A s \in Signals : handler[s].at # "idle" => handler[s].on # x
MainAt(p) == Alive /\ Free(Main) /\ pc = p

\* return in main(), after the calls that release something.
Return(c, freed) ==
    /\ pc' = "leaving" /\ code' = c /\ live' = live \ freed

signalVars == <<interrupted, handler, sent, fault>>
serveVars  == <<context, thread, wake>>

-----------------------------------------------------------------------------
(***************************************************************************)
(* main().                                                                 *)
(***************************************************************************)

\* (int) strtol(...)
ToInt(v) == ((v + IntMod \div 2) % IntMod) - IntMod \div 2

\* -p: not a number, out of range for a long, or an int the check refuses.
\* Of the port only the check matters here: nothing reads it but libwebsockets.
OptPort ==
    /\ MainAt("args")
    /\ \/ Return(EXIT_FAILURE_ARGS, {"db_conn_str", "salt"})
       \/ /\ \E v \in Longs : ToInt(v) \in 1..PortLimit
          /\ UNCHANGED <<pc, code, live>>
    /\ UNCHANGED <<threads_num, n, serveVars, signalVars>>

\* -t
OptThreads(v) ==
    /\ MainAt("args")
    /\ threads_num' = ToInt(v)
    /\ \/ /\ ToInt(v) < 1
          /\ Return(EXIT_FAILURE_ARGS, {"db_conn_str", "salt"})
       \/ /\ ToInt(v) >= 1
          /\ UNCHANGED <<pc, code, live>>
    /\ UNCHANGED <<n, serveVars, signalVars>>

\* getopt_long is at the end; pthread_service = calloc(threads_num, ...)
EndOptions ==
    /\ MainAt("args")
    /\ live' = live \cup {"pthread_service"}
    /\ pc' = "connect"
    /\ UNCHANGED <<threads_num, n, code, serveVars, signalVars>>

\* PQconnectdb; db_conn is set even if the connection is not there.
Connect ==
    /\ MainAt("connect")
    /\ \/ /\ live' = (live \ {"db_conn_str"}) \cup {"db_conn"}
          /\ pc' = "schema" /\ UNCHANGED code
       \/ /\ pc' = "leaving" /\ code' = EXIT_FAILURE_SERVER_INIT_DB
          /\ live' = (live \ {"db_conn_str", "salt"}) \cup {"db_conn"}
    /\ UNCHANGED <<threads_num, n, serveVars, signalVars>>

\* DROP and CREATE of the two tables.
CreateSchema ==
    /\ MainAt("schema")
    /\ \/ pc' = "context" /\ UNCHANGED <<code, live>>
       \/ Return(EXIT_FAILURE_SERVER_INIT_DB, {"salt"})
    /\ UNCHANGED <<threads_num, n, serveVars, signalVars>>

CreateContextLocal ==
    /\ MainAt("context")
    /\ pc' = (IF Debug THEN "http" ELSE "https")
    /\ UNCHANGED <<context, code, live, thread, wake, threads_num, n, signalVars>>
\* context = lws_create_context(&info)
CreateContext ==
    /\ MainAt("context")
    /\ \/ /\ context' = "live" /\ pc' = (IF Debug THEN "http" ELSE "https")
          /\ UNCHANGED <<code, live>>
       \/ /\ Return(EXIT_FAILURE_SERVER_INIT, {"pthread_service", "salt"})
          /\ UNCHANGED context
    /\ UNCHANGED <<thread, wake, threads_num, n, signalVars>>

\* lws_create_vhost, for http in the DEBUG build and then for https.
CreateVhost(vhost, next) ==
    /\ MainAt(vhost)
    /\ \/ pc' = next /\ UNCHANGED <<code, live, context>>
       \/ /\ context' = "dead"
          /\ Return(EXIT_FAILURE_SERVER_INIT_VHOST, {"pthread_service", "salt"})
    /\ UNCHANGED <<thread, wake, threads_num, n, signalVars>>

\* lws_get_count_threads: what was asked for, up to LWS_MAX_SMP.
CountThreads == IF threads_num < MaxSMP THEN threads_num ELSE MaxSMP

SpawnInclusive ==
    /\ MainAt("spawn")
    /\ \/ /\ n <= CountThreads
          /\ n' = n + 1 /\ UNCHANGED pc
          /\ thread' = [thread EXCEPT ![n] = "service"]
       \/ /\ n > CountThreads
          /\ pc' = "join" /\ UNCHANGED <<thread, n>>
    /\ UNCHANGED <<threads_num, context, live, wake, code, signalVars>>
\* pthread_create in a loop; a thread that cannot be created is only logged.
Spawn ==
    /\ MainAt("spawn")
    /\ \/ /\ n < CountThreads
          /\ n' = n + 1 /\ UNCHANGED pc
          /\ \/ thread' = [thread EXCEPT ![n] = "service"]
             \/ UNCHANGED thread
       \/ /\ n >= CountThreads
          /\ pc' = "join" /\ UNCHANGED <<thread, n>>
    /\ UNCHANGED <<threads_num, context, live, wake, code, signalVars>>

JoinSkipsFirst ==
    /\ MainAt("join")
    /\ \/ /\ n > 1 /\ thread[n - 1] = "exited"
          /\ n' = n - 1 /\ UNCHANGED pc
       \/ n <= 1 /\ pc' = "destroy" /\ UNCHANGED n
    /\ UNCHANGED <<threads_num, live, code, serveVars, signalVars>>
\* while (--n >= 0) pthread_join: waits for the thread.  Joining a thread that
\* was never created reads the zero that calloc left in its slot: undefined,
\* an error code or a crash.
Join ==
    /\ MainAt("join")
    /\ \/ /\ n > 0 /\ thread[n - 1] \in {"exited", "none"}
          /\ n' = n - 1 /\ UNCHANGED <<pc, fault>>
       \/ /\ n > 0 /\ thread[n - 1] = "none"
          /\ fault' = "join" /\ UNCHANGED <<pc, n>>
       \/ n = 0 /\ pc' = "destroy" /\ UNCHANGED <<n, fault>>
    /\ UNCHANGED <<threads_num, live, code, serveVars, interrupted, handler, sent>>

\* lws_context_destroy; the global keeps its value.
Destroy ==
    /\ MainAt("destroy")
    /\ context' = "dead" /\ pc' = "release"
    /\ UNCHANGED <<threads_num, live, n, thread, wake, code, signalVars>>

ReleaseKeepsConn ==
    /\ MainAt("release")
    /\ Return(EXIT_SUCCESS, {"pthread_service", "salt"})
    /\ UNCHANGED <<threads_num, n, serveVars, signalVars>>
Release ==
    /\ MainAt("release")
    /\ Return(EXIT_SUCCESS, {"pthread_service", "salt", "db_conn"})
    /\ UNCHANGED <<threads_num, n, serveVars, signalVars>>

\* main() has returned and the process ends.
Exit ==
    /\ MainAt("leaving")
    /\ pc' = "exited"
    /\ UNCHANGED <<threads_num, live, n, code, serveVars, signalVars>>

MainStep ==
    \/ OptPort \/ EndOptions \/ \E v \in Longs : OptThreads(v)
    \/ Connect \/ CreateSchema \/ CreateContext
    \/ CreateVhost("http", "https") \/ CreateVhost("https", "spawn")
    \/ Spawn \/ Join \/ Destroy \/ Release \/ Exit

-----------------------------------------------------------------------------
(***************************************************************************)
(* thread_service() and sigint_handler().                                  *)
(***************************************************************************)

threadOnly == <<pc, threads_num, context, live, n, code, signalVars>>

\* lws_service_tsi returns because the pipe was written to.
Woken(t) ==
    /\ Alive /\ Free(t) /\ thread[t] = "service" /\ wake[t]
    /\ thread' = [thread EXCEPT ![t] = "check"] /\ wake' = [wake EXCEPT ![t] = FALSE]
    /\ UNCHANGED threadOnly

\* It returns after other events, with a failure (< 0) or without.
Served(t) ==
    /\ Alive /\ Free(t) /\ thread[t] = "service"
    /\ \E next \in {"check", "exited"} : thread' = [thread EXCEPT ![t] = next]
    /\ UNCHANGED <<wake, threadOnly>>

\* ... && !interrupted
Check(t) ==
    /\ Alive /\ Free(t) /\ thread[t] = "check"
    /\ thread' = [thread EXCEPT ![t] = IF interrupted THEN "exited" ELSE "service"]
    /\ UNCHANGED <<wake, threadOnly>>

\* The kernel runs the handler on a thread that exists.
Deliver(s, x) ==
    /\ Alive /\ sent < MaxSignals /\ handler[s].at = "idle"
    /\ x \in Thread => thread[x] \in {"service", "check"}
    /\ handler' = [handler EXCEPT ![s] = [at |-> "entered", on |-> x]]
    /\ sent' = sent + 1
    /\ UNCHANGED <<pc, threads_num, live, n, code, serveVars, interrupted, fault>>

\* interrupted = true
HandlerSets(s) ==
    /\ Alive /\ handler[s].at = "entered"
    /\ interrupted' = TRUE
    /\ handler' = [handler EXCEPT ![s].at = "set"]
    /\ UNCHANGED <<pc, threads_num, live, n, code, serveVars, sent, fault>>

HandlerWakesOne(s) ==
    /\ Alive /\ handler[s].at = "set"
    /\ wake' = [wake EXCEPT ![0] = (context = "live")]
    /\ handler' = [handler EXCEPT ![s].at = "idle"]
    /\ UNCHANGED <<pc, threads_num, live, n, code, context, thread, interrupted, sent, fault>>
\* lws_cancel_service(context): writes to the pipe of every service thread; it
\* has no test for a context that is not there.
HandlerCancels(s) ==
    /\ Alive /\ handler[s].at = "set"
    /\ handler' = [handler EXCEPT ![s].at = "idle"]
    /\ \/ /\ context = "live"
          /\ wake' = [t \in Thread |-> TRUE] /\ UNCHANGED fault
       \/ /\ context # "live"
          /\ fault' = context /\ UNCHANGED wake
    /\ UNCHANGED <<pc, threads_num, live, n, code, context, thread, interrupted, sent>>

Next ==
    \/ MainStep
    \/ \E t \in Thread : Woken(t) \/ Served(t) \/ Check(t)
    \/ \E s \in Signals : HandlerSets(s) \/ HandlerCancels(s)
    \/ \E s \in Signals, x \in Thread \cup {Main} : Deliver(s, x)

\* Every thread that can run does run; a written pipe ends the wait; nothing
\* makes other events happen, and nothing makes anyone give another option.
Spec ==
    /\ Init /\ [][Next]_vars
    /\ WF_vars(EndOptions \/ (MainStep /\ pc # "args"))
    /\ \A t \in Thread : WF_vars(Woken(t)) /\ WF_vars(Check(t))
    /\ \A s \in Signals : WF_vars(HandlerSets(s)) /\ WF_vars(HandlerCancels(s))

-----------------------------------------------------------------------------
(***************************************************************************)
(* Properties.                                                             *)
(***************************************************************************)

Serving(t) == thread[t] \in {"service", "check"}

\* The variables hold what the code stores in them.
TypeOK ==
    /\ pc \in {"args", "connect", "schema", "context", "http", "https", "spawn",
               "join", "destroy", "release", "leaving", "exited"}
    /\ threads_num \in Int /\ n \in 0..MaxSMP
    /\ context \in {"null", "live", "dead"}
    /\ live \subseteq {"db_conn_str", "salt", "pthread_service", "db_conn"}
    /\ thread \in [Thread -> {"none", "service", "check", "exited"}]
    /\ wake \in [Thread -> BOOLEAN] /\ interrupted \in BOOLEAN
    /\ handler \in [Signals -> [at : {"idle", "entered", "set"}, on : Thread \cup {Main}]]
    /\ sent \in Nat /\ fault \in {"none", "null", "dead", "join"}
    /\ code \in {-1, 0, 1, 2, 4, 8}

\* What a service thread works with is there for as long as the thread runs:
\* main() releases the context, the salt and the connection only after every
\* thread it created has ended, whichever of them ended first and why.
ThreadsHoldResources ==
    \A t \in Thread : Serving(t) =>
        context = "live" /\ {"salt", "db_conn", "pthread_service"} \subseteq live

\* A thread's slot lies inside the array that was allocated for the number of
\* threads asked for, whatever int the option was read as.
SlotsInBounds == \A t \in Thread : thread[t] # "none" => t < threads_num

\* From the moment the context exists until it is destroyed no signal, in any
\* number and on any thread, crashes the process; only a join of a thread that
\* could not be created does.
ServingSurvivesSignals ==
    pc \in {"http", "https", "spawn", "join", "destroy"} => fault \in {"none", "join"}

\* main() returns success only after it has released everything, and after
\* nobody is left in a service thread.
CleanExit ==
    code = EXIT_SUCCESS => live = {} /\ \A t \in Thread : ~Serving(t)

\* A signal stops the server: once interrupted is set every thread leaves its
\* loop, also one that was about to wait when the signal came, and main() ends.
StopsWhenAsked == interrupted ~> (pc = "exited" \/ fault # "none")
=============================================================================
