----------------------------- MODULE SharedConn -----------------------------
(***************************************************************************)
(* The one PGconn of the program, db_conn of globals.h, as the service     *)
(* threads share it: login of backend/src/api/login.c on every thread,     *)
(* with PQexec taken apart into the steps libpq makes of it.  There is no  *)
(* lock in the program.  libpq and the database server are external:       *)
(* PQexec first drops what is left of an earlier command, checks that none *)
(* is in progress, sends the query, and then collects results until the    *)
(* server says it is ready, keeping the last.                              *)
(*                                                                         *)
(* A definition whose name extends that of the definition below it is a    *)
(* faulty variant of it (README, Mutants).                                 *)
(***************************************************************************)
EXTENDS Naturals, Sequences

CONSTANTS
    Threads,        \* the service threads, tsi
    Users,          \* rows of the users table; a user stands for its token
    MaxPending,     \* messages on the connection (bound of the model)
    None            \* no reply, or no PGresult (NULL)

ASSUME NoneAssumption ==
    None \notin Users /\ {"error", "failed", "ready", "stranger"} \cap (Users \cup {None}) = {}

\* The queries of login, named by the user whose row each returns; a wrong name
\* or password returns no row.
Queries == Users \cup {"stranger"}

VARIABLES
    pc, want,       \* what each thread does, and the query of its request
    held,           \* the last result its PQexec has collected
    reply,          \* the token of its last response, or "error"
    async,          \* db_conn: idle or busy with a command
    alive,          \* db_conn: PQstatus is CONNECTION_OK
    sent, inbound,  \* queries and results under way to and from the server
    overlapped      \* two PQexec calls have overlapped

conn == <<async, alive, sent, inbound>>
vars == <<pc, want, held, reply, conn, overlapped>>

Init ==
    /\ pc = [t \in Threads |-> "idle"]
    /\ want = [t \in Threads |-> None]
    /\ held = [t \in Threads |-> None]
    /\ reply = [t \in Threads |-> None]
    /\ async = "idle" /\ alive = TRUE /\ sent = <<>> /\ inbound = <<>>
    /\ overlapped = FALSE

Executing(t) == pc[t] \in {"drain", "check", "send", "collect"}

\* login builds its query and calls PQexec(db_conn, query).
Login(t, q) ==
    /\ pc[t] = "idle"
    /\ pc' = [pc EXCEPT ![t] = "drain"]
    /\ want' = [want EXCEPT ![t] = q]
    /\ held' = [held EXCEPT ![t] = None]
    /\ reply' = [reply EXCEPT ![t] = None]
    /\ overlapped' = (overlapped \/ \E o \in Threads : Executing(o))
    /\ UNCHANGED conn

\* PQgetResult: the next message when a command is in progress.  m is the
\* message, and a lost connection ends the command with an error result.
GetResult(m) ==
    /\ async = "busy"
    /\ \/ /\ alive /\ inbound # <<>> /\ m = Head(inbound)
          /\ inbound' = Tail(inbound)
          /\ async' = IF m = "ready" THEN "idle" ELSE "busy"
       \/ /\ ~alive /\ m = "failed"
          /\ async' = "idle" /\ UNCHANGED inbound
    /\ UNCHANGED <<alive, sent>>

\* PQexecStart: what is left of an earlier command is read and dropped.
Drain(t) ==
    /\ pc[t] = "drain"
    /\ \/ /\ async = "idle"
          /\ pc' = [pc EXCEPT ![t] = "check"] /\ UNCHANGED conn
       \/ \E m \in Queries \cup {"ready", "failed"} : GetResult(m) /\ UNCHANGED pc
    /\ UNCHANGED <<want, held, reply, overlapped>>

\* PQsendQuery refuses a connection that is lost or busy; PQexec then answers
\* NULL.
Check(t) ==
    /\ pc[t] = "check"
    /\ pc' = [pc EXCEPT ![t] = IF alive /\ async = "idle" THEN "send" ELSE "answer"]
    /\ UNCHANGED <<want, held, reply, conn, overlapped>>

Send(t) ==
    /\ pc[t] = "send"
    /\ 2 * Len(sent) + Len(inbound) < MaxPending
    /\ async' = "busy"
    /\ sent' = IF alive THEN Append(sent, want[t]) ELSE sent
    /\ pc' = [pc EXCEPT ![t] = "collect"]
    /\ UNCHANGED <<want, held, reply, alive, inbound, overlapped>>

\* PQexecFinish: the last result is kept, the ones before it are cleared.
Collect(t) ==
    /\ pc[t] = "collect"
    /\ \/ /\ async = "idle"
          /\ pc' = [pc EXCEPT ![t] = "answer"] /\ UNCHANGED <<held, conn>>
       \/ \E m \in Queries \cup {"ready", "failed"} :
            /\ GetResult(m)
            /\ held' = IF m = "ready" THEN held ELSE [held EXCEPT ![t] = m]
            /\ UNCHANGED pc
    /\ UNCHANGED <<want, reply, overlapped>>

AnswerOfUnchecked(res) == res
\* PQresultStatus of NULL and of an error result is PGRES_FATAL_ERROR; a result
\* without rows is a wrong name or password.
AnswerOf(res) == IF res \in {None, "failed", "stranger"} THEN "error" ELSE res

\* The rest of login: the response, PQclear.
Answer(t) ==
    /\ pc[t] = "answer"
    /\ pc' = [pc EXCEPT ![t] = "idle"]
    /\ reply' = [reply EXCEPT ![t] = AnswerOf(held[t])]
    /\ held' = [held EXCEPT ![t] = None]
    /\ UNCHANGED <<want, conn, overlapped>>

\* The server answers queries in the order in which they arrive.
Serve ==
    /\ alive /\ sent # <<>>
    /\ inbound' = inbound \o <<Head(sent), "ready">> /\ sent' = Tail(sent)
    /\ UNCHANGED <<pc, want, held, reply, async, alive, overlapped>>

\* The connection is lost, for good: the program never calls PQreset.
Lose ==
    /\ alive
    /\ alive' = FALSE /\ sent' = <<>> /\ inbound' = <<>>
    /\ UNCHANGED <<pc, want, held, reply, async, overlapped>>

Next ==
    \/ \E t \in Threads :
         \/ \E q \in Queries : Login(t, q)
         \/ Drain(t) \/ Check(t) \/ Send(t) \/ Collect(t) \/ Answer(t)
    \/ Serve \/ Lose

Spec == Init /\ [][Next]_vars

-----------------------------------------------------------------------------
(***************************************************************************)
(* Properties.                                                             *)
(***************************************************************************)

\* The variables hold what the threads and libpq store in them.
TypeOK ==
    /\ pc \in [Threads -> {"idle", "drain", "check", "send", "collect", "answer"}]
    /\ want \in [Threads -> Queries \cup {None}]
    /\ held \in [Threads -> Queries \cup {"failed", None}]
    /\ reply \in [Threads -> Users \cup {"error", None}]
    /\ async \in {"idle", "busy"} /\ alive \in BOOLEAN /\ overlapped \in BOOLEAN
    /\ sent \in Seq(Queries) /\ inbound \in Seq(Queries \cup {"ready"})

\* A login answers with the token of the user it named, or with an error, as
\* long as no two PQexec calls have overlapped, whatever thread made the
\* earlier ones and wherever the connection was lost.
OwnTokenUnlessOverlapped ==
    ~overlapped => \A t \in Threads : reply[t] \in {None, want[t], "error"}

\* The token a login answers with is that of the user who logs in: the checker
\* compares it with the one that registration answered with.
OwnToken == \A t \in Threads : reply[t] \in {None, want[t], "error"}
=============================================================================
