-------------------------- MODULE SharedConnProofs --------------------------
(***************************************************************************)
(* Proofs about SharedConn, for any threads, users and connection bound.   *)
(***************************************************************************)
EXTENDS SharedConn, SequenceTheorems, TLAPS

\* Nothing of an earlier command is left on the connection.
Quiet == async = "idle" /\ sent = <<>> /\ inbound = <<>>

\* A thread that collects its result finds it, and nothing else, under way.
Collecting(t) ==
    \/ Quiet
    \/ async = "busy" /\ ~alive /\ sent = <<>> /\ inbound = <<>>
    \/ async = "busy" /\ alive /\ sent = <<want[t]>> /\ inbound = <<>>
    \/ async = "busy" /\ alive /\ sent = <<>> /\ inbound = <<want[t], "ready">>
    \/ async = "busy" /\ alive /\ sent = <<>> /\ inbound = <<"ready">>

\* As long as no calls have overlapped, one thread at a time executes, on a
\* connection that is quiet whenever none is past its Send.
CleanInv ==
    /\ \A t \in Threads : Executing(t) => \A o \in Threads : Executing(o) => o = t
    /\ (\A t \in Threads : pc[t] # "collect") => Quiet
    /\ \A t \in Threads : pc[t] = "collect" => Collecting(t)
    /\ \A t \in Threads : held[t] \in {None, want[t], "failed"}
    /\ \A t \in Threads : reply[t] \in {None, want[t], "error"}

\* A thread that executes a query has named a user.
Named == \A t \in Threads : Executing(t) => want[t] \in Queries

Inv == TypeOK /\ Named /\ (~overlapped => CleanInv)

\* The initial state satisfies the invariant.
LEMMA InitInv == Init => Inv
<1> SUFFICES ASSUME Init PROVE Inv
  OBVIOUS
<1>1. sent \in Seq(Queries) /\ inbound \in Seq(Queries \cup {"ready"})
  BY EmptySeq DEF Init
<1>2. alive \in BOOLEAN /\ overlapped \in BOOLEAN
  BY DEF Init
<1>3. TypeOK
  BY <1>1, <1>2 DEF Init, TypeOK
<1>4. CleanInv
  BY DEF Init, CleanInv, Quiet, Executing
<1>5. Named
  BY DEF Init, Named, Executing
<1> QED  BY <1>3, <1>4, <1>5 DEF Inv

\* PQgetResult returns a message of the connection and keeps its type.
LEMMA GetResultType ==
    ASSUME TypeOK, NEW m, GetResult(m)
    PROVE  /\ async' \in {"idle", "busy"} /\ alive' \in BOOLEAN
           /\ sent' \in Seq(Queries) /\ inbound' \in Seq(Queries \cup {"ready"})
           /\ m \in Queries \cup {"ready", "failed"}
<1>1. async' \in {"idle", "busy"}
  BY DEF GetResult
<1>2. alive' \in BOOLEAN /\ sent' \in Seq(Queries)
  BY DEF GetResult, TypeOK
<1>3. inbound \in Seq(Queries \cup {"ready"})
  BY DEF TypeOK
<1>4. CASE inbound # <<>> /\ m = Head(inbound) /\ inbound' = Tail(inbound)
  BY <1>1, <1>2, <1>3, <1>4, HeadTailProperties
<1>5. CASE m = "failed" /\ UNCHANGED inbound
  BY <1>1, <1>2, <1>3, <1>5
<1> QED  BY <1>4, <1>5 DEF GetResult

\* Every step keeps the types.
LEMMA StepType == TypeOK /\ Named /\ [Next]_vars => TypeOK'
<1> SUFFICES ASSUME TypeOK, Named, [Next]_vars PROVE TypeOK'
  OBVIOUS
<1>1. ASSUME NEW t \in Threads, NEW u \in Queries, Login(t, u) PROVE TypeOK'
  <2>1. overlapped' \in BOOLEAN
    BY <1>1 DEF Login, TypeOK
  <2> QED  BY <1>1, <2>1 DEF Login, TypeOK, conn
<1>2. ASSUME NEW t \in Threads, Drain(t) PROVE TypeOK'
  <2>1. CASE async = "idle" /\ pc' = [pc EXCEPT ![t] = "check"] /\ UNCHANGED conn
    BY <1>2, <2>1 DEF Drain, TypeOK, conn
  <2>2. CASE \E m \in Queries \cup {"ready", "failed"} : GetResult(m) /\ UNCHANGED pc
    BY <1>2, <2>2, GetResultType DEF Drain, TypeOK
  <2> QED  BY <1>2, <2>1, <2>2 DEF Drain
<1>3. ASSUME NEW t \in Threads, Check(t) PROVE TypeOK'
  BY <1>3 DEF Check, TypeOK, conn
<1>4. ASSUME NEW t \in Threads, Send(t) PROVE TypeOK'
  <2>1. want[t] \in Queries /\ sent \in Seq(Queries)
    BY <1>4 DEF Send, Named, Executing, TypeOK
  <2>2. Append(sent, want[t]) \in Seq(Queries)
    BY <2>1
  <2>3. sent' \in Seq(Queries)
    BY <1>4, <2>1, <2>2 DEF Send
  <2> QED  BY <1>4, <2>3 DEF Send, TypeOK
<1>5. ASSUME NEW t \in Threads, Collect(t) PROVE TypeOK'
  <2>1. CASE async = "idle" /\ pc' = [pc EXCEPT ![t] = "answer"] /\ UNCHANGED <<held, conn>>
    BY <1>5, <2>1 DEF Collect, TypeOK, conn
  <2>2. CASE \E m \in Queries \cup {"ready", "failed"} :
                /\ GetResult(m)
                /\ held' = IF m = "ready" THEN held ELSE [held EXCEPT ![t] = m]
                /\ UNCHANGED pc
    BY <1>5, <2>2, GetResultType DEF Collect, TypeOK
  <2> QED  BY <1>5, <2>1, <2>2 DEF Collect
<1>6. ASSUME NEW t \in Threads, Answer(t) PROVE TypeOK'
  BY <1>6 DEF Answer, AnswerOf, TypeOK, Queries, conn
<1>7. CASE Serve
  <2>1. sent \in Seq(Queries) /\ sent # <<>> /\ inbound \in Seq(Queries \cup {"ready"})
    BY <1>7 DEF Serve, TypeOK
  <2>2. Head(sent) \in Queries /\ Tail(sent) \in Seq(Queries)
    BY <2>1
  <2>3. <<Head(sent), "ready">> \in Seq(Queries \cup {"ready"})
    BY <2>2
  <2>4. inbound \o <<Head(sent), "ready">> \in Seq(Queries \cup {"ready"})
    BY <2>1, <2>3, ConcatProperties
  <2> QED  BY <1>7, <2>2, <2>4 DEF Serve, TypeOK
<1>8. CASE Lose
  <2>1. alive' \in BOOLEAN /\ overlapped' \in BOOLEAN
    BY <1>8 DEF Lose, TypeOK
  <2>2. sent' \in Seq(Queries) /\ inbound' \in Seq(Queries \cup {"ready"})
    BY <1>8, EmptySeq DEF Lose
  <2> QED  BY <1>8, <2>1, <2>2 DEF Lose, TypeOK
<1>9. CASE UNCHANGED vars
  BY <1>9 DEF vars, conn, TypeOK
<1> QED  BY <1>1, <1>2, <1>3, <1>4, <1>5, <1>6, <1>7, <1>8, <1>9 DEF Next

\* Every step keeps the request of a thread that executes.
LEMMA StepNamed == TypeOK /\ Named /\ [Next]_vars => Named'
<1> SUFFICES ASSUME TypeOK, Named, [Next]_vars PROVE Named'
  OBVIOUS
<1>1. ASSUME NEW t \in Threads, NEW u \in Queries, Login(t, u) PROVE Named'
  BY <1>1 DEF Login, Named, Executing, TypeOK
<1>2. ASSUME NEW t \in Threads, Drain(t) \/ Check(t) \/ Send(t) \/ Collect(t) \/ Answer(t)
      PROVE  Named'
  <2>1. want' = want /\ \A o \in Threads : o # t => pc'[o] = pc[o]
    BY <1>2 DEF Drain, Check, Send, Collect, Answer, TypeOK
  <2>2. Executing(t) \/ ~Executing(t)'
    BY <1>2 DEF Drain, Check, Send, Collect, Answer, TypeOK, Executing
  <2> QED  BY <2>1, <2>2 DEF Named, Executing
<1>3. CASE Serve \/ Lose \/ UNCHANGED vars
  BY <1>3 DEF Serve, Lose, vars, Named, Executing
<1> QED  BY <1>1, <1>2, <1>3 DEF Next

\* Every step that leaves the calls without an overlap keeps the connection
\* clean.
LEMMA StepClean ==
    ASSUME Inv, [Next]_vars, ~overlapped'
    PROVE  CleanInv'
<1>1. ~overlapped /\ CleanInv
  <2>1. overlapped => overlapped'
    BY DEF Next, Login, Drain, Check, Send, Collect, Answer, Serve, Lose, vars
  <2> QED  BY <2>1 DEF Inv
<1>2. TypeOK /\ Named
  BY DEF Inv
<1>3. ASSUME NEW t \in Threads, NEW u \in Queries, Login(t, u) PROVE CleanInv'
  <2>1. \A o \in Threads : ~Executing(o)
    BY <1>3 DEF Login
  <2>2. Quiet /\ Quiet'
    BY <1>1, <1>3, <2>1 DEF CleanInv, Executing, Login, conn, Quiet
  <2>3. \A o \in Threads : Executing(o)' => o = t
    BY <1>2, <1>3, <2>1 DEF Login, TypeOK, Executing
  <2>4. \A o \in Threads : pc'[o] # "collect"
    BY <1>2, <1>3, <2>1 DEF Login, TypeOK, Executing
  <2>5. \A o \in Threads : /\ held'[o] \in {None, want'[o], "failed"}
                           /\ reply'[o] \in {None, want'[o], "error"}
    BY <1>1, <1>2, <1>3 DEF Login, TypeOK, CleanInv
  <2> QED  BY <2>2, <2>3, <2>4, <2>5 DEF CleanInv
<1>4. ASSUME NEW t \in Threads, Executing(t), NEW o \in Threads, o # t
      PROVE  ~Executing(o) /\ pc[o] # "collect"
  BY <1>1, <1>4 DEF CleanInv, Executing
<1>5. ASSUME NEW t \in Threads, Drain(t) PROVE CleanInv'
  <2>1. Executing(t) /\ Quiet
    BY <1>1, <1>4, <1>5 DEF Drain, Executing, CleanInv
  <2>2. pc' = [pc EXCEPT ![t] = "check"] /\ UNCHANGED <<conn, want, held, reply>>
    BY <1>5, <2>1 DEF Drain, Quiet, GetResult
  <2> QED  BY <1>1, <1>2, <1>4, <2>1, <2>2 DEF CleanInv, TypeOK, conn, Quiet, Executing
<1>6. ASSUME NEW t \in Threads, Check(t) PROVE CleanInv'
  <2>1. Executing(t) /\ Quiet
    BY <1>1, <1>4, <1>6 DEF Check, Executing, CleanInv
  <2>2. pc' \in {[pc EXCEPT ![t] = "send"], [pc EXCEPT ![t] = "answer"]}
        /\ UNCHANGED <<conn, want, held, reply>>
    BY <1>6 DEF Check
  <2> QED  BY <1>1, <1>2, <1>4, <2>1, <2>2 DEF CleanInv, TypeOK, conn, Quiet, Executing
<1>7. ASSUME NEW t \in Threads, Send(t) PROVE CleanInv'
  <2>1. Executing(t) /\ Quiet
    BY <1>1, <1>4, <1>7 DEF Send, Executing, CleanInv
  <2>2. /\ pc' = [pc EXCEPT ![t] = "collect"] /\ UNCHANGED <<want, held, reply, alive, inbound>>
        /\ async' = "busy" /\ sent' = IF alive THEN Append(sent, want[t]) ELSE sent
    BY <1>7 DEF Send
  <2>3. Collecting(t)'
    BY <2>1, <2>2 DEF Collecting, Quiet
  <2>4. \A o \in Threads : pc'[o] = "collect" => o = t
    BY <1>2, <1>4, <2>1, <2>2 DEF TypeOK
  <2>5. pc'[t] = "collect"
    BY <1>2, <2>2 DEF TypeOK
  <2>6. \A o \in Threads : Executing(o)' => o = t
    BY <1>2, <1>4, <2>1, <2>2 DEF TypeOK, Executing
  <2>7. \A o \in Threads : /\ held'[o] \in {None, want'[o], "failed"}
                           /\ reply'[o] \in {None, want'[o], "error"}
    BY <1>1, <2>2 DEF CleanInv
  <2> QED  BY <2>3, <2>4, <2>5, <2>6, <2>7 DEF CleanInv
<1>8. ASSUME NEW t \in Threads, Collect(t) PROVE CleanInv'
  <2>1. Executing(t) /\ Collecting(t) /\ want[t] \in Queries /\ pc[t] = "collect"
    BY <1>1, <1>2, <1>8 DEF Collect, Executing, CleanInv, Named
  <2>2. UNCHANGED <<want, reply>>
    BY <1>8 DEF Collect
  <2>3. \A o \in Threads : o # t => ~Executing(o) /\ pc[o] # "collect"
    BY <1>4, <2>1
  <2>4. CASE async = "idle"
    <3>1. pc' = [pc EXCEPT ![t] = "answer"] /\ UNCHANGED <<held, conn>>
      BY <1>8, <2>4 DEF Collect, GetResult
    <3>2. Quiet
      BY <2>1, <2>4 DEF Collecting, Quiet
    <3> QED  BY <1>1, <1>2, <2>2, <2>3, <3>1, <3>2 DEF CleanInv, TypeOK, conn, Quiet, Executing
  <2>5. CASE async # "idle"
    <3>1. PICK m \in Queries \cup {"ready", "failed"} :
              /\ GetResult(m) /\ UNCHANGED pc
              /\ held' = IF m = "ready" THEN held ELSE [held EXCEPT ![t] = m]
      BY <1>8, <2>5 DEF Collect
    <3>2. Collecting(t)' /\ m \in {want[t], "ready", "failed"}
      <4>1. CASE ~alive
        <5>1. sent = <<>> /\ inbound = <<>>
          BY <2>1, <4>1 DEF Collecting, Quiet
        <5> QED  BY <3>1, <4>1, <5>1 DEF GetResult, Collecting, Quiet
      <4>2. CASE alive /\ inbound = <<want[t], "ready">> /\ sent = <<>>
        <5>1. Head(inbound) = want[t] /\ Tail(inbound) = <<"ready">>
          BY <4>2
        <5>2. want[t] # "ready"
          BY <2>1, NoneAssumption DEF Queries
        <5>3. m = want[t] /\ inbound' = <<"ready">> /\ async' = "busy" /\ alive' = alive
              /\ sent' = sent
          BY <3>1, <4>2, <5>1, <5>2 DEF GetResult
        <5> QED  BY <4>2, <5>3 DEF Collecting
      <4>3. CASE alive /\ inbound = <<"ready">> /\ sent = <<>>
        <5>1. Head(inbound) = "ready" /\ Tail(inbound) = <<>>
          BY <4>3
        <5>2. m = "ready" /\ inbound' = <<>> /\ async' = "idle" /\ sent' = <<>>
          BY <3>1, <4>3, <5>1 DEF GetResult
        <5> QED  BY <5>2 DEF Collecting, Quiet
      <4>4. alive => inbound # <<>>
        BY <3>1 DEF GetResult
      <4> QED  BY <2>1, <2>5, <4>1, <4>2, <4>3, <4>4 DEF Collecting, Quiet
    <3>3. \A o \in Threads : held'[o] \in {None, want'[o], "failed"}
      BY <1>1, <1>2, <2>2, <3>1, <3>2 DEF CleanInv, TypeOK
    <3>4. pc' = pc
      BY <3>1
    <3> QED  BY <1>1, <2>1, <2>2, <2>3, <3>2, <3>3, <3>4 DEF CleanInv, Executing
  <2> QED  BY <2>4, <2>5
<1>9. ASSUME NEW t \in Threads, Answer(t) PROVE CleanInv'
  <2>1. /\ pc' = [pc EXCEPT ![t] = "idle"] /\ pc[t] = "answer"
        /\ reply' = [reply EXCEPT ![t] = AnswerOf(held[t])]
        /\ held' = [held EXCEPT ![t] = None] /\ UNCHANGED <<want, conn>>
    BY <1>9 DEF Answer
  <2>2. \A o \in Threads : /\ held'[o] \in {None, want'[o], "failed"}
                           /\ reply'[o] \in {None, want'[o], "error"}
    BY <1>1, <1>2, <2>1 DEF CleanInv, TypeOK, AnswerOf
  <2>3. \A o \in Threads : /\ pc'[o] = "collect" <=> pc[o] = "collect"
                           /\ Executing(o)' <=> Executing(o)
                           /\ Collecting(o)' <=> Collecting(o)
    BY <1>2, <2>1 DEF TypeOK, Executing, Collecting, Quiet, conn
  <2>4. Quiet' <=> Quiet
    BY <2>1 DEF Quiet, conn
  <2> QED  BY <1>1, <2>2, <2>3, <2>4 DEF CleanInv
<1>10. CASE Serve
  <2>1. \A t \in Threads : pc[t] = "collect" => Collecting(t)'
    <3> SUFFICES ASSUME NEW t \in Threads, pc[t] = "collect" PROVE Collecting(t)'
      OBVIOUS
    <3>1. sent = <<want[t]>> /\ inbound = <<>> /\ async = "busy" /\ alive
      BY <1>1, <1>10 DEF CleanInv, Collecting, Quiet, Serve
    <3>2. inbound' = <<want[t], "ready">> /\ sent' = <<>>
      BY <1>10, <3>1 DEF Serve
    <3> QED  BY <1>10, <3>1, <3>2 DEF Serve, Collecting
  <2>2. \E t \in Threads : pc[t] = "collect"
    BY <1>1, <1>10 DEF CleanInv, Quiet, Serve
  <2>3. UNCHANGED <<pc, want, held, reply>>
    BY <1>10 DEF Serve
  <2> QED  BY <1>1, <2>1, <2>2, <2>3 DEF CleanInv, Executing
<1>11. CASE Lose
  <2>1. \A t \in Threads : pc[t] = "collect" => Collecting(t)'
    BY <1>1, <1>11 DEF CleanInv, Collecting, Quiet, Lose
  <2>2. Quiet => Quiet'
    BY <1>11 DEF Lose, Quiet
  <2>3. UNCHANGED <<pc, want, held, reply>>
    BY <1>11 DEF Lose
  <2> QED  BY <1>1, <2>1, <2>2, <2>3 DEF CleanInv, Executing
<1>12. CASE UNCHANGED vars
  BY <1>1, <1>12 DEF vars, conn, CleanInv, Executing, Collecting, Quiet
<1> QED  BY <1>3, <1>5, <1>6, <1>7, <1>8, <1>9, <1>10, <1>11, <1>12 DEF Next

-----------------------------------------------------------------------------
\* The connection's protocol state in every reachable state.
THEOREM ConnectionInvariant == Spec => []Inv
<1>1. Init => Inv
  BY InitInv
<1>2. Inv /\ [Next]_vars => Inv'
  BY StepType, StepNamed, StepClean DEF Inv
<1> QED  BY <1>1, <1>2, PTL DEF Spec

\* With any number of threads and users, a login answers with its own user's
\* token or an error for as long as no two PQexec calls overlap.
THEOREM NoOverlapNoMixup == Spec => []OwnTokenUnlessOverlapped
<1>1. Inv => OwnTokenUnlessOverlapped
  BY DEF Inv, CleanInv, OwnTokenUnlessOverlapped
<1> QED  BY <1>1, ConnectionInvariant, PTL

\* The types of the threads' and the connection's variables.
THEOREM ConnectionTypes == Spec => []TypeOK
<1>1. Inv => TypeOK
  BY DEF Inv
<1> QED  BY <1>1, ConnectionInvariant, PTL
=============================================================================
