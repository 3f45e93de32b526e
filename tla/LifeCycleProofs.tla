-------------------------- MODULE LifeCycleProofs --------------------------
(***************************************************************************)
(* Proofs of the safety properties of LifeCycle, for any number of service *)
(* threads, any options and any number of signals.                         *)
(*                                                                         *)
(* None of the properties is inductive.  IInv ties what is allocated, the  *)
(* context and the threads to the place main() has reached: between spawn  *)
(* and join the slots from n on are untouched, then already joined.        *)
(***************************************************************************)
EXTENDS LifeCycle, TLAPS

\* What is allocated, by the place in main().
Served_ == {"salt", "db_conn", "pthread_service"}
MemoryInv ==
    /\ pc = "args" => live = {"db_conn_str", "salt"}
    /\ pc = "connect" => live = {"db_conn_str", "salt", "pthread_service"}
    /\ pc \in {"schema", "context", "http", "https", "spawn", "join", "destroy", "release"}
         => live = Served_
    /\ code = EXIT_SUCCESS => live = {} /\ pc \in {"leaving", "exited"}

ContextInv ==
    pc \in {"http", "https", "spawn", "join", "destroy"} => context = "live"

\* Where the threads are.
ThreadInv ==
    /\ pc \in {"args", "connect", "schema", "context", "http", "https"} =>
         n = 0 /\ \A t \in Thread : thread[t] = "none"
    /\ pc = "spawn" => \A t \in Thread : t >= n => thread[t] = "none"
    /\ pc = "join"  => \A t \in Thread : t >= n => ~Serving(t)
    /\ pc \in {"destroy", "release", "leaving", "exited"} => \A t \in Thread : ~Serving(t)

IInv ==
    /\ TypeOK /\ MemoryInv /\ ContextInv /\ ThreadInv
    /\ SlotsInBounds /\ ServingSurvivesSignals

-----------------------------------------------------------------------------
\* The invariant holds when main() starts.
LEMMA InitInv == Init => IInv
  <1> SUFFICES ASSUME Init PROVE IInv
    OBVIOUS
  <1>1. TypeOK
    <2>1. wake \in [Thread -> BOOLEAN] /\ interrupted \in BOOLEAN
      BY DEF Init
    <2>2. handler \in [Signals -> [at : {"idle", "entered", "set"}, on : Thread \cup {Main}]]
      BY DEF Init
    <2>3. thread \in [Thread -> {"none", "service", "check", "exited"}]
      BY DEF Init
    <2>4. threads_num \in Int /\ n \in 0..MaxSMP /\ sent \in Nat
      BY LifeAssumption DEF Init
    <2>5. live \subseteq {"db_conn_str", "salt", "pthread_service", "db_conn"}
      BY DEF Init
    <2> QED BY <2>1, <2>2, <2>3, <2>4, <2>5 DEF Init, TypeOK
  <1>2. MemoryInv /\ ContextInv /\ ThreadInv
    BY DEF Init, MemoryInv, ContextInv, ThreadInv, EXIT_SUCCESS
  <1>3. SlotsInBounds /\ ServingSurvivesSignals
    BY DEF Init, SlotsInBounds, ServingSurvivesSignals
  <1> QED BY <1>1, <1>2, <1>3 DEF IInv

\* The steps of main() before the first thread exists.
LEMMA SetupStep ==
  ASSUME IInv,
         \/ OptPort \/ EndOptions \/ \E v \in Longs : OptThreads(v)
         \/ Connect \/ CreateSchema \/ CreateContext
         \/ CreateVhost("http", "https") \/ CreateVhost("https", "spawn")
  PROVE  IInv'
  <1> USE DEF IInv, MainAt, Alive, Return, signalVars, serveVars
  <1>1. CASE OptPort
    BY <1>1 DEF OptPort, TypeOK, MemoryInv, ContextInv, ThreadInv, SlotsInBounds,
         ServingSurvivesSignals, Serving, EXIT_FAILURE_ARGS, EXIT_SUCCESS
  <1>2. CASE EndOptions
    BY <1>2 DEF EndOptions, TypeOK, MemoryInv, ContextInv, ThreadInv, SlotsInBounds,
         ServingSurvivesSignals, Serving
  <1>3. ASSUME NEW v \in Longs, OptThreads(v)  PROVE IInv'
    <2>1. ToInt(v) \in Int
      BY LifeAssumption DEF ToInt
    <2> QED BY <2>1, <1>3 DEF OptThreads, TypeOK, MemoryInv, ContextInv, ThreadInv,
          SlotsInBounds, ServingSurvivesSignals, Serving, EXIT_FAILURE_ARGS, EXIT_SUCCESS
  <1>4. CASE Connect
    BY <1>4 DEF Connect, TypeOK, MemoryInv, ContextInv, ThreadInv, SlotsInBounds,
         ServingSurvivesSignals, Serving, Served_, EXIT_FAILURE_SERVER_INIT_DB, EXIT_SUCCESS
  <1>5. CASE CreateSchema
    <2>1. UNCHANGED <<threads_num, n, thread, wake, interrupted, handler, sent, fault>>
      BY <1>5 DEF CreateSchema
    <2>2. TypeOK'
      <3>1. wake' \in [Thread -> BOOLEAN] /\ interrupted' \in BOOLEAN
        BY <2>1 DEF TypeOK
      <3>2. /\ context' \in {"null", "live", "dead"} /\ code' \in {-1, 0, 1, 2, 4, 8}
            /\ pc' \in {"context", "http", "https", "spawn", "leaving"}
        BY <1>5 DEF CreateSchema, TypeOK, EXIT_FAILURE_SERVER_INIT_DB
      <3>3. live' \subseteq live
        BY <1>5 DEF CreateSchema
      <3> QED BY <2>1, <3>1, <3>2, <3>3 DEF TypeOK
    <2>3. MemoryInv'
      BY <1>5 DEF CreateSchema, MemoryInv, EXIT_FAILURE_SERVER_INIT_DB, EXIT_SUCCESS
    <2>4. ContextInv' /\ ThreadInv'
      BY <1>5 DEF CreateSchema, ContextInv, ThreadInv, Serving
    <2>5. SlotsInBounds' /\ ServingSurvivesSignals'
      BY <1>5, <2>1 DEF CreateSchema, SlotsInBounds, ServingSurvivesSignals
    <2> QED BY <2>2, <2>3, <2>4, <2>5
  <1>6. CASE CreateContext
    <2>1. UNCHANGED <<threads_num, n, thread, wake, interrupted, handler, sent, fault>>
      BY <1>6 DEF CreateContext
    <2>2. TypeOK'
      <3>1. wake' \in [Thread -> BOOLEAN] /\ interrupted' \in BOOLEAN
        BY <2>1 DEF TypeOK
      <3>2. /\ context' \in {"null", "live", "dead"} /\ code' \in {-1, 0, 1, 2, 4, 8}
            /\ pc' \in {"context", "http", "https", "spawn", "leaving"}
        BY <1>6 DEF CreateContext, TypeOK, EXIT_FAILURE_SERVER_INIT
      <3>3. live' \subseteq live
        BY <1>6 DEF CreateContext
      <3> QED BY <2>1, <3>1, <3>2, <3>3 DEF TypeOK
    <2>3. MemoryInv'
      BY <1>6 DEF CreateContext, MemoryInv, EXIT_FAILURE_SERVER_INIT, EXIT_SUCCESS
    <2>4. ContextInv' /\ ThreadInv'
      BY <1>6 DEF CreateContext, ContextInv, ThreadInv, Serving
    <2>5. SlotsInBounds' /\ ServingSurvivesSignals'
      BY <1>6, <2>1 DEF CreateContext, SlotsInBounds, ServingSurvivesSignals
    <2> QED BY <2>2, <2>3, <2>4, <2>5
  <1>7. CASE CreateVhost("http", "https") \/ CreateVhost("https", "spawn")
    <2>1. UNCHANGED <<threads_num, n, thread, wake, interrupted, handler, sent, fault>>
      BY <1>7 DEF CreateVhost
    <2>2. TypeOK'
      <3>1. wake' \in [Thread -> BOOLEAN] /\ interrupted' \in BOOLEAN
        BY <2>1 DEF TypeOK
      <3>2. /\ context' \in {"null", "live", "dead"} /\ code' \in {-1, 0, 1, 2, 4, 8}
            /\ pc' \in {"context", "http", "https", "spawn", "leaving"}
        BY <1>7 DEF CreateVhost, TypeOK, EXIT_FAILURE_SERVER_INIT_VHOST
      <3>3. live' \subseteq live
        BY <1>7 DEF CreateVhost
      <3> QED BY <2>1, <3>1, <3>2, <3>3 DEF TypeOK
    <2>3. MemoryInv'
      BY <1>7 DEF CreateVhost, MemoryInv, EXIT_FAILURE_SERVER_INIT_VHOST, EXIT_SUCCESS
    <2>4. ContextInv' /\ ThreadInv'
      BY <1>7 DEF CreateVhost, ContextInv, ThreadInv, Serving
    <2>5. SlotsInBounds' /\ ServingSurvivesSignals'
      BY <1>7, <2>1 DEF CreateVhost, SlotsInBounds, ServingSurvivesSignals
    <2> QED BY <2>2, <2>3, <2>4, <2>5
  <1> QED BY <1>1, <1>2, <1>3, <1>4, <1>5, <1>6, <1>7

\* The steps of main() that start and join the threads and release what they used.
LEMMA ServeStep ==
  ASSUME IInv, Spawn \/ Join \/ Destroy \/ Release \/ Exit
  PROVE  IInv'
  <1> USE DEF IInv, MainAt, Alive, Return, signalVars, serveVars
  <1>1. CASE Spawn
    <2>1. CountThreads <= MaxSMP /\ CountThreads <= threads_num /\ n \in Nat /\ n <= MaxSMP
      BY LifeAssumption DEF CountThreads, TypeOK
    <2>2. TypeOK'
      BY <1>1, <2>1, LifeAssumption DEF Spawn, TypeOK, Thread, CountThreads
    <2>3. MemoryInv' /\ ContextInv' /\ ServingSurvivesSignals'
      BY <1>1 DEF Spawn, MemoryInv, ContextInv, ServingSurvivesSignals
    <2>4. ThreadInv'
      BY <1>1, <2>1, LifeAssumption DEF Spawn, TypeOK, Thread, ThreadInv, Serving
    <2>5. SlotsInBounds'
      BY <1>1, <2>1, LifeAssumption DEF Spawn, TypeOK, Thread, SlotsInBounds, CountThreads
    <2> QED BY <2>2, <2>3, <2>4, <2>5
  <1>2. CASE Join
    <2>1. TypeOK'
      BY <1>2, LifeAssumption DEF Join, TypeOK
    <2>2. MemoryInv' /\ ContextInv' /\ ServingSurvivesSignals' /\ SlotsInBounds'
      BY <1>2 DEF Join, MemoryInv, ContextInv, ServingSurvivesSignals, SlotsInBounds
    <2>3. ThreadInv'
      BY <1>2, LifeAssumption DEF Join, TypeOK, Thread, ThreadInv, Serving
    <2> QED BY <2>1, <2>2, <2>3
  <1>3. CASE Destroy
    BY <1>3 DEF Destroy, TypeOK, MemoryInv, ContextInv, ThreadInv, SlotsInBounds,
         ServingSurvivesSignals, Serving
  <1>4. CASE Release
    BY <1>4 DEF Release, TypeOK, MemoryInv, ContextInv, ThreadInv, SlotsInBounds,
         ServingSurvivesSignals, Serving, Served_, EXIT_SUCCESS
  <1>5. CASE Exit
    BY <1>5 DEF Exit, TypeOK, MemoryInv, ContextInv, ThreadInv, SlotsInBounds,
         ServingSurvivesSignals, Serving
  <1> QED BY <1>1, <1>2, <1>3, <1>4, <1>5

\* A step of a service thread changes no one's resources and starts no thread.
LEMMA ThreadStep ==
  ASSUME IInv, NEW t \in Thread, Woken(t) \/ Served(t) \/ Check(t)
  PROVE  IInv'
  <1> USE DEF IInv, Woken, Served, Check, threadOnly, signalVars
  <1>1. Serving(t) /\ thread \in [Thread -> {"none", "service", "check", "exited"}]
    BY DEF Serving, TypeOK
  <1>2. /\ UNCHANGED <<pc, threads_num, context, live, n, code, fault>>
        /\ UNCHANGED <<interrupted, handler, sent>>
    OBVIOUS
  <1>3. \E x \in {"service", "check", "exited"} : thread' = [thread EXCEPT ![t] = x]
    OBVIOUS
  <1>4. wake' \in [Thread -> BOOLEAN] /\ interrupted' \in BOOLEAN
    BY DEF TypeOK
  <1>5. TypeOK'
    <2>1. thread' \in [Thread -> {"none", "service", "check", "exited"}]
      BY <1>1, <1>3
    <2>2. pc' = pc /\ threads_num' = threads_num /\ n' = n /\ context' = context
          /\ live' = live /\ handler' = handler /\ sent' = sent /\ fault' = fault
          /\ code' = code
      BY <1>2
    <2> HIDE DEF Woken, Served, Check
    <2> QED BY <1>4, <2>1, <2>2 DEF TypeOK
  <1>6. MemoryInv' /\ ContextInv' /\ ServingSurvivesSignals'
    BY <1>2 DEF MemoryInv, ContextInv, ServingSurvivesSignals
  <1>7. ThreadInv'
    BY <1>1, <1>2, <1>3 DEF ThreadInv, Serving
  <1>8. SlotsInBounds'
    BY <1>1, <1>2, <1>3 DEF SlotsInBounds, Serving
  <1> QED BY <1>5, <1>6, <1>7, <1>8

\* A signal is delivered and handled; only here can the context be missing.
LEMMA SignalStep ==
  ASSUME IInv, NEW s \in Signals,
         \/ HandlerSets(s) \/ HandlerCancels(s)
         \/ \E x \in Thread \cup {Main} : Deliver(s, x)
  PROVE  IInv'
  <1> USE DEF IInv, Alive, serveVars
  <1>1. UNCHANGED <<pc, threads_num, context, live, n, code, thread>>
    BY DEF HandlerSets, HandlerCancels, Deliver
  <1>2. TypeOK'
    <2>1. handler' \in [Signals -> [at : {"idle", "entered", "set"}, on : Thread \cup {Main}]]
      BY DEF HandlerSets, HandlerCancels, Deliver, TypeOK
    <2>2. wake' \in [Thread -> BOOLEAN] /\ interrupted' \in BOOLEAN
      BY DEF HandlerSets, HandlerCancels, Deliver, TypeOK
    <2>3. sent' \in Nat /\ fault' \in {"none", "null", "dead", "join"}
      BY DEF HandlerSets, HandlerCancels, Deliver, TypeOK
    <2> QED BY <1>1, <2>1, <2>2, <2>3 DEF TypeOK
  <1>3. MemoryInv' /\ ContextInv' /\ ThreadInv' /\ SlotsInBounds'
    BY <1>1 DEF MemoryInv, ContextInv, ThreadInv, SlotsInBounds, Serving
  <1>4. ServingSurvivesSignals'
    BY <1>1 DEF ServingSurvivesSignals, ContextInv, HandlerSets, HandlerCancels, Deliver
  <1> QED BY <1>2, <1>3, <1>4

\* Every step of main(), a thread or a handler keeps it.
LEMMA NextInv == IInv /\ [Next]_vars => IInv'
  <1> SUFFICES ASSUME IInv, [Next]_vars PROVE IInv'
    OBVIOUS
  <1>1. CASE MainStep
    BY <1>1, SetupStep, ServeStep DEF MainStep
  <1>2. CASE \E t \in Thread : Woken(t) \/ Served(t) \/ Check(t)
    BY <1>2, ThreadStep
  <1>3. CASE \E s \in Signals : HandlerSets(s) \/ HandlerCancels(s)
    BY <1>3, SignalStep
  <1>4. CASE \E s \in Signals, x \in Thread \cup {Main} : Deliver(s, x)
    BY <1>4, SignalStep
  <1>5. CASE UNCHANGED vars
    BY <1>5 DEF vars, IInv, TypeOK, MemoryInv, ContextInv, ThreadInv, SlotsInBounds,
         ServingSurvivesSignals, Serving
  <1> QED BY <1>1, <1>2, <1>3, <1>4, <1>5 DEF Next

\* It holds for ever.
LEMMA InvHolds == Spec => []IInv
  BY InitInv, NextInv, PTL DEF Spec

-----------------------------------------------------------------------------
\* The variables of the life cycle keep their types.
THEOREM TypeCorrect == Spec => []TypeOK
  <1>1. IInv => TypeOK
    BY DEF IInv
  <1> QED BY <1>1, InvHolds, PTL

\* A service thread never runs without the context, the salt, the connection
\* and its slot, however many threads there are and in whatever order they
\* end (thread_service, and the end of main()).
THEOREM ResourcesSafe == Spec => []ThreadsHoldResources
  <1>1. IInv => ThreadsHoldResources
    BY DEF IInv, ThreadsHoldResources, ThreadInv, ContextInv, MemoryInv, TypeOK, Serving, Served_
  <1> QED BY <1>1, InvHolds, PTL

\* No thread is created outside the array that main() allocates.
THEOREM SlotsSafe == Spec => []SlotsInBounds
  <1>1. IInv => SlotsInBounds
    BY DEF IInv
  <1> QED BY <1>1, InvHolds, PTL

\* While the context lives sigint_handler cannot crash the process.
THEOREM SignalsSafe == Spec => []ServingSurvivesSignals
  <1>1. IInv => ServingSurvivesSignals
    BY DEF IInv
  <1> QED BY <1>1, InvHolds, PTL

\* EXIT_SUCCESS is returned with everything released and no thread serving.
THEOREM ExitIsClean == Spec => []CleanExit
  <1>1. IInv => CleanExit
    BY DEF IInv, CleanExit, MemoryInv, ThreadInv
  <1> QED BY <1>1, InvHolds, PTL
=============================================================================
