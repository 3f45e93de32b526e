-------------------------- MODULE HttpTransaction --------------------------
(***************************************************************************)
(* http_callback of backend/src/main.c: how one connection's struct pss    *)
(* collects a request body, hands it to process() and sends the response   *)
(* in chunks.  libwebsockets is external: it calls the callback once per   *)
(* event, zeroes pss when it binds the protocol to a request, and calls    *)
(* LWS_CALLBACK_HTTP_DROP_PROTOCOL when the request or the connection ends.*)
(*                                                                         *)
(* A definition whose name extends that of the definition below it is a    *)
(* faulty variant of it (README, Mutants).                                 *)
(***************************************************************************)
EXTENDS Integers, Sequences

CONSTANTS
    Chunk,          \* end - p: the bytes sent by one WRITEABLE callback
    RxMax,          \* the most bytes one HTTP_BODY callback brings
    BodyLens,       \* Content-Length of the requests
    ReplyLens       \* sizes of the responses that process() builds

ASSUME SizeAssumption ==
    /\ Chunk \in Nat \ {0} /\ RxMax \in Nat \ {0}
    /\ BodyLens \subseteq Nat /\ ReplyLens \subseteq Nat \ {0}

VARIABLES
    phase,          \* closed, idle, body, writing: what lws waits for; crashed
    path, rest,     \* the request's path; bytes of its body still to come
    size,           \* its Content-Length
    data, data_len, out_data, out_data_len, i,      \* struct pss
    armed,          \* lws_callback_on_writable was called
    broken,         \* lws_write failed: the socket takes nothing any more
    heap,           \* buffers allocated and not freed
    status, wire,   \* what the client was sent: status line, body chunks
    seen, total     \* what process() was given, and the size of its response

pss  == <<data, data_len, out_data, out_data_len, i>>
vars == <<phase, path, rest, size, pss, armed, broken, heap, status, wire, seen, total>>

\* data is <<>> and out_data 0 for NULL; a body is the bytes 1, 2, ..., size.
Min2(a, b) == IF a < b THEN a ELSE b
Body(n) == [k \in 1..n |-> k]

Init ==
    /\ phase = "closed" /\ path = "none" /\ rest = 0 /\ size = 0
    /\ data = <<>> /\ data_len = 0 /\ out_data = 0 /\ out_data_len = 0 /\ i = 0
    /\ armed = FALSE /\ broken = FALSE /\ heap = 0
    /\ status = 0 /\ wire = <<>> /\ seen = <<>> /\ total = 0

Connect ==
    /\ phase = "closed"
    /\ phase' = "idle" /\ path' = "none" /\ rest' = 0 /\ size' = 0
    /\ broken' = FALSE /\ status' = 0 /\ wire' = <<>> /\ seen' = <<>> /\ total' = 0
    /\ UNCHANGED <<pss, armed, heap>>

Freed(h, d, o) == h - (IF d = <<>> THEN 0 ELSE 1) - (IF o = 0 THEN 0 ELSE 1)

DropForgetsOut(next, h, d, o) ==
    /\ phase' = next /\ armed' = FALSE
    /\ heap' = Freed(h, d, 0)
    /\ data' = <<>> /\ out_data' = 0 /\ data_len' = 0 /\ out_data_len' = 0 /\ i' = 0
\* LWS_CALLBACK_HTTP_DROP_PROTOCOL: both buffers are freed; lws then frees
\* pss itself and zeroes the next one.  h, d and o are the heap and the two
\* pointers as the callback finds them.
Drop(next, h, d, o) ==
    /\ phase' = next /\ armed' = FALSE
    /\ heap' = Freed(h, d, o)
    /\ data' = <<>> /\ out_data' = 0 /\ data_len' = 0 /\ out_data_len' = 0 /\ i' = 0

\* LWS_CALLBACK_HTTP.  A wrong path, a method other than POST and headers
\* that cannot be written all end the connection; otherwise the 200 status
\* line is sent, before the body has been read.
Http(p, m, n) ==
    /\ phase = "idle"
    /\ path' = p /\ size' = n /\ wire' = <<>> /\ seen' = <<>> /\ total' = 0
    /\ \/ /\ p = "api" /\ m = "POST" /\ ~broken
          /\ phase' = "body" /\ rest' = n /\ status' = 200
          /\ UNCHANGED <<pss, armed, heap>>
       \/ \* the wrong path or method, or the headers cannot be written
          /\ Drop("closed", heap, data, out_data)
          /\ rest' = 0 /\ status' = 0
    /\ UNCHANGED broken

AppendAtStart(d, len, in) == in \o SubSeq(d, Len(in) + 1, Len(d))
\* realloc, then memcpy(data + data_len, in, len)
Append_(d, len, in) == SubSeq(d, 1, len) \o in

HttpBodyFallsThrough(len) ==
    /\ phase = "body" /\ len <= rest
    /\ data' = <<>> /\ data_len' = data_len + len /\ heap' = heap
    /\ rest' = rest - len
    /\ UNCHANGED <<phase, path, size, out_data, out_data_len, i, armed, broken,
                   status, wire, seen, total>>
\* LWS_CALLBACK_HTTP_BODY
HttpBody(len) ==
    /\ phase = "body" /\ len <= rest
    /\ LET in == SubSeq(Body(size), size - rest + 1, size - rest + len)
       IN  \/ /\ data = <<>>
              /\ data' = in /\ data_len' = len /\ heap' = heap + 1
           \/ /\ data # <<>>
              /\ data' = Append_(data, data_len, in)
              /\ data_len' = data_len + len /\ UNCHANGED heap
    /\ rest' = rest - len
    /\ UNCHANGED <<phase, path, size, out_data, out_data_len, i, armed, broken,
                   status, wire, seen, total>>

\* LWS_CALLBACK_HTTP_BODY_COMPLETION: the last byte is overwritten with 0,
\* process() leaves a response in pss or, for a body it cannot read, none.
HttpBodyCompletion ==
    /\ phase = "body" /\ rest = 0 /\ data # <<>>
    /\ seen' = [data EXCEPT ![data_len] = 0]
    /\ \E n \in ReplyLens \cup {0} :
         /\ out_data' = n /\ out_data_len' = n /\ total' = n
         /\ heap' = heap - 1 + (IF n = 0 THEN 0 ELSE 1)
    /\ data' = <<>>
    /\ armed' = TRUE /\ phase' = "writing"
    /\ UNCHANGED <<path, rest, size, data_len, i, broken, status, wire>>

\* The same callback without a body: data is NULL and the byte before it is
\* written to, which ends the process.
EmptyCompletion ==
    /\ phase = "body" /\ rest = 0 /\ data = <<>>
    /\ phase' = "crashed"
    /\ UNCHANGED <<path, rest, size, pss, armed, broken, heap, status, wire, seen, total>>

\* supervisor starts the process again, with nothing in memory.
Restart ==
    /\ phase = "crashed" /\ phase' = "closed"
    /\ data' = <<>> /\ data_len' = 0 /\ out_data' = 0 /\ out_data_len' = 0 /\ i' = 0
    /\ armed' = FALSE /\ heap' = 0
    /\ UNCHANGED <<path, rest, size, broken, status, wire, seen, total>>

OffsetAfterCut(out, len) == Min2(Chunk, len) * i
\* The chunk that a WRITEABLE callback sends: the offset is computed with the
\* full chunk size, the size is cut to what is left.
Offset(out, len)    == Chunk * i
Piece(out, len)     == Min2(Chunk, len)
FinalEarly(len) == len <= Chunk
Final(len)          == len <= 0

RearmedNever(n) == FALSE
\* A chunk that is not the last asks for the next callback.
Rearmed(n) == ~n

\* LWS_CALLBACK_HTTP_WRITEABLE.  lws_write answers with the bytes it took
\* (it queues what the socket does not take at once), with 0 or with -1; the
\* code takes -1 for success.
HttpWriteable ==
    /\ phase = "writing" /\ armed
    /\ \/ /\ out_data = 0
          /\ Drop("closed", heap, data, out_data)
          /\ UNCHANGED <<broken, wire>>
       \/ /\ out_data # 0
          /\ LET off   == Offset(out_data, out_data_len)
                 len   == Piece(out_data, out_data_len)
                 final == Final(out_data_len - len)
             IN  \/ \* lws_write took 0 bytes: return 1
                    /\ Drop("closed", heap, data, out_data)
                    /\ UNCHANGED <<broken, wire>>
                 \/ /\ \/ /\ ~broken /\ UNCHANGED broken
                          /\ wire' = Append(wire, [off |-> off, len |-> len, final |-> final])
                       \/ broken' = TRUE /\ UNCHANGED wire
                    /\ \/ /\ ~final
                          /\ out_data_len' = out_data_len - len /\ i' = i + 1
                          /\ armed' = Rearmed(final)
                          /\ UNCHANGED <<phase, data, data_len, out_data, heap>>
                       \/ \* lws_http_transaction_completed: keep-alive or not
                          /\ final
                          /\ \E next \in {"idle", "closed"} :
                                Drop(next, heap, data, out_data)
    /\ UNCHANGED <<path, rest, size, status, seen, total>>

\* The peer, or a libwebsockets timeout, ends the connection.
Hangup ==
    /\ phase \notin {"closed", "crashed"}
    /\ Drop("closed", heap, data, out_data)
    /\ rest' = 0
    /\ UNCHANGED <<path, size, broken, status, wire, seen, total>>

Next ==
    \/ Connect \/ HttpBodyCompletion \/ EmptyCompletion \/ HttpWriteable \/ Hangup
    \/ Restart
    \/ \E p \in {"api", "other"}, m \in {"GET", "POST"}, n \in BodyLens : Http(p, m, n)
    \/ \E len \in 1..RxMax : HttpBody(len)

\* The event loop serves a writable socket it was asked to watch.
Spec == Init /\ [][Next]_vars /\ WF_vars(HttpWriteable)

-----------------------------------------------------------------------------
(***************************************************************************)
(* Properties.                                                             *)
(***************************************************************************)

\* The variables hold what the callback stores in them.
TypeOK ==
    /\ phase \in {"closed", "idle", "body", "writing", "crashed"}
    /\ path \in {"none", "api", "other"} /\ rest \in Nat /\ size \in Nat
    /\ data \in Seq(Nat) /\ data_len \in Nat
    /\ out_data \in Nat /\ out_data_len \in Nat /\ i \in Nat
    /\ armed \in BOOLEAN /\ broken \in BOOLEAN /\ heap \in 0..2
    /\ status \in {0, 200} /\ total \in Nat
    /\ wire \in Seq([off : Nat, len : Nat \ {0}, final : BOOLEAN])
    /\ seen \in Seq(Nat)

\* The chunks on the wire are the response from its first byte on, each where
\* the one before it ended, none beyond the end, and the one marked FINAL is
\* the one that ends at the last byte.
StreamExact ==
    \A k \in DOMAIN wire :
        wire[k] = [off |-> (k - 1) * Chunk,
                   len |-> Min2(Chunk, total - (k - 1) * Chunk),
                   final |-> k * Chunk >= total]

\* A connection that is kept after an answer carried all of it: the last chunk
\* written ends at the last byte of the response.
KeptMeansComplete ==
    phase = "idle" /\ status = 200 /\ ~broken =>
        /\ wire # <<>>
        /\ wire[Len(wire)].off + wire[Len(wire)].len = total

\* process() is given the whole body, in order, except that its last byte has
\* been overwritten.
BodyWhole ==
    seen # <<>> => seen = [Body(size) EXCEPT ![size] = 0]

\* Every buffer has one owner: what is allocated is what pss points to, so
\* nothing leaks when a connection ends at any point and nothing is freed twice.
HeapExact ==
    heap = (IF data = <<>> THEN 0 ELSE 1) + (IF out_data = 0 THEN 0 ELSE 1)

\* A request whose body is complete does not stay unanswered: its connection
\* is freed for the next request or closed, whatever the size of the response.
EveryAnswerEnds == phase = "writing" ~> phase \in {"idle", "closed"}

\* Only a request without a body brings the process down: as soon as a piece of
\* a body has arrived, however it was cut, BODY_COMPLETION finds a buffer.
CrashOnlyWhenEmpty == phase = "crashed" => size = 0

\* The callback implements Exchange.  A connection on which lws_write failed is
\* down for the client whatever the code believes; sent is the end of the last
\* chunk on the wire.
Stage ==
    IF broken THEN "down"
    ELSE CASE phase \in {"closed", "crashed"} -> "down"
           [] phase = "idle" -> "ready"
           [] phase = "body" -> "asking"
           [] phase = "writing" -> "answering"
OnWire == IF wire = <<>> THEN 0 ELSE wire[Len(wire)].off + wire[Len(wire)].len
Asked   == IF Stage \in {"asking", "answering"} THEN size ELSE 0
Handled == IF Stage = "answering" THEN Len(seen) ELSE 0
Length  == IF Stage \in {"answering", "ready"} THEN total ELSE 0
Sent    == IF Stage \in {"answering", "ready"} THEN OnWire ELSE 0

Client == INSTANCE Exchange WITH
    Requests <- BodyLens, Replies <- ReplyLens,
    stage <- Stage, asked <- Asked, handled <- Handled, length <- Length, sent <- Sent

\* What a client sees is an Exchange: a connection that is ready for another
\* request has delivered the response to the last in full, a request is handled
\* once and whole, and no answer stops in the middle for ever.
ImplementsExchange == Client!Spec

\* The part of it that does not speak of fairness.
ExchangeSteps == Client!Init /\ [][Client!Next]_(Client!vars)
=============================================================================
