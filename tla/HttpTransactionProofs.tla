----------------------- MODULE HttpTransactionProofs -----------------------
(***************************************************************************)
(* Proofs about HttpTransaction, for every chunk size, read size, body     *)
(* length and response size.                                               *)
(***************************************************************************)
EXTENDS HttpTransaction, SequenceTheorems, TLAPS

\* Where the buffers of struct pss are in use: data while the body arrives,
\* out_data from BODY_COMPLETION to the end of the transaction.
PssInv ==
    /\ phase # "body" => data = <<>>
    /\ phase # "writing" => out_data = 0 /\ out_data_len = 0 /\ i = 0
    /\ phase \in {"closed", "idle"} => data_len = 0

\* While the body arrives, data is the part of it that has arrived.
BodyInv ==
    phase = "body" =>
        /\ rest <= size
        /\ data_len = size - rest /\ data = Body(size - rest)
        /\ wire = <<>> /\ seen = <<>>

\* While the response is sent, i chunks are behind it and the rest is ahead.
WriteInv ==
    phase = "writing" =>
        /\ i * Chunk \in Nat
        /\ out_data = total
        /\ out_data # 0 => out_data_len > 0 /\ out_data_len = total - i * Chunk
        /\ ~broken => Len(wire) = i

Inv == TypeOK /\ HeapExact /\ PssInv /\ BodyInv /\ WriteInv /\ CrashOnlyWhenEmpty

\* A body of n bytes.
LEMMA BodyType ==
    ASSUME NEW n \in Nat
    PROVE  Body(n) \in Seq(Nat) /\ Len(Body(n)) = n /\ (Body(n) = <<>> <=> n = 0)
  BY DEF Body

\* Appending the next bytes of a body to those that have arrived: memcpy to
\* data + data_len.
LEMMA AppendBody ==
    ASSUME NEW n \in Nat, NEW k \in Nat, NEW len \in Nat, k + len <= n
    PROVE  /\ Append_(Body(k), k, SubSeq(Body(n), k + 1, k + len)) = Body(k + len)
           /\ k = 0 => SubSeq(Body(n), k + 1, k + len) = Body(k + len)
<1> DEFINE in == SubSeq(Body(n), k + 1, k + len)
           s  == SubSeq(Body(k), 1, k)
<1>1. in \in Seq(Nat) /\ Len(in) = len /\ \A j \in 1..len : in[j] = k + j
  BY DEF Body
<1>2. s \in Seq(Nat) /\ Len(s) = k /\ \A j \in 1..k : s[j] = j
  BY DEF Body
<1> HIDE DEF in, s
<1>3. s \o in \in Seq(Nat) /\ Len(s \o in) = k + len
  BY <1>1, <1>2
<1>4. \A j \in 1..(k + len) : (s \o in)[j] = j
  BY <1>1, <1>2
<1>5. Body(k + len) \in Seq(Nat) /\ Len(Body(k + len)) = k + len
      /\ \A j \in 1..(k + len) : Body(k + len)[j] = j
  BY DEF Body
<1>6. s \o in = Body(k + len)
  BY <1>3, <1>4, <1>5, SeqEqual
<1>7. k = 0 => in = Body(k + len)
  BY <1>1, <1>5, SeqEqual
<1> QED  BY <1>6, <1>7 DEF Append_, in, s


\* Nothing sent yet is a sequence of chunks.
LEMMA NoChunks == <<>> \in Seq([off : Nat, len : Nat \ {0}, final : BOOLEAN])
  BY EmptySeq

\* The initial state satisfies the invariant.
LEMMA InitInv == Init => Inv
<1> SUFFICES ASSUME Init PROVE Inv
  OBVIOUS
<1>1. <<>> \in Seq(Nat)
  BY EmptySeq
<1>2. TypeOK
  <2>1. wire \in Seq([off : Nat, len : Nat \ {0}, final : BOOLEAN])
    BY NoChunks DEF Init
  <2>2. data \in Seq(Nat) /\ seen \in Seq(Nat)
    BY <1>1 DEF Init
  <2>3. /\ phase = "closed" /\ path = "none" /\ rest = 0 /\ size = 0 /\ data_len = 0
        /\ out_data = 0 /\ out_data_len = 0 /\ i = 0
        /\ heap = 0 /\ status = 0 /\ total = 0
    BY DEF Init
  <2>4. armed \in BOOLEAN /\ broken \in BOOLEAN
    BY DEF Init
  <2> QED  BY <2>1, <2>2, <2>3, <2>4 DEF TypeOK
<1>3. HeapExact /\ PssInv /\ BodyInv /\ WriteInv /\ CrashOnlyWhenEmpty
  BY DEF Init, HeapExact, PssInv, BodyInv, WriteInv, CrashOnlyWhenEmpty
<1> QED  BY <1>2, <1>3 DEF Inv

\* Freeing the connection at any point frees what pss points to.
LEMMA DropInv ==
    ASSUME Inv, NEW next \in {"closed", "idle"}, Drop(next, heap, data, out_data)
    PROVE  /\ HeapExact' /\ PssInv' /\ BodyInv' /\ WriteInv' /\ CrashOnlyWhenEmpty'
           /\ phase' = next /\ armed' = FALSE /\ heap' = 0 /\ data' = <<>>
           /\ data_len' = 0 /\ out_data' = 0 /\ out_data_len' = 0 /\ i' = 0
<1>1. data \in Seq(Nat) /\ out_data \in Nat
  BY DEF Inv, TypeOK
<1>2. heap' = 0 /\ data' = <<>> /\ out_data' = 0 /\ out_data_len' = 0
      /\ data_len' = 0 /\ i' = 0 /\ phase' = next /\ armed' = FALSE
  BY <1>1 DEF Inv, HeapExact, Drop, Freed
<1> QED  BY <1>2 DEF HeapExact, PssInv, BodyInv, WriteInv, CrashOnlyWhenEmpty

\* ... and keeps the types, whatever else the event changes.
LEMMA DropType ==
    ASSUME Inv, NEW next \in {"closed", "idle"}, Drop(next, heap, data, out_data),
           path' \in {"none", "api", "other"}, rest' \in Nat, size' \in Nat,
           broken' \in BOOLEAN, status' \in {0, 200}, total' \in Nat,
           wire' \in Seq([off : Nat, len : Nat \ {0}, final : BOOLEAN]),
           seen' \in Seq(Nat)
    PROVE  Inv'
<1>1. /\ HeapExact' /\ PssInv' /\ BodyInv' /\ WriteInv' /\ CrashOnlyWhenEmpty'
      /\ phase' = next /\ armed' = FALSE /\ heap' = 0 /\ data' = <<>>
      /\ data_len' = 0 /\ out_data' = 0 /\ out_data_len' = 0 /\ i' = 0
  BY DropInv
<1>2. armed' \in BOOLEAN /\ data' \in Seq(Nat)
  BY <1>1, EmptySeq
<1>3. TypeOK'
  BY <1>1, <1>2 DEF TypeOK
<1> QED  BY <1>1, <1>3 DEF Inv

\* Connect preserves the invariant.
LEMMA ConnectInv == ASSUME Inv, Connect PROVE Inv'
<1>1. <<>> \in Seq(Nat)
  BY EmptySeq
<1>2. TypeOK'
  BY <1>1, NoChunks DEF Inv, Connect, pss, TypeOK
<1>3. HeapExact' /\ PssInv' /\ BodyInv' /\ WriteInv' /\ CrashOnlyWhenEmpty'
  BY DEF Inv, Connect, pss, HeapExact, PssInv, BodyInv, WriteInv, CrashOnlyWhenEmpty
<1> QED  BY <1>2, <1>3 DEF Inv

\* LWS_CALLBACK_HTTP preserves the invariant.
LEMMA HttpInv ==
    ASSUME Inv, NEW p \in {"api", "other"}, NEW m \in {"GET", "POST"},
           NEW n \in BodyLens, Http(p, m, n)
    PROVE  Inv'
<1>1. n \in Nat /\ <<>> \in Seq(Nat)
  BY SizeAssumption, EmptySeq
<1>2. CASE phase' = "body" /\ rest' = n /\ status' = 200 /\ UNCHANGED <<pss, armed, heap>>
  <2>1. TypeOK'
    BY <1>1, <1>2, NoChunks DEF Inv, TypeOK, Http, pss
  <2>2. HeapExact' /\ PssInv' /\ WriteInv' /\ CrashOnlyWhenEmpty'
    BY <1>2 DEF Inv, HeapExact, PssInv, WriteInv, CrashOnlyWhenEmpty, Http, pss
  <2>3. BodyInv'
    BY <1>1, <1>2 DEF Inv, PssInv, BodyInv, Http, pss, Body
  <2> QED  BY <2>1, <2>2, <2>3 DEF Inv
<1>3. CASE Drop("closed", heap, data, out_data) /\ rest' = 0 /\ status' = 0
  <2>1. /\ path' \in {"none", "api", "other"} /\ size' = n /\ rest' = 0
        /\ status' = 0 /\ wire' = <<>> /\ seen' = <<>> /\ total' = 0
    BY <1>3 DEF Http
  <2>2. broken' \in BOOLEAN
    BY DEF Http, Inv, TypeOK
  <2> QED  BY <1>1, <1>3, <2>1, <2>2, DropType, NoChunks
<1> QED  BY <1>2, <1>3 DEF Http

\* LWS_CALLBACK_HTTP_BODY preserves the invariant.
LEMMA HttpBodyInv ==
    ASSUME Inv, NEW len \in 1..RxMax, HttpBody(len)
    PROVE  Inv'
<1> DEFINE k  == size - rest
           in == SubSeq(Body(size), k + 1, k + len)
<1>1. /\ phase = "body" /\ size \in Nat /\ rest \in Nat /\ rest <= size /\ len <= rest
      /\ k \in Nat /\ len \in Nat /\ len > 0 /\ k + len <= size
      /\ data = Body(k) /\ data_len = k /\ wire = <<>> /\ seen = <<>>
  BY SizeAssumption DEF Inv, TypeOK, BodyInv, HttpBody
<1>2. Body(k) = <<>> <=> k = 0
  BY <1>1, BodyType
<1>3. data' = Body(k + len) /\ data_len' = k + len
      /\ heap' = heap + (IF data = <<>> THEN 1 ELSE 0)
  <2>1. CASE data = <<>>
    <3>1. k = 0 /\ data' = in /\ data_len' = len /\ heap' = heap + 1
      BY <2>1, <1>1, <1>2 DEF HttpBody
    <3> QED  BY <3>1, <1>1, <2>1, AppendBody
  <2>2. CASE data # <<>>
    <3>1. data' = Append_(data, data_len, in) /\ data_len' = k + len /\ heap' = heap
      BY <2>2, <1>1 DEF HttpBody
    <3>2. heap \in Nat
      BY DEF Inv, TypeOK
    <3> QED  BY <3>1, <3>2, <1>1, <2>2, AppendBody
  <2> QED  BY <2>1, <2>2
<1>4. data' \in Seq(Nat) /\ data' # <<>>
  BY <1>1, <1>3, BodyType
<1>5. heap' = 1 /\ out_data' = 0 /\ out_data = 0
  BY <1>1, <1>3 DEF Inv, HeapExact, PssInv, TypeOK, HttpBody
<1>6. rest' = rest - len /\ UNCHANGED <<phase, path, size, out_data, out_data_len, i,
                                        armed, broken, status, wire, seen, total>>
  BY DEF HttpBody
<1>7. TypeOK'
  BY <1>1, <1>3, <1>4, <1>5, <1>6 DEF Inv, TypeOK
<1>8. HeapExact'
  BY <1>4, <1>5 DEF HeapExact
<1>9. BodyInv'
  <2>1. size' - rest' = k + len
    BY <1>1, <1>6
  <2> QED  BY <2>1, <1>1, <1>3, <1>6 DEF BodyInv
<1>10. PssInv' /\ WriteInv' /\ CrashOnlyWhenEmpty'
  BY <1>1, <1>6 DEF Inv, PssInv, WriteInv, CrashOnlyWhenEmpty
<1> QED  BY <1>7, <1>8, <1>9, <1>10 DEF Inv

\* LWS_CALLBACK_HTTP_BODY_COMPLETION preserves the invariant.
LEMMA HttpBodyCompletionInv ==
    ASSUME Inv, HttpBodyCompletion
    PROVE  Inv' /\ seen' = [Body(size) EXCEPT ![size] = 0]
<1>0. /\ size \in Nat /\ data = Body(size) /\ data # <<>> /\ data_len = size
      /\ wire = <<>> /\ i = 0 /\ out_data = 0
  BY DEF Inv, TypeOK, BodyInv, PssInv, HttpBodyCompletion
<1>1. /\ size \in Nat /\ size > 0 /\ data = Body(size) /\ data_len = size
      /\ wire = <<>> /\ i = 0 /\ out_data = 0
  BY <1>0, BodyType
<1>2. seen' = [Body(size) EXCEPT ![size] = 0]
  BY <1>1 DEF HttpBodyCompletion
<1>3. seen' \in Seq(Nat)
  <2>1. seen' = [j \in 1..size |-> IF j = size THEN 0 ELSE j]
    BY <1>1, <1>2 DEF Body
  <2>2. seen' \in [1..size -> Nat]
    BY <1>1, <2>1
  <2> QED  BY <1>1, <2>2, SeqDef
<1>4. PICK n \in ReplyLens \cup {0} :
          /\ out_data' = n /\ out_data_len' = n /\ total' = n
          /\ heap' = heap - 1 + (IF n = 0 THEN 0 ELSE 1)
  BY DEF HttpBodyCompletion
<1>5. n \in Nat
  BY SizeAssumption
<1>6. heap = 1
  BY <1>1, BodyType DEF Inv, HeapExact
<1>7. /\ data' = <<>> /\ armed' = TRUE /\ phase' = "writing"
      /\ UNCHANGED <<path, rest, size, data_len, i, broken, status, wire>>
  BY DEF HttpBodyCompletion
<1>8. TypeOK'
  BY <1>3, <1>4, <1>5, <1>6, <1>7 DEF Inv, TypeOK
<1>9. HeapExact' /\ PssInv' /\ BodyInv' /\ CrashOnlyWhenEmpty'
  BY <1>4, <1>5, <1>6, <1>7 DEF HeapExact, PssInv, BodyInv, CrashOnlyWhenEmpty
<1>10. WriteInv'
  BY <1>1, <1>4, <1>5, <1>7, SizeAssumption DEF WriteInv
<1> QED  BY <1>2, <1>8, <1>9, <1>10 DEF Inv

\* BODY_COMPLETION without a body, and the restart after it, preserve the
\* invariant.
LEMMA EmptyCompletionInv == ASSUME Inv, EmptyCompletion PROVE Inv'
<1>1. /\ size \in Nat /\ Body(size) = <<>> /\ data_len = size
  BY DEF Inv, TypeOK, BodyInv, EmptyCompletion
<1>2. size = 0
  BY <1>1, BodyType
<1>3. phase' = "crashed" /\ data = <<>>
      /\ UNCHANGED <<path, rest, size, pss, armed, broken, heap, status, wire, seen, total>>
  BY DEF EmptyCompletion
<1>4. TypeOK'
  BY <1>3 DEF Inv, TypeOK, pss
<1>5. HeapExact' /\ PssInv' /\ BodyInv' /\ WriteInv' /\ CrashOnlyWhenEmpty'
  BY <1>2, <1>3 DEF Inv, HeapExact, PssInv, BodyInv, WriteInv, CrashOnlyWhenEmpty, pss,
                    EmptyCompletion
<1> QED  BY <1>4, <1>5 DEF Inv

\* A restarted process starts with no connection and no buffers.
LEMMA RestartInv == ASSUME Inv, Restart PROVE Inv'
<1>1. armed' \in BOOLEAN
  BY DEF Restart
<1>2. <<>> \in Seq(Nat)
  BY EmptySeq
<1>3. TypeOK'
  BY <1>1, <1>2 DEF Inv, TypeOK, Restart
<1>4. HeapExact' /\ PssInv' /\ BodyInv' /\ WriteInv' /\ CrashOnlyWhenEmpty'
  BY DEF Restart, HeapExact, PssInv, BodyInv, WriteInv, CrashOnlyWhenEmpty
<1> QED  BY <1>3, <1>4 DEF Inv

\* The chunk that a WRITEABLE callback is about to send: never empty, never
\* beyond the end, and FINAL exactly when it reaches the end.
LEMMA ChunkFacts ==
    ASSUME Inv, phase = "writing", out_data # 0,
           NEW off, off = Offset(out_data, out_data_len),
           NEW len, len = Piece(out_data, out_data_len)
    PROVE  /\ off \in Nat /\ off = i * Chunk /\ len \in Nat /\ len > 0
           /\ out_data_len - len \in Nat
           /\ len = Min2(Chunk, total - i * Chunk)
           /\ Final(out_data_len - len) <=> (i + 1) * Chunk >= total
           /\ Final(out_data_len - len) => off + len = total
           /\ ~Final(out_data_len - len) =>
                  /\ out_data_len - len > 0
                  /\ out_data_len - len = total - (i + 1) * Chunk
                  /\ (i + 1) * Chunk \in Nat
<1>1. /\ Chunk \in Nat /\ Chunk > 0 /\ i \in Nat /\ i * Chunk \in Nat /\ total \in Nat
      /\ out_data_len \in Nat /\ out_data_len > 0 /\ out_data_len = total - i * Chunk
  BY SizeAssumption DEF Inv, TypeOK, WriteInv
<1>2. (i + 1) * Chunk = i * Chunk + Chunk /\ Chunk * i = i * Chunk
  BY <1>1
<1>3. off = i * Chunk /\ len = (IF Chunk < out_data_len THEN Chunk ELSE out_data_len)
  BY <1>2 DEF Offset, Piece, Min2
<1> DEFINE a == i * Chunk
           b == (i + 1) * Chunk
<1>4. a \in Nat /\ b = a + Chunk /\ out_data_len = total - a /\ off = a
  BY <1>1, <1>2, <1>3
<1> HIDE DEF a, b
<1>5. /\ off \in Nat /\ len \in Nat /\ len > 0 /\ out_data_len - len \in Nat
      /\ len = Min2(Chunk, total - a)
      /\ Final(out_data_len - len) <=> b >= total
      /\ Final(out_data_len - len) => off + len = total
      /\ ~Final(out_data_len - len) =>
             out_data_len - len > 0 /\ out_data_len - len = total - b /\ b \in Nat
  BY <1>1, <1>3, <1>4 DEF Final, Min2
<1> QED  BY <1>4, <1>5 DEF a, b

\* What LWS_CALLBACK_HTTP_WRITEABLE does: the transaction ends without
\* another chunk, or a chunk is sent or lost and the transaction goes on or,
\* after the last one, ends.
LEMMA WriteableCases ==
    ASSUME HttpWriteable, NEW off, off = Offset(out_data, out_data_len),
           NEW len, len = Piece(out_data, out_data_len),
           NEW final, final = Final(out_data_len - len)
    PROVE  /\ phase = "writing" /\ UNCHANGED <<path, rest, size, status, seen, total>>
           /\ \/ Drop("closed", heap, data, out_data) /\ UNCHANGED <<broken, wire>>
              \/ /\ out_data # 0
                 /\ \/ /\ ~broken /\ UNCHANGED broken
                       /\ wire' = Append(wire, [off |-> off, len |-> len, final |-> final])
                    \/ broken' = TRUE /\ UNCHANGED wire
                 /\ \/ /\ ~final /\ armed' = Rearmed(final)
                       /\ out_data_len' = out_data_len - len /\ i' = i + 1
                       /\ UNCHANGED <<phase, data, data_len, out_data, heap>>
                    \/ /\ final
                       /\ \E next \in {"idle", "closed"} :
                              Drop(next, heap, data, out_data)
  BY DEF HttpWriteable

\* LWS_CALLBACK_HTTP_WRITEABLE preserves the invariant.
LEMMA HttpWriteableInv == ASSUME Inv, HttpWriteable PROVE Inv'
<1> DEFINE off   == Offset(out_data, out_data_len)
           len   == Piece(out_data, out_data_len)
           final == Final(out_data_len - len)
<1> HIDE DEF off, len, final
<1>1. UNCHANGED <<path, rest, size, status, seen, total>> /\ phase = "writing"
  BY WriteableCases DEF off, len, final
<1>2. CASE Drop("closed", heap, data, out_data) /\ UNCHANGED <<broken, wire>>
  BY <1>1, <1>2, DropType DEF Inv, TypeOK
<1>3. CASE /\ out_data # 0
           /\ \/ /\ ~broken /\ UNCHANGED broken
                 /\ wire' = Append(wire, [off |-> off, len |-> len, final |-> final])
              \/ broken' = TRUE /\ UNCHANGED wire
  <2>1. /\ off \in Nat /\ len \in Nat \ {0} /\ out_data_len - len \in Nat
        /\ ~final => /\ out_data_len - len > 0 /\ (i + 1) * Chunk \in Nat
                     /\ out_data_len - len = total - (i + 1) * Chunk
    BY <1>1, <1>3, ChunkFacts DEF off, len, final
  <2>2. final \in BOOLEAN
    BY DEF final, Final
  <2>3. wire' \in Seq([off : Nat, len : Nat \ {0}, final : BOOLEAN])
    <3>1. wire \in Seq([off : Nat, len : Nat \ {0}, final : BOOLEAN])
      BY DEF Inv, TypeOK
    <3>2. [off |-> off, len |-> len, final |-> final]
              \in [off : Nat, len : Nat \ {0}, final : BOOLEAN]
      BY <2>1, <2>2
    <3>3. Append(wire, [off |-> off, len |-> len, final |-> final])
              \in Seq([off : Nat, len : Nat \ {0}, final : BOOLEAN])
      BY <3>1, <3>2, AppendProperties
    <3> QED  BY <1>3, <3>1, <3>3
  <2>4. broken' \in BOOLEAN
    BY <1>3 DEF Inv, TypeOK
  <2>5. CASE \E next \in {"idle", "closed"} : Drop(next, heap, data, out_data)
    <3>1. PICK next \in {"idle", "closed"} : Drop(next, heap, data, out_data)
      BY <2>5
    <3> QED  BY <1>1, <2>3, <2>4, <3>1, DropType DEF Inv, TypeOK
  <2>6. CASE /\ ~final /\ armed' = Rearmed(final)
             /\ out_data_len' = out_data_len - len /\ i' = i + 1
             /\ UNCHANGED <<phase, data, data_len, out_data, heap>>
    <3>1. armed' \in BOOLEAN
      BY <2>2, <2>6 DEF Rearmed
    <3>2. TypeOK'
      BY <1>1, <2>1, <2>3, <2>4, <2>6, <3>1 DEF Inv, TypeOK
    <3>3. HeapExact' /\ PssInv' /\ BodyInv' /\ CrashOnlyWhenEmpty'
      BY <1>1, <2>6 DEF Inv, HeapExact, PssInv, BodyInv, CrashOnlyWhenEmpty
    <3>4. ~broken' => Len(wire') = i'
      <4> SUFFICES ASSUME ~broken' PROVE Len(wire') = i'
        OBVIOUS
      <4>1. /\ ~broken /\ wire' = Append(wire, [off |-> off, len |-> len, final |-> final])
            /\ i' = i + 1
        BY <1>3, <2>6
      <4>2. Len(wire) = i /\ wire \in Seq([off : Nat, len : Nat \ {0}, final : BOOLEAN])
        BY <1>1, <4>1 DEF Inv, TypeOK, WriteInv
      <4>3. Len(wire') = Len(wire) + 1
        BY <4>1, <4>2
      <4> QED  BY <4>1, <4>2, <4>3
    <3>5. WriteInv'
      BY <1>1, <2>1, <2>6, <3>4 DEF Inv, WriteInv
    <3> QED  BY <3>2, <3>3, <3>5 DEF Inv
  <2> QED  BY <2>5, <2>6, WriteableCases, <1>3 DEF off, len, final
<1> QED  BY <1>2, <1>3, WriteableCases DEF off, len, final

\* Hangup preserves the invariant.
LEMMA HangupInv == ASSUME Inv, Hangup PROVE Inv'
<1>1. /\ Drop("closed", heap, data, out_data) /\ rest' = 0
      /\ UNCHANGED <<path, size, broken, status, wire, seen, total>>
  BY DEF Hangup
<1> QED  BY <1>1, DropType DEF Inv, TypeOK

\* Every step preserves the invariant.
LEMMA StepInv == Inv /\ [Next]_vars => Inv'
<1> SUFFICES ASSUME Inv, [Next]_vars PROVE Inv'
  OBVIOUS
<1>1. CASE UNCHANGED vars
  BY <1>1 DEF vars, pss, Inv, TypeOK, HeapExact, PssInv, BodyInv, WriteInv, CrashOnlyWhenEmpty
<1>2. CASE Next
  BY <1>2, ConnectInv, HttpInv, HttpBodyInv, HttpBodyCompletionInv, HttpWriteableInv,
     HangupInv, EmptyCompletionInv, RestartInv DEF Next
<1> QED  BY <1>1, <1>2

\* Every step preserves the exactness of the stream.
LEMMA StepStream == Inv /\ StreamExact /\ [Next]_vars => StreamExact'
<1> SUFFICES ASSUME Inv, StreamExact, [Next]_vars PROVE StreamExact'
  OBVIOUS
<1>1. CASE wire' = <<>>
  BY <1>1 DEF StreamExact
<1>2. CASE UNCHANGED <<wire, total>>
  BY <1>2 DEF StreamExact
<1>3. CASE HttpBodyCompletion
  BY <1>1, <1>3 DEF HttpBodyCompletion, Inv, BodyInv
<1>4. CASE HttpWriteable
  <2> DEFINE off   == Offset(out_data, out_data_len)
             len   == Piece(out_data, out_data_len)
             final == Final(out_data_len - len)
             chunk == [off |-> off, len |-> len, final |-> final]
  <2> HIDE DEF off, len, final
  <2>1. phase = "writing" /\ total' = total
    BY <1>4, WriteableCases DEF off, len, final
  <2>2. CASE UNCHANGED wire
    BY <1>2, <2>1, <2>2
  <2>3. CASE out_data # 0 /\ ~broken /\ wire' = Append(wire, chunk)
    <3>1. /\ off = i * Chunk /\ len = Min2(Chunk, total - i * Chunk)
          /\ final <=> (i + 1) * Chunk >= total
      BY <2>1, <2>3, ChunkFacts DEF off, len, final
    <3>2. /\ Len(wire) = i /\ i \in Nat
          /\ wire \in Seq([off : Nat, len : Nat \ {0}, final : BOOLEAN])
      BY <2>1, <2>3 DEF Inv, TypeOK, WriteInv
    <3>3. /\ DOMAIN wire' = 1..(i + 1) /\ DOMAIN wire = 1..i /\ wire'[i + 1] = chunk
          /\ \A k \in 1..i : wire'[k] = wire[k]
      BY <2>3, <3>2
    <3>4. final = ((i + 1) * Chunk >= total)
      BY <3>1 DEF final, Final
    <3>5. chunk = [off |-> i * Chunk, len |-> Min2(Chunk, total - i * Chunk),
                   final |-> (i + 1) * Chunk >= total]
      BY <3>1, <3>4
    <3>6. SUFFICES ASSUME NEW k \in 1..(i + 1)
                   PROVE  wire'[k] = [off |-> (k - 1) * Chunk,
                                      len |-> Min2(Chunk, total - (k - 1) * Chunk),
                                      final |-> k * Chunk >= total]
      BY <2>1, <3>3 DEF StreamExact
    <3>7. CASE k \in 1..i
      BY <3>3, <3>7 DEF StreamExact
    <3>8. CASE k = i + 1
      <4>1. k - 1 = i
        BY <3>2, <3>8
      <4> QED  BY <3>3, <3>5, <3>8, <4>1
    <3> QED  BY <3>2, <3>7, <3>8
  <2> QED  BY <1>4, <2>2, <2>3, WriteableCases DEF off, len, final
<1>5. CASE Connect \/ (\E p \in {"api", "other"}, m \in {"GET", "POST"}, n \in BodyLens : Http(p, m, n))
  BY <1>1, <1>5 DEF Connect, Http
<1>6. CASE Hangup \/ EmptyCompletion \/ Restart \/ (\E len \in 1..RxMax : HttpBody(len))
              \/ UNCHANGED vars
  BY <1>2, <1>6 DEF Hangup, EmptyCompletion, Restart, HttpBody, vars
<1> QED  BY <1>3, <1>4, <1>5, <1>6 DEF Next

\* Every step preserves the completeness of a kept connection's answer.
LEMMA StepKept == Inv /\ KeptMeansComplete /\ [Next]_vars => KeptMeansComplete'
<1> SUFFICES ASSUME Inv, KeptMeansComplete, [Next]_vars PROVE KeptMeansComplete'
  OBVIOUS
<1>1. CASE phase' # "idle" \/ status' = 0
  BY <1>1 DEF KeptMeansComplete
<1>2. CASE HttpWriteable
  <2> DEFINE off   == Offset(out_data, out_data_len)
             len   == Piece(out_data, out_data_len)
             final == Final(out_data_len - len)
             chunk == [off |-> off, len |-> len, final |-> final]
  <2> HIDE DEF off, len, final
  <2>1. SUFFICES ASSUME phase' = "idle", ~broken' PROVE KeptMeansComplete'
    BY DEF KeptMeansComplete
  <2>2. /\ phase = "writing" /\ total' = total /\ out_data # 0 /\ final
        /\ wire' = Append(wire, chunk)
    <3>1. ~Drop("closed", heap, data, out_data)
      BY <2>1 DEF Drop
    <3>2. broken' # TRUE
      BY <2>1
    <3>3. ~(phase = "writing" /\ UNCHANGED phase)
      BY <2>1
    <3>4. phase = "writing" /\ total' = total
      BY <1>2, WriteableCases DEF off, len, final
    <3>5. out_data # 0 /\ wire' = Append(wire, chunk)
      BY <1>2, <3>1, <3>2, WriteableCases DEF off, len, final
    <3>6. final
      BY <1>2, <3>1, <3>3, <3>5 DEF HttpWriteable, off, len, final
    <3> QED  BY <3>4, <3>5, <3>6
  <2>3. off + len = total
    BY <2>2, ChunkFacts DEF off, len, final
  <2>4. wire \in Seq([off : Nat, len : Nat \ {0}, final : BOOLEAN])
    BY DEF Inv, TypeOK
  <2>5. wire' # <<>> /\ wire'[Len(wire')] = chunk
    BY <2>2, <2>4
  <2> QED  BY <2>2, <2>3, <2>5 DEF KeptMeansComplete
<1>3. CASE Connect
  BY <1>1, <1>3 DEF Connect
<1>4. CASE \E p \in {"api", "other"}, m \in {"GET", "POST"}, n \in BodyLens : Http(p, m, n)
  BY <1>1, <1>4 DEF Http, Drop
<1>5. CASE HttpBodyCompletion \/ EmptyCompletion \/ Restart \/ Hangup
              \/ \E len \in 1..RxMax : HttpBody(len)
  BY <1>1, <1>5 DEF HttpBodyCompletion, EmptyCompletion, Restart, Hangup, HttpBody, Drop
<1>6. CASE UNCHANGED vars
  BY <1>6 DEF vars, KeptMeansComplete
<1> QED  BY <1>2, <1>3, <1>4, <1>5, <1>6 DEF Next

\* Every step preserves what process() was given.
LEMMA StepBody == Inv /\ BodyWhole /\ [Next]_vars => BodyWhole'
<1> SUFFICES ASSUME Inv, BodyWhole, [Next]_vars PROVE BodyWhole'
  OBVIOUS
<1>1. CASE seen' = <<>>
  BY <1>1 DEF BodyWhole
<1>2. CASE UNCHANGED <<seen, size>>
  BY <1>2 DEF BodyWhole
<1>3. CASE HttpBodyCompletion
  <2>1. seen' = [Body(size) EXCEPT ![size] = 0] /\ size' = size
    BY <1>3, HttpBodyCompletionInv DEF HttpBodyCompletion
  <2> QED  BY <2>1 DEF BodyWhole
<1>4. CASE Connect \/ (\E p \in {"api", "other"}, m \in {"GET", "POST"}, n \in BodyLens : Http(p, m, n))
  BY <1>1, <1>4 DEF Connect, Http
<1>5. CASE HttpWriteable \/ Hangup \/ EmptyCompletion \/ Restart
              \/ (\E len \in 1..RxMax : HttpBody(len)) \/ UNCHANGED vars
  BY <1>2, <1>5 DEF HttpWriteable, Hangup, EmptyCompletion, Restart, HttpBody, vars
<1> QED  BY <1>3, <1>4, <1>5 DEF Next

-----------------------------------------------------------------------------
\* The buffers, the body and the response of struct pss, in every reachable
\* state.
THEOREM TransactionInvariant == Spec => []Inv
<1>1. Init => Inv
  BY InitInv
<1>2. Inv /\ [Next]_vars => Inv'
  BY StepInv
<1> QED  BY <1>1, <1>2, PTL DEF Spec

\* The types of the variables of http_callback, out_data_len never negative
\* among them.
THEOREM TransactionTypes == Spec => []TypeOK
<1>1. Inv => TypeOK
  BY DEF Inv
<1> QED  BY <1>1, TransactionInvariant, PTL

\* Nothing that http_callback allocates is leaked or freed twice, wherever the
\* connection ends.
THEOREM BuffersOwned == Spec => []HeapExact
<1>1. Inv => HeapExact
  BY DEF Inv
<1> QED  BY <1>1, TransactionInvariant, PTL

\* The chunks a client receives are the response, in order and without gap or
\* overlap, and the FINAL one is the one that ends it.
THEOREM ResponseExact == Spec => []StreamExact
<1>1. Init => StreamExact
  BY DEF Init, StreamExact
<1>2. Inv /\ StreamExact /\ [Next]_vars => StreamExact'
  BY StepStream
<1> QED  BY <1>1, <1>2, TransactionInvariant, PTL DEF Spec

\* A connection that is kept carried the whole response.
THEOREM KeptComplete == Spec => []KeptMeansComplete
<1>1. Init => KeptMeansComplete
  BY DEF Init, KeptMeansComplete
<1>2. Inv /\ KeptMeansComplete /\ [Next]_vars => KeptMeansComplete'
  BY StepKept
<1> QED  BY <1>1, <1>2, TransactionInvariant, PTL DEF Spec

\* process() is given the bytes of the body in order, but for the last.
THEOREM BodyDelivered == Spec => []BodyWhole
<1>1. Init => BodyWhole
  BY DEF Init, BodyWhole
<1>2. Inv /\ BodyWhole /\ [Next]_vars => BodyWhole'
  BY StepBody
<1> QED  BY <1>1, <1>2, TransactionInvariant, PTL DEF Spec

\* However the pieces of a body are cut, the process is brought down
\* by a request without a body only.
THEOREM CrashesBounded == Spec => []CrashOnlyWhenEmpty
<1>1. Inv => CrashOnlyWhenEmpty
  BY DEF Inv
<1> QED  BY <1>1, TransactionInvariant, PTL

-----------------------------------------------------------------------------
\* The refinement.  While a response is sent, the end of the last chunk is
\* where the code's i says it is.
LEMMA WireEnd ==
    ASSUME Inv, StreamExact, phase = "writing", ~broken, out_data # 0
    PROVE  OnWire = i * Chunk
<1>1. /\ Chunk \in Nat /\ i \in Nat /\ i * Chunk \in Nat /\ total \in Nat
      /\ out_data_len > 0 /\ out_data_len = total - i * Chunk /\ Len(wire) = i
      /\ out_data_len \in Nat
  BY SizeAssumption DEF Inv, TypeOK, WriteInv
<1>2. wire \in Seq([off : Nat, len : Nat \ {0}, final : BOOLEAN])
  BY DEF Inv, TypeOK
<1>3. CASE i = 0
  <2>1. wire = <<>>
    BY <1>1, <1>2, <1>3, EmptySeq, LenProperties
  <2> QED  BY <1>1, <1>3, <2>1 DEF OnWire
<1>4. CASE i # 0
  <2>1. wire # <<>> /\ i \in DOMAIN wire
    BY <1>1, <1>2, <1>4
  <2>2. /\ wire[i].off = (i - 1) * Chunk
        /\ wire[i].len = Min2(Chunk, total - (i - 1) * Chunk)
    BY <2>1 DEF StreamExact
  <2> DEFINE a == i * Chunk
             b == (i - 1) * Chunk
  <2>3. b = a - Chunk
    BY <1>1
  <2>4. a \in Nat /\ total - a > 0
    BY <1>1
  <2> HIDE DEF a, b
  <2>5. b + Min2(Chunk, total - b) = a
    BY <1>1, <2>3, <2>4 DEF Min2
  <2>6. OnWire = wire[i].off + wire[i].len
    BY <1>1, <2>1 DEF OnWire
  <2> QED  BY <2>2, <2>5, <2>6 DEF a, b
<1> QED  BY <1>3, <1>4

\* Where a connection is for the client.
LEMMA StageOf ==
    ASSUME TypeOK
    PROVE  /\ broken \/ phase \in {"closed", "crashed"} <=> Stage = "down"
           /\ ~broken /\ phase = "idle" <=> Stage = "ready"
           /\ ~broken /\ phase = "body" <=> Stage = "asking"
           /\ ~broken /\ phase = "writing" <=> Stage = "answering"
  BY DEF TypeOK, Stage

\* Without a connection the abstract variables are zero.
LEMMA Quiet ==
    ASSUME Stage = "down"
    PROVE  Asked = 0 /\ Handled = 0 /\ Length = 0 /\ Sent = 0
  BY DEF Asked, Handled, Length, Sent

\* The same of the state a step leads to.
LEMMA NoConnection ==
    ASSUME Stage' = "down"
    PROVE  Client!Between("down")
  BY DEF Client!Between, Asked, Handled, Length, Sent

\* What does not move the request, the response or the wire is a stutter.
LEMMA SameForClient ==
    ASSUME Stage' = Stage, size' = size, seen' = seen, total' = total, wire' = wire
    PROVE  UNCHANGED Client!vars
  BY DEF Client!vars, Asked, Handled, Length, Sent, OnWire

\* Any step may end a connection.
LEMMA ToDown ==
    ASSUME Stage' = "down"
    PROVE  [Client!Next]_(Client!vars)
<1>1. Client!Between("down")
  BY NoConnection
<1>2. CASE Stage = "down"
  BY <1>1, <1>2, Quiet DEF Client!Between, Client!vars
<1>3. CASE Stage # "down"
  BY <1>1, <1>3 DEF Client!Fail, Client!Next
<1> QED  BY <1>2, <1>3

\* BODY_COMPLETION handles the request as a whole.
LEMMA CompletionIsHandle ==
    ASSUME Inv, ~broken, HttpBodyCompletion
    PROVE  Client!Handle
<1>1. Stage = "asking"
  BY StageOf DEF Inv, HttpBodyCompletion
<1>2. Inv' /\ seen' = [Body(size) EXCEPT ![size] = 0]
  BY HttpBodyCompletionInv
<1>3. phase' = "writing" /\ ~broken' /\ size' = size /\ wire' = wire
  BY DEF HttpBodyCompletion
<1>4. Stage' = "answering"
  BY <1>3 DEF Stage
<1>5. size \in Nat /\ wire = <<>>
  BY DEF Inv, TypeOK, BodyInv, HttpBodyCompletion
<1>6. Len(seen') = size
  <2>1. seen' = [j \in 1..size |-> IF j = size THEN 0 ELSE j]
    BY <1>2, <1>5 DEF Body
  <2>2. seen' \in Seq(Nat)
    BY <1>2 DEF Inv, TypeOK
  <2> QED  BY <1>5, <2>1, <2>2, LenProperties
<1>7. total' \in ReplyLens \cup {0}
  BY DEF HttpBodyCompletion
<1>8. Asked = size /\ Asked' = size /\ Handled' = size /\ Length' = total' /\ Sent' = 0 /\ Sent = 0
  BY <1>1, <1>3, <1>4, <1>5, <1>6 DEF Asked, Handled, Length, Sent, OnWire
<1> QED  BY <1>1, <1>4, <1>7, <1>8 DEF Client!Handle

\* A chunk that leaves the connection up delivers at least a byte, and the
\* last one frees it for the next request.
LEMMA WriteableIsDeliver ==
    ASSUME Inv, StreamExact, HttpWriteable, ~broken', phase' # "closed"
    PROVE  Client!Deliver
<1> DEFINE off   == Offset(out_data, out_data_len)
           len   == Piece(out_data, out_data_len)
           final == Final(out_data_len - len)
           chunk == [off |-> off, len |-> len, final |-> final]
<1> HIDE DEF off, len, final
<1>0. ~Drop("closed", heap, data, out_data) /\ broken' # TRUE
  BY DEF Drop
<1>1. /\ phase = "writing" /\ UNCHANGED <<size, seen, total>>
      /\ out_data # 0 /\ ~broken /\ wire' = Append(wire, chunk)
      /\ \/ ~final /\ phase' = phase /\ out_data' = out_data
         \/ final /\ \E next \in {"idle", "closed"} : Drop(next, heap, data, out_data)
  BY <1>0, WriteableCases DEF off, len, final
<1>2. /\ off = i * Chunk /\ off \in Nat /\ len \in Nat /\ len > 0
      /\ final => off + len = total
      /\ ~final => out_data_len - len > 0 /\ out_data_len = total - i * Chunk
  <2>1. WriteInv
    BY DEF Inv
  <2> QED BY <1>1, <2>1, ChunkFacts DEF off, len, final, WriteInv
<1>3. OnWire = off
  BY <1>1, <1>2, WireEnd
<1>4. wire \in Seq([off : Nat, len : Nat \ {0}, final : BOOLEAN])
  BY DEF Inv, TypeOK
<1>5. OnWire' = off + len
  <2>1. wire' # <<>> /\ wire'[Len(wire')] = chunk
    BY <1>1, <1>4
  <2> QED  BY <2>1 DEF OnWire
<1>6. Stage = "answering" /\ Sent = off /\ Length = total /\ total \in Nat
  BY <1>1, <1>3, StageOf DEF Inv, TypeOK, Sent, Length
<1>7. CASE final
  <2>1. phase' = "idle"
    BY <1>0, <1>1, <1>7 DEF Drop
  <2>2. Stage' = "ready"
    BY <2>1 DEF Stage
  <2>3. Sent' = Length /\ Length' = Length /\ Asked' = 0 /\ Handled' = 0
    BY <1>1, <1>2, <1>5, <1>6, <1>7, <2>2 DEF Asked, Handled, Length, Sent
  <2>4. Length \in (Sent + 1) .. Length
    BY <1>2, <1>6, <1>7
  <2> QED  BY <1>6, <2>2, <2>3, <2>4 DEF Client!Deliver
<1>8. CASE ~final
  <2>1. phase' = "writing"
    BY <1>1, <1>8
  <2>2. Stage' = "answering"
    BY <2>1 DEF Stage
  <2>3. off + len < total
    <3>1. out_data_len \in Nat
      BY DEF Inv, TypeOK
    <3> QED  BY <1>2, <1>6, <1>8, <3>1
  <2>4. off + len \in (Sent + 1) .. Length /\ off + len < Length
    BY <1>2, <1>6, <2>3
  <2>5. Sent' = off + len
    BY <1>5, <2>2 DEF Sent
  <2>6. Stage' = Stage /\ Asked' = Asked /\ Handled' = Handled /\ Length' = Length
    BY <1>1, <1>6, <2>2 DEF Asked, Handled, Length
  <2> QED  BY <1>6, <2>4, <2>5, <2>6 DEF Client!Deliver
<1> QED  BY <1>7, <1>8

\* Every callback is a step of Exchange, or none.
LEMMA StepMaps == Inv /\ StreamExact /\ [Next]_vars => [Client!Next]_(Client!vars)
<1> SUFFICES ASSUME Inv, StreamExact, [Next]_vars PROVE [Client!Next]_(Client!vars)
  OBVIOUS
<1>0. TypeOK
  BY DEF Inv
<1>1. CASE Connect
  <2>1. Stage = "down" /\ Stage' = "ready"
    BY <1>1 DEF Connect, Stage
  <2>2. Asked' = 0 /\ Handled' = 0 /\ Length' = 0 /\ Sent' = 0
    BY <1>1, <2>1 DEF Connect, Asked, Handled, Length, Sent, OnWire
  <2> QED  BY <2>1, <2>2 DEF Client!Open, Client!Between, Client!Next
<1>2. ASSUME NEW p \in {"api", "other"}, NEW m \in {"GET", "POST"}, NEW n \in BodyLens,
             Http(p, m, n)
      PROVE  [Client!Next]_(Client!vars)
  <2>1. CASE ~broken /\ phase' = "body"
    <3>1. phase = "idle" /\ ~broken' /\ size' = n
      BY <1>2, <2>1 DEF Http
    <3>2. Stage = "ready" /\ Stage' = "asking"
      BY <2>1, <3>1 DEF Stage
    <3>3. Handled = 0 /\ Handled' = 0 /\ Length' = 0 /\ Sent' = 0
          /\ Asked' = n
      BY <3>1, <3>2 DEF Asked, Handled, Length, Sent
    <3> QED  BY <3>2, <3>3 DEF Client!Ask, Client!Next
  <2>2. CASE phase' = "closed"
    <3>1. Stage' = "down"
      BY <2>2 DEF Stage
    <3> QED  BY <3>1, ToDown
  <2> QED  BY <1>2, <2>1, <2>2 DEF Http, Drop
<1>3. CASE \E len \in 1..RxMax : HttpBody(len)
  <2>1. UNCHANGED <<phase, broken, size, seen, total, wire>>
    BY <1>3 DEF HttpBody
  <2>2. Stage' = Stage
    BY <2>1 DEF Stage
  <2> QED  BY <2>1, <2>2, SameForClient
<1>4. CASE HttpBodyCompletion
  <2>1. CASE broken
    <3>1. Stage' = "down"
      BY <1>4, <2>1 DEF HttpBodyCompletion, Stage
    <3> QED  BY <3>1, ToDown
  <2> QED  BY <1>4, <2>1, CompletionIsHandle DEF Client!Next
<1>5. CASE EmptyCompletion \/ Restart \/ Hangup
  <2>1. Stage' = "down"
    BY <1>5 DEF EmptyCompletion, Restart, Hangup, Drop, Stage
  <2> QED  BY <2>1, ToDown
<1>6. CASE HttpWriteable
  <2>1. CASE broken' \/ phase' = "closed"
    <3>1. Stage' = "down"
      BY <2>1 DEF Stage
    <3> QED  BY <3>1, ToDown
  <2>2. CASE ~broken' /\ phase' # "closed"
    BY <1>6, <2>2, WriteableIsDeliver DEF Client!Next
  <2> QED  BY <2>1, <2>2
<1>7. CASE UNCHANGED vars
  <2>1. UNCHANGED <<phase, broken, size, seen, total, wire>>
    BY <1>7 DEF vars
  <2>2. Stage' = Stage
    BY <2>1 DEF Stage
  <2> QED  BY <2>1, <2>2, SameForClient
<1> QED  BY <1>1, <1>2, <1>3, <1>4, <1>5, <1>6, <1>7 DEF Next

\* http_callback implements Exchange, for every chunk size and message size:
\* every behaviour of the callback is, for the client, a sequence of whole
\* requests and of responses delivered from the first byte to the last before
\* the connection is ready again.  (That no answer stops in the middle is left
\* to TLC.)
THEOREM CallbackImplementsExchange == Spec => ExchangeSteps
<1>1. Init => Client!Init
  BY Quiet DEF Init, Client!Init, Stage
<1>2. Inv /\ StreamExact /\ [Next]_vars => [Client!Next]_(Client!vars)
  BY StepMaps
<1> QED  BY <1>1, <1>2, TransactionInvariant, ResponseExact, PTL DEF Spec, ExchangeSteps
=============================================================================
